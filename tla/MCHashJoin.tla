----------------------------- MODULE MCHashJoin -----------------------------
(***************************************************************************)
(* The instance of HashJoin for TLC: tables of keys with MaxRows rows on   *)
(* both sides together, and tables with NULLs and cells of another type    *)
(* with MaxOdd rows on each side.                                          *)
(***************************************************************************)
EXTENDS HashJoin

CONSTANTS MaxPages, MaxRows, MaxOdd, k1, k2

PagesOf(cells) == UNION {[1 .. n -> cells] : n \in 1 .. PageSlots}

RowCount(t) == Len(FlattenSeq(t))

(* Up to MaxPages pages, any of them partly filled. *)
TablesOf(cells, rows) ==
    {t \in UNION {[1 .. n -> PagesOf(cells)] : n \in 0 .. MaxPages} :
        RowCount(t) <= rows}

MCInputs ==
    LET keyed == TablesOf({k1, k2}, MaxRows)
        odd   == TablesOf({k1, Null, Wrong}, MaxOdd)
    IN  {pair \in keyed \X keyed : RowCount(pair[1]) + RowCount(pair[2]) <= MaxRows}
        \cup (odd \X odd)

(* One column of each side, the right one first. *)
MCOutputAttrs == {<<1, 0>>}
=============================================================================
