---------------------------- MODULE Int32Column ----------------------------
(***************************************************************************)
(* The way of an INT32 column through the engine: ColumnInserter writes    *)
(* its rows to pages (plan.h), column_t_copy_scan turns the pages into     *)
(* boxes of 64-bit value_t (column_store.cpp, late.h), and                 *)
(* to_columnar_from_column writes the boxes to pages again, from which     *)
(* Table::copy_scan reads them.  The scan of a column runs in one thread   *)
(* of the filter pool, so the steps here are those of one thread.          *)
(***************************************************************************)
EXTENDS Integers, SequencesExt, FiniteSetsExt

CONSTANTS PageSize,    \* PAGE_SIZE (8192)
          Width,       \* sizeof(T), 4
          BoxCount,    \* ColumnPage::BUF_SIZE (1024)
          RawBits,     \* bits of a value_t (64)
          IntBits,     \* bits of an int32_t
          PageBits,    \* PAGE_BITS (26)
          PosBits,     \* POS_BITS (16)
          Ints,        \* the integers that rows may hold
          Null,        \* the row without a value
          MaxRows      \* bound on the rows inserted

(* 2^n, the number of values of n bits, as a function that proofs unfold. *)
pow2[n \in Nat] == IF n = 0 THEN 1 ELSE 2 * pow2[n - 1]

ASSUME Int32Assumption ==
    /\ PageSize \in Nat /\ Width \in Nat /\ BoxCount \in Nat \ {0}
    /\ Width <= 4 /\ 9 <= PageSize
    /\ MaxRows \in Nat

ASSUME ValueAssumption ==
    /\ {RawBits, PageBits, PosBits} \subseteq Nat /\ IntBits \in Nat \ {0}
    /\ PageBits + PosBits <= RawBits - 2 /\ IntBits <= RawBits - 2
    /\ Ints \subseteq -pow2[IntBits - 1] .. pow2[IntBits - 1] - 1
    /\ Null \notin Ints

VARIABLES phase,      \* "insert", "scan", "materialise", "done", "terminated"
          rows,       \* what was inserted
          inserter,   \* the ColumnInserter, its column's pages included
          column,     \* the column_t: is_no_null and the values of each page
          next,       \* the boxes of the column converted so far
          out         \* the inserter of the result column

vars == <<phase, rows, inserter, column, next, out>>

-----------------------------------------------------------------------------
(* ColumnInserter.  A page is what save_page leaves in it: two counters,   *)
(* the values, and which bits of its bitmap are set.  data_begin is 4 for  *)
(* every T of at most four bytes.  Operators named operator_Fault are      *)
(* faulty variants that show that the properties notice a plausible        *)
(* mistake.                                                                *)

NoRows == [pages |-> <<>>, num_rows |-> 0, data |-> <<>>, bitmap |-> {}]

bytes(bits) == (bits + 7) \div 8

data_end(ins) == 4 + Width * Len(ins.data)

(* The inserter keeps its bitmap: every row sets or clears its own bit. *)
save_page(ins) ==
    [ins EXCEPT !.pages = Append(@, [num_rows     |-> ins.num_rows,
                                     num_non_null |-> Len(ins.data),
                                     data         |-> ins.data,
                                     bitmap       |-> {b \in ins.bitmap :
                                                         b < 8 * bytes(ins.num_rows)}]),
                !.num_rows = 0,
                !.data = <<>>]

room_Rounded(ins, size) == data_end(ins) + size + ins.num_rows \div 8 <= PageSize

(* The row fits: so many bytes of data, and a bit of the bitmap. *)
room(ins, size) == data_end(ins) + size + ins.num_rows \div 8 + 1 <= PageSize

insert_NoBit(ins, value) ==
    LET i == IF room(ins, 4) THEN ins ELSE save_page(ins)
    IN  [i EXCEPT !.data = Append(@, value), !.num_rows = @ + 1]

insert(ins, value) ==
    LET i == IF room(ins, 4) THEN ins ELSE save_page(ins)
    IN  [i EXCEPT !.data = Append(@, value),
                  !.bitmap = @ \cup {i.num_rows},
                  !.num_rows = @ + 1]

insert_null(ins) ==
    LET i == IF room(ins, 0) THEN ins ELSE save_page(ins)
    IN  [i EXCEPT !.bitmap = @ \ {i.num_rows},
                  !.num_rows = @ + 1]

finalize(ins) == IF ins.num_rows # 0 THEN save_page(ins) ELSE ins

(* Row i, from 0, of a page, as every reader finds it: the values are      *)
(* packed, so its index is the number of set bits before it.               *)
cell(page, i) ==
    IF i \in page.bitmap
    THEN page.data[Cardinality({k \in page.bitmap : k < i}) + 1]
    ELSE Null

page_rows(page) == [i \in 1 .. page.num_rows |-> cell(page, i - 1)]

(* Table::copy_scan. *)
copy_scan(pages) == FlattenSeq([p \in DOMAIN pages |-> page_rows(pages[p])])

-----------------------------------------------------------------------------
(* value_t.  The two highest bits are the mode. *)

INT32_MODE         == pow2[RawBits - 2]
INT32_NO_NULL_MODE == 2 * pow2[RawBits - 2]
NULL_MODE          == 3 * pow2[RawBits - 2]

mode(raw) == raw - (raw % pow2[RawBits - 2])

make_null == NULL_MODE

(* INT32_MODE | v, where v is converted to the width of raw first: the     *)
(* sign of a negative v fills the mode bits too.                           *)
put_int32(v) == IF v >= 0 THEN INT32_MODE + v ELSE pow2[RawBits] + v

(* The low bits as a signed number. *)
get_int32(raw) ==
    LET low == raw % pow2[IntBits]
    IN  IF low < pow2[IntBits - 1] THEN low ELSE low - pow2[IntBits]

put_int32_no_null_OnePage(page, pos) == INT32_NO_NULL_MODE + pos

(* The table and the column of a reference are those being scanned. *)
put_int32_no_null(page, pos) == INT32_NO_NULL_MODE + page * pow2[PosBits] + pos

get_page(raw) == (raw \div pow2[PosBits]) % pow2[PageBits]
get_pos(raw)  == raw % pow2[PosBits]

-----------------------------------------------------------------------------
(* column_t_copy_scan of the column.                                       *)

no_nulls(pages) == \A p \in DOMAIN pages : pages[p].num_rows = pages[p].num_non_null

(* Values side by side in pages of BoxCount. *)
SideBySide(values) ==
    [b \in 1 .. (Len(values) + BoxCount - 1) \div BoxCount |->
        SubSeq(values, (b - 1) * BoxCount + 1,
               IF b * BoxCount < Len(values) THEN b * BoxCount ELSE Len(values))]

(* References into the original pages, or copies of the values. *)
page_refs(page, p) == [i \in 1 .. page.num_rows |-> put_int32_no_null(p, i - 1)]

ReferencesTo(pages) == FlattenSeq([p \in DOMAIN pages |-> page_refs(pages[p], p - 1)])

CopiesOf(pages) ==
    LET values == copy_scan(pages)
    IN  [r \in DOMAIN values |->
            IF values[r] = Null THEN make_null ELSE put_int32(values[r])]

(* A page or position too large for its field throws. *)
TooLarge(pages) ==
    \E p \in DOMAIN pages :
        \/ pages[p].num_rows > 0 /\ p - 1 >= pow2[PageBits]
        \/ pages[p].num_rows > pow2[PosBits]

(* get_int32_value_from_page: in a column without NULLs the position in    *)
(* the page is the index of the value.                                     *)
ValueFromPage(raw) == inserter.pages[get_page(raw) + 1].data[get_pos(raw) + 1]

-----------------------------------------------------------------------------
Init ==
    /\ phase = "insert"
    /\ rows = <<>>
    /\ inserter = NoRows
    /\ column = [is_no_null |-> FALSE, pages |-> <<>>]
    /\ next = 0
    /\ out = NoRows

Insert(v) ==
    /\ phase = "insert" /\ Len(rows) < MaxRows
    /\ rows' = Append(rows, v)
    /\ inserter' = IF v = Null THEN insert_null(inserter) ELSE insert(inserter, v)
    /\ UNCHANGED <<phase, column, next, out>>

Finalize ==
    /\ phase = "insert"
    /\ inserter' = finalize(inserter)
    /\ phase' = "scan"
    /\ UNCHANGED <<rows, column, next, out>>

ScanReferences ==
    /\ phase = "scan" /\ no_nulls(inserter.pages) /\ ~TooLarge(inserter.pages)
    /\ column' = [is_no_null |-> TRUE, pages |-> SideBySide(ReferencesTo(inserter.pages))]
    /\ phase' = "materialise"
    /\ UNCHANGED <<rows, inserter, next, out>>

(* The exception leaves a thread of the pool: std::terminate. *)
ScanThrows ==
    /\ phase = "scan" /\ no_nulls(inserter.pages) /\ TooLarge(inserter.pages)
    /\ phase' = "terminated"
    /\ UNCHANGED <<rows, inserter, column, next, out>>

ScanCopies ==
    /\ phase = "scan" /\ ~no_nulls(inserter.pages)
    /\ column' = [is_no_null |-> FALSE, pages |-> SideBySide(CopiesOf(inserter.pages))]
    /\ phase' = "materialise"
    /\ UNCHANGED <<rows, inserter, next, out>>

(* to_columnar_from_column, one box at a time. *)
Materialise ==
    /\ phase = "materialise"
    /\ LET raws == FlattenSeq(column.pages)
       IN  /\ next < Len(raws)
           /\ LET raw == raws[next + 1]
              IN  out' = CASE mode(raw) = NULL_MODE -> insert_null(out)
                           [] mode(raw) = INT32_MODE -> insert(out, get_int32(raw))
                           [] mode(raw) = INT32_NO_NULL_MODE ->
                                  insert(out, ValueFromPage(raw))
                           [] OTHER -> out
    /\ next' = next + 1
    /\ UNCHANGED <<phase, rows, inserter, column>>

FinalizeResult ==
    /\ phase = "materialise" /\ next = Len(FlattenSeq(column.pages))
    /\ out' = finalize(out)
    /\ phase' = "done"
    /\ UNCHANGED <<rows, inserter, column, next>>

Done == phase \in {"done", "terminated"} /\ UNCHANGED vars

Next ==
    \/ \E v \in Ints \cup {Null} : Insert(v)
    \/ Finalize \/ ScanReferences \/ ScanThrows \/ ScanCopies
    \/ Materialise \/ FinalizeResult
    \/ Done

Spec == Init /\ [][Next]_vars

-----------------------------------------------------------------------------
(* What the column has to keep.                                            *)

(* On a page the values, growing from its start, never reach the bitmap,   *)
(* growing from its end: save_page's copy of the bitmap overwrites no      *)
(* value.  All pages are written through the two inserters.                *)
NoOverlapIn(ins) ==
    /\ data_end(ins) + bytes(ins.num_rows) <= PageSize
    /\ \A p \in DOMAIN ins.pages :
         4 + Width * Len(ins.pages[p].data) + bytes(ins.pages[p].num_rows) <= PageSize

NoOverlap == NoOverlapIn(inserter) /\ NoOverlapIn(out)

(* The rows read back from the pages, complete or not, are the rows that   *)
(* were inserted, in order, wherever pages were cut.                       *)
PagesHoldRows == copy_scan(finalize(inserter).pages) = rows

HasNull == Null \in Range(rows)

(* Through the scan and the conversion every row survives, with one        *)
(* exception: a negative integer in a column that also has NULLs.          *)
RowsSurvive ==
    phase = "done" =>
        /\ Len(copy_scan(out.pages)) = Len(rows)
        /\ \A r \in DOMAIN rows :
             rows[r] = Null \/ rows[r] >= 0 \/ ~HasNull
                 => copy_scan(out.pages)[r] = rows[r]

(* README: for plain INT32 the integer value is stored directly.  So an    *)
(* integer that is put into a value_t is an integer when it is read.       *)
PlainIntegersSurvive ==
    phase = "done" =>
        \A r \in DOMAIN rows : rows[r] # Null => copy_scan(out.pages)[r] = rows[r]
=============================================================================
