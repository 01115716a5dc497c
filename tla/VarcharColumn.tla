--------------------------- MODULE VarcharColumn ---------------------------
(***************************************************************************)
(* The way of a VARCHAR column through the engine.  ColumnInserter writes  *)
(* short strings side by side and a long string to pages of its own        *)
(* (plan.h), column_t_copy_scan makes references to where they start       *)
(* (column_store.cpp), and to_columnar_from_column finds the strings from  *)
(* the references and writes them to the pages of the result, from which   *)
(* Table::copy_scan reads them.                                            *)
(***************************************************************************)
EXTENDS Integers, SequencesExt, FiniteSetsExt

CONSTANTS PageSize,    \* PAGE_SIZE (8192)
          Lengths,     \* the lengths of the strings that rows may hold
          Null,        \* the row without a value
          Bounded(_),  \* bound: whether these rows are few and short enough
          MaxStray     \* bound on the pages read past the end of a column

ASSUME VarcharAssumption ==
    /\ PageSize \in Nat /\ 9 <= PageSize
    /\ Lengths \subseteq Nat
    /\ Null \notin Lengths \cup Seq(Nat \X Nat) \cup [page : Nat, pos : Nat]
    /\ MaxStray \in Nat

VARIABLES phase,      \* "insert", "scan", "materialise", "done", "crashed"
          rows,       \* what was inserted: Null, or the length of the string
          inserter,   \* the ColumnInserter, its column's pages included
          page_idx,   \* the pages scanned so far
          refs,       \* the column_t: a reference, or Null, for each row
          next,       \* the references materialised so far
          out         \* the inserter of the result column

vars == <<phase, rows, inserter, page_idx, refs, next, out>>

-----------------------------------------------------------------------------
(* ColumnInserter<std::string>.  Character k of row r is <<r, k>>, so that *)
(* every character tells where it belongs.  The first word of a page is    *)
(* its number of rows, or a marker: "first" for 0xffff, "more" for 0xfffe. *)
(* Operators named operator_Fault are faulty variants that show that the   *)
(* properties notice a plausible mistake.                                  *)

String(r, length) == [k \in 1 .. length |-> <<r, k>>]

NoRows == [pages |-> <<>>, num_rows |-> 0, offsets |-> <<>>, data |-> <<>>,
           bitmap |-> {}]

bytes(bits) == (bits + 7) \div 8

(* offset_end + data_size. *)
used(ins) == 4 + 2 * Len(ins.offsets) + Len(ins.data)

(* The inserter keeps its bitmap: every row sets or clears its own bit. *)
save_page(ins) ==
    [ins EXCEPT !.pages = Append(@, [kind    |-> "short", num_rows |-> ins.num_rows,
                                     offsets |-> ins.offsets, data |-> ins.data,
                                     bitmap  |-> {b \in ins.bitmap :
                                                    b < 8 * bytes(ins.num_rows)}]),
                !.num_rows = 0, !.offsets = <<>>, !.data = <<>>]

finalize(ins) == IF ins.num_rows # 0 THEN save_page(ins) ELSE ins

(* A long string fills pages of its own. *)
save_long_string(ins, value) ==
    LET size == PageSize - 4
        part(c) == SubSeq(value, (c - 1) * size + 1,
                          IF c * size < Len(value) THEN c * size ELSE Len(value))
    IN  [ins EXCEPT !.pages = @ \o
            [c \in 1 .. (Len(value) + size - 1) \div size |->
                [kind |-> IF c = 1 THEN "first" ELSE "more", data |-> part(c)]]]

is_long(value) == Len(value) > PageSize - 7

insert_short(ins, value) ==
    LET i == IF used(ins) + 2 + Len(value) + ins.num_rows \div 8 + 1 > PageSize
             THEN save_page(ins) ELSE ins
    IN  [i EXCEPT !.data = @ \o value,
                  !.offsets = Append(@, Len(i.data) + Len(value)),
                  !.bitmap = @ \cup {i.num_rows},
                  !.num_rows = @ + 1]

insert_Unflushed(ins, value) ==
    IF is_long(value) THEN save_long_string(ins, value) ELSE insert_short(ins, value)

(* The page begun is saved before a long string: rows stay in order. *)
insert(ins, value) ==
    IF is_long(value) THEN save_long_string(finalize(ins), value)
                      ELSE insert_short(ins, value)

insert_null_NoRoomTest(ins) ==
    [ins EXCEPT !.bitmap = @ \ {ins.num_rows}, !.num_rows = @ + 1]

insert_null(ins) ==
    LET i == IF used(ins) + ins.num_rows \div 8 + 1 > PageSize
             THEN save_page(ins) ELSE ins
    IN  [i EXCEPT !.bitmap = @ \ {i.num_rows}, !.num_rows = @ + 1]

(* The number of rows with a value before row i of a page. *)
data_idx(page, i) == Cardinality({k \in page.bitmap : k < i})

(* Where string d, from 0, of a page starts: the end of the one before. *)
prev_offset(page, d) == IF d = 0 THEN 0 ELSE page.offsets[d]

(* Row i, from 0, of a page of short strings. *)
cell(page, i) ==
    LET d == data_idx(page, i)
    IN  IF i \in page.bitmap
        THEN SubSeq(page.data, prev_offset(page, d) + 1, page.offsets[d + 1])
        ELSE Null

page_rows(page) == [i \in 1 .. page.num_rows |-> cell(page, i - 1)]

(* The rows after one page more. *)
read_page(read, page) ==
    CASE page.kind = "short" -> read \o page_rows(page)
      [] page.kind = "first" -> Append(read, page.data)
      [] page.kind = "more"  -> [read EXCEPT ![Len(read)] = @ \o page.data]

(* Table::copy_scan. *)
copy_scan(pages) ==
    LET read[n \in 0 .. Len(pages)] ==
            IF n = 0 THEN <<>> ELSE read_page(read[n - 1], pages[n])
    IN  read[Len(pages)]

-----------------------------------------------------------------------------
(* column_t_copy_scan. *)

(* The pages that the walk over a long string looks at, from 0: the one    *)
(* after its first page, then the third page of the column, the fourth...  *)
looked_at(p, n) == IF n = 0 THEN p + 1 ELSE n + 1

IsMore(pages, p) == p < Len(pages) /\ pages[p + 1].kind = "more"

(* Where the walk ends, or leaves the column. *)
walk(pages, p) ==
    Min({n \in 0 .. Len(pages) : ~IsMore(pages, looked_at(p, n))})

(* References to the rows of a page of short strings. *)
ShortRefs(page, p) ==
    [i \in 1 .. page.num_rows |->
        IF i - 1 \in page.bitmap
        THEN [page |-> p, pos |-> prev_offset(page, data_idx(page, i - 1))]
        ELSE Null]

-----------------------------------------------------------------------------
(* to_columnar_from_column and print_varchar. *)

(* The pages after p that continue a string. *)
continued(pages, p) ==
    LET end == Min({q \in p + 1 .. Len(pages) : ~IsMore(pages, q)})
    IN  FlattenSeq([k \in 1 .. end - p - 1 |-> pages[p + 1 + k].data])

(* The bytes of the offsets, as characters of no row. *)
OffsetBytes(page) ==
    FlattenSeq([i \in DOMAIN page.offsets |->
                   << <<0, page.offsets[i] % 256>>, <<0, page.offsets[i] \div 256>> >>])

(* print_varchar takes its page for one of a long string: the word after   *)
(* the rows for the number of characters, what follows for the characters. *)
print_varchar(pages, ref) ==
    LET page == pages[ref.page + 1]
    IN  (IF page.kind = "short"
         THEN SubSeq(OffsetBytes(page), 1, Len(page.offsets))
         ELSE page.data) \o continued(pages, ref.page)

short_string_NotStrict(page, pos) ==
    LET longer == {o \in Range(page.offsets) : o >= pos}
    IN  SubSeq(page.data, pos + 1, IF longer = {} THEN pos ELSE Min(longer))

(* The end of the string is the first offset beyond its start, found by a  *)
(* binary search. *)
short_string(page, pos) ==
    LET longer == {o \in Range(page.offsets) : o > pos}
    IN  SubSeq(page.data, pos + 1, IF longer = {} THEN pos ELSE Min(longer))

StringOf(pages, ref) ==
    LET page == pages[ref.page + 1]
    IN  IF page.kind = "first" THEN print_varchar(pages, ref)
                               ELSE short_string(page, ref.pos)

-----------------------------------------------------------------------------
Init ==
    /\ phase = "insert"
    /\ rows = <<>> /\ inserter = NoRows
    /\ page_idx = 0 /\ refs = <<>>
    /\ next = 0 /\ out = NoRows

Insert(v) ==
    /\ phase = "insert" /\ Bounded(Append(rows, v))
    /\ rows' = Append(rows, v)
    /\ inserter' = IF v = Null THEN insert_null(inserter)
                               ELSE insert(inserter, String(Len(rows'), v))
    /\ UNCHANGED <<phase, page_idx, refs, next, out>>

Finalize ==
    /\ phase = "insert"
    /\ inserter' = finalize(inserter)
    /\ phase' = "scan"
    /\ UNCHANGED <<rows, page_idx, refs, next, out>>

ScanPage(kind) ==
    /\ phase = "scan" /\ page_idx < Len(inserter.pages)
    /\ inserter.pages[page_idx + 1].kind = kind
    /\ page_idx' = page_idx + 1
    /\ UNCHANGED <<phase, rows, inserter, next, out>>

ScanShort ==
    /\ ScanPage("short")
    /\ refs' = refs \o ShortRefs(inserter.pages[page_idx + 1], page_idx)

LeavesColumn(n) == looked_at(page_idx, n) >= Len(inserter.pages)

(* A walk that leaves the column reads past the end of a vector: what it   *)
(* finds there ends it sooner or later, if it does not crash.              *)
ScanLong ==
    LET n == walk(inserter.pages, page_idx)
    IN  /\ ScanPage("first")
        /\ \E pos \in n .. IF LeavesColumn(n) THEN n + MaxStray ELSE n :
             refs' = Append(refs, [page |-> page_idx, pos |-> pos])

ScanLongCrash ==
    /\ phase = "scan" /\ page_idx < Len(inserter.pages)
    /\ inserter.pages[page_idx + 1].kind = "first"
    /\ LeavesColumn(walk(inserter.pages, page_idx))
    /\ phase' = "crashed"
    /\ UNCHANGED <<rows, inserter, page_idx, refs, next, out>>

ScanMore == ScanPage("more") /\ UNCHANGED refs

ScanEnd ==
    /\ phase = "scan" /\ page_idx = Len(inserter.pages)
    /\ phase' = "materialise"
    /\ UNCHANGED <<rows, inserter, page_idx, refs, next, out>>

(* to_columnar_from_column, one reference at a time. *)
Materialise ==
    /\ phase = "materialise" /\ next < Len(refs)
    /\ LET ref == refs[next + 1]
       IN  out' = IF ref = Null THEN insert_null(out)
                                ELSE insert(out, StringOf(inserter.pages, ref))
    /\ next' = next + 1
    /\ UNCHANGED <<phase, rows, inserter, page_idx, refs>>

FinalizeResult ==
    /\ phase = "materialise" /\ next = Len(refs)
    /\ out' = finalize(out)
    /\ phase' = "done"
    /\ UNCHANGED <<rows, inserter, page_idx, refs, next>>

Done == phase \in {"done", "crashed"} /\ UNCHANGED vars

Next ==
    \/ \E v \in Lengths \cup {Null} : Insert(v)
    \/ Finalize
    \/ ScanShort \/ ScanLong \/ ScanLongCrash \/ ScanMore \/ ScanEnd
    \/ Materialise \/ FinalizeResult
    \/ Done

Spec == Init /\ [][Next]_vars

-----------------------------------------------------------------------------
(* What the column has to keep.                                            *)

(* On a page of short strings the offsets and the characters after them    *)
(* never reach the bitmap, and the part of a long string fits its page:    *)
(* save_page and save_long_string write within the page, and no part over  *)
(* another.                                                                *)
NoOverlapIn(ins) ==
    /\ used(ins) + bytes(ins.num_rows) <= PageSize
    /\ \A p \in DOMAIN ins.pages :
         LET page == ins.pages[p]
         IN  IF page.kind = "short"
             THEN used(page) + bytes(page.num_rows) <= PageSize
             ELSE 4 + Len(page.data) <= PageSize

NoOverlap == NoOverlapIn(inserter) /\ NoOverlapIn(out)

(* A row as it is read. *)
Expected(r) == IF rows[r] = Null THEN Null ELSE String(r, rows[r])

(* The rows read back from the pages, complete or not, are the rows that   *)
(* were inserted, in order, wherever pages were cut and however short and  *)
(* long strings and NULLs follow each other.                               *)
PagesHoldRows == copy_scan(finalize(inserter).pages) = [r \in DOMAIN rows |-> Expected(r)]

(* References lead to the strings they were made for, and the result has a *)
(* row for every row: NULLs and strings of at least one character survive. *)
RowsSurvive ==
    phase = "done" =>
        LET result == copy_scan(out.pages)
        IN  /\ Len(result) = Len(rows)
            /\ \A r \in DOMAIN rows : rows[r] # 0 => result[r] = Expected(r)

(* column_store.cpp: the position of a reference to a long string is the   *)
(* number of pages after its first on which it ends.                       *)
LongStringEnd ==
    \A r \in DOMAIN refs :
        refs[r] # Null /\ inserter.pages[refs[r].page + 1].kind = "first" =>
            refs[r].pos = (rows[r] - 1) \div (PageSize - 4)
=============================================================================
