------------------------- MODULE Int32ColumnProofs -------------------------
(***************************************************************************)
(* Of Int32Column: on the pages of both inserters the values and the       *)
(* bitmap never overlap, whatever the rows, the page size and the width of *)
(* a value, and so the row counter of an 8192-byte page stays below the    *)
(* markers of long strings; the pages give back the rows inserted; and the *)
(* rows survive value_t, whatever the widths of its fields.                *)
(***************************************************************************)
EXTENDS Int32Column, Lemmas

(* What an inserter of values of S is. *)
PageOf(S) == [num_rows : Nat, num_non_null : Nat, data : Seq(S), bitmap : SUBSET Nat]
InserterOf(S) ==
    [pages : Seq(PageOf(S)), num_rows : Nat, data : Seq(S), bitmap : SUBSET Nat]

(* The inductive invariant: an inserter of some values, without overlap.   *)
(* What the values are does not matter, and with a set for them left open  *)
(* nothing needs to be known of what a value_t decodes to.                 *)
Sound(ins) == NoOverlapIn(ins) /\ \E S : ins \in InserterOf(S)
ColumnInv == Sound(inserter) /\ Sound(out)

LEMMA MoreValues ==
    ASSUME NEW S, NEW T, S \subseteq T, NEW ins \in InserterOf(S)
    PROVE  ins \in InserterOf(T)
<1>1. Seq(S) \subseteq Seq(T)
  OBVIOUS
<1>2. PageOf(S) \subseteq PageOf(T)
  BY <1>1 DEF PageOf
<1>3. Seq(PageOf(S)) \subseteq Seq(PageOf(T))
  BY <1>2
<1>4. QED
  BY <1>1, <1>3 DEF InserterOf

(* Cutting a page keeps the inserter sound and leaves an empty page. *)
LEMMA SavePage ==
    ASSUME NEW S, NEW ins \in InserterOf(S), NoOverlapIn(ins)
    PROVE  /\ save_page(ins) \in InserterOf(S)
           /\ NoOverlapIn(save_page(ins))
           /\ save_page(ins).num_rows = 0 /\ save_page(ins).data = <<>>
<1> DEFINE page == [num_rows     |-> ins.num_rows,
                    num_non_null |-> Len(ins.data),
                    data         |-> ins.data,
                    bitmap       |-> {b \in ins.bitmap : b < 8 * bytes(ins.num_rows)}]
           saved == save_page(ins)
<1>1. page \in PageOf(S)
  BY DEF PageOf, InserterOf
<1>2. saved = [pages |-> Append(ins.pages, page), num_rows |-> 0,
               data |-> <<>>, bitmap |-> ins.bitmap]
  <2>1. saved = [ins EXCEPT !.pages = Append(ins.pages, page), !.num_rows = 0,
                            !.data = <<>>]
    BY DEF save_page
  <2> HIDE DEF page, saved
  <2>2. QED
    BY <2>1 DEF InserterOf
<1>3. Append(ins.pages, page) \in Seq(PageOf(S))
  BY <1>1 DEF InserterOf
<1>4. saved \in InserterOf(S)
  BY <1>2, <1>3 DEF InserterOf
<1>5. data_end(saved) + bytes(saved.num_rows) <= PageSize
  <2>1. Len(saved.data) = 0 /\ saved.num_rows = 0
    BY <1>2
  <2>2. data_end(saved) = 4
    BY <2>1, Int32Assumption DEF data_end
  <2>3. QED
    BY <2>1, <2>2, Int32Assumption DEF bytes
<1>6. ASSUME NEW p \in DOMAIN saved.pages
      PROVE  4 + Width * Len(saved.pages[p].data) + bytes(saved.pages[p].num_rows)
                 <= PageSize
  <2>1. CASE p \in DOMAIN ins.pages
    <3>1. saved.pages[p] = ins.pages[p]
      BY <2>1, <1>1, <1>2 DEF InserterOf
    <3>2. QED
      BY <2>1, <3>1 DEF NoOverlapIn
  <2>2. CASE p \notin DOMAIN ins.pages
    <3>1. saved.pages[p] = page
      BY <2>2, <1>1, <1>2, <1>6 DEF InserterOf
    <3>2. QED
      BY <3>1 DEF NoOverlapIn, data_end
  <2>3. QED
    BY <2>1, <2>2
<1>7. QED
  BY <1>2, <1>4, <1>5, <1>6 DEF NoOverlapIn

(* insert checks for the room that the new value and its bit take. *)
LEMMA InsertIsSound ==
    ASSUME NEW ins, Sound(ins), NEW value
    PROVE  Sound(insert(ins, value))
<1>1. PICK R : ins \in InserterOf(R)
  BY DEF Sound
<1> DEFINE S == R \cup {value}
<1>2. ins \in InserterOf(S) /\ NoOverlapIn(ins)
  BY <1>1, MoreValues DEF Sound
<1> DEFINE i == IF room(ins, 4) THEN ins ELSE save_page(ins)
<1>3. i \in InserterOf(S) /\ NoOverlapIn(i)
  BY <1>2, SavePage
<1>4. data_end(i) + 4 + i.num_rows \div 8 + 1 <= PageSize
  <2>1. CASE room(ins, 4)
    BY <2>1 DEF room
  <2>2. CASE ~room(ins, 4)
    <3>1. i.num_rows = 0 /\ Len(i.data) = 0
      BY <2>2, <1>2, SavePage
    <3>2. data_end(i) = 4
      BY <3>1, Int32Assumption DEF data_end
    <3>3. QED
      BY <3>1, <3>2, Int32Assumption
  <2>3. QED
    BY <2>1, <2>2
<1> DEFINE r == insert(ins, value)
<1>5. r = [pages |-> i.pages, num_rows |-> i.num_rows + 1,
           data |-> Append(i.data, value), bitmap |-> i.bitmap \cup {i.num_rows}]
  <2>1. r = [i EXCEPT !.data = Append(i.data, value),
                      !.bitmap = i.bitmap \cup {i.num_rows},
                      !.num_rows = i.num_rows + 1]
    BY DEF insert
  <2> HIDE DEF i, r
  <2>2. QED
    BY <1>3, <2>1 DEF InserterOf
<1>6. r \in InserterOf(S)
  BY <1>3, <1>5 DEF InserterOf
<1>7. data_end(r) + bytes(r.num_rows) <= PageSize
  <2>1. i.data \in Seq(S) /\ i.num_rows \in Nat /\ Width \in Nat
    BY <1>3, Int32Assumption DEF InserterOf
  <2>2. Len(r.data) = Len(i.data) + 1
    BY <1>5, <2>1
  <2>3. Width * (Len(i.data) + 1) = Width * Len(i.data) + Width
    BY <2>1
  <2>4. data_end(r) = data_end(i) + Width
    <3>1. Width * Len(i.data) \in Nat
      BY <2>1
    <3>2. data_end(r) = 4 + (Width * Len(i.data) + Width)
      BY <2>2, <2>3 DEF data_end
    <3>3. QED
      BY <2>1, <3>1, <3>2 DEF data_end
  <2>5. bytes(r.num_rows) = i.num_rows \div 8 + 1
    BY <1>5, <2>1 DEF bytes
  <2>6. data_end(i) \in Nat
    <3>1. Width * Len(i.data) \in Nat
      BY <2>1
    <3>2. QED
      BY <3>1 DEF data_end
  <2>7. i.num_rows \div 8 \in Nat /\ PageSize \in Nat /\ Width <= 4
    BY <2>1, Int32Assumption
  <2>8. QED
    BY <1>4, <2>1, <2>4, <2>5, <2>6, <2>7
<1>8. r.pages = i.pages
  BY <1>5
<1>9. QED
  BY <1>3, <1>6, <1>7, <1>8 DEF Sound, NoOverlapIn

(* insert_null checks for the room that its bit takes. *)
LEMMA InsertNullIsSound ==
    ASSUME NEW ins, Sound(ins)
    PROVE  Sound(insert_null(ins))
<1>1. PICK S : ins \in InserterOf(S)
  BY DEF Sound
<1>2. NoOverlapIn(ins)
  BY DEF Sound
<1> DEFINE i == IF room(ins, 0) THEN ins ELSE save_page(ins)
<1>3. i \in InserterOf(S) /\ NoOverlapIn(i)
  BY <1>1, <1>2, SavePage
<1>4. data_end(i) \in Nat /\ i.num_rows \in Nat /\ i.num_rows \div 8 \in Nat
  <2>1. i.data \in Seq(S) /\ i.num_rows \in Nat /\ Width \in Nat
    BY <1>3, Int32Assumption DEF InserterOf
  <2>2. Width * Len(i.data) \in Nat
    BY <2>1
  <2>3. QED
    BY <2>1, <2>2 DEF data_end
<1>5. data_end(i) + i.num_rows \div 8 + 1 <= PageSize
  <2>1. CASE room(ins, 0)
    BY <1>4, <2>1 DEF room
  <2>2. CASE ~room(ins, 0)
    <3>1. i.num_rows = 0 /\ Len(i.data) = 0
      BY <2>2, <1>1, <1>2, SavePage
    <3>2. data_end(i) = 4
      BY <3>1, Int32Assumption DEF data_end
    <3>3. QED
      BY <3>1, <3>2, Int32Assumption
  <2>3. QED
    BY <2>1, <2>2
<1> DEFINE r == insert_null(ins)
<1>6. r = [pages |-> i.pages, num_rows |-> i.num_rows + 1,
           data |-> i.data, bitmap |-> i.bitmap \ {i.num_rows}]
  <2>1. r = [i EXCEPT !.bitmap = i.bitmap \ {i.num_rows},
                      !.num_rows = i.num_rows + 1]
    BY DEF insert_null
  <2> HIDE DEF i, r
  <2>2. QED
    BY <1>3, <2>1 DEF InserterOf
<1>7. r \in InserterOf(S)
  BY <1>3, <1>6 DEF InserterOf
<1>8. data_end(r) + bytes(r.num_rows) <= PageSize
  <2>1. data_end(r) = data_end(i)
    BY <1>6 DEF data_end
  <2>2. bytes(r.num_rows) = i.num_rows \div 8 + 1
    BY <1>4, <1>6 DEF bytes
  <2>3. QED
    BY <1>4, <1>5, <2>1, <2>2, Int32Assumption
<1>9. r.pages = i.pages
  BY <1>6
<1>10. QED
  BY <1>3, <1>7, <1>8, <1>9 DEF Sound, NoOverlapIn

LEMMA FinalizeIsSound ==
    ASSUME NEW ins, Sound(ins)
    PROVE  Sound(finalize(ins))
BY SavePage DEF Sound, finalize

LEMMA EmptyIsSound == Sound(NoRows)
<1>1. NoRows \in InserterOf({})
  BY DEF NoRows, InserterOf
<1>2. data_end(NoRows) = 4
  BY Int32Assumption DEF data_end, NoRows
<1>3. bytes(NoRows.num_rows) = 0
  BY DEF bytes, NoRows
<1>4. DOMAIN NoRows.pages = {}
  BY DEF NoRows
<1>5. NoOverlapIn(NoRows)
  BY <1>2, <1>3, <1>4, Int32Assumption DEF NoOverlapIn
<1>6. QED
  BY <1>1, <1>5 DEF Sound

(* Every page that the engine writes for a column of at most four bytes    *)
(* per value, and the page being written, keeps values and bitmap apart:   *)
(* the scan writes no page, and each row read from it becomes one insert   *)
(* or insert_null of the result.                                           *)
LEMMA InvIsInductive == Spec => []ColumnInv
<1>1. Init => ColumnInv
  BY EmptyIsSound DEF Init, ColumnInv
<1>2. ColumnInv /\ [Next]_vars => ColumnInv'
  <2> SUFFICES ASSUME ColumnInv, [Next]_vars PROVE ColumnInv'
    OBVIOUS
  <2>1. Sound(inserter) /\ Sound(out)
    BY DEF ColumnInv
  <2>2. ASSUME NEW v \in Ints \cup {Null}, Insert(v) PROVE ColumnInv'
    BY <2>1, <2>2, InsertIsSound, InsertNullIsSound DEF Insert, ColumnInv
  <2>3. CASE Finalize
    BY <2>1, <2>3, FinalizeIsSound DEF Finalize, ColumnInv
  <2>4. CASE ScanReferences \/ ScanThrows \/ ScanCopies
    BY <2>1, <2>4 DEF ScanReferences, ScanThrows, ScanCopies, ColumnInv
  <2>5. CASE Materialise
    <3>1. UNCHANGED inserter
      BY <2>5 DEF Materialise
    <3>2. PICK x : out' \in {insert_null(out), insert(out, x), out}
      <4> DEFINE raw == FlattenSeq(column.pages)[next + 1]
      <4>1. out' = CASE mode(raw) = NULL_MODE -> insert_null(out)
                     [] mode(raw) = INT32_MODE -> insert(out, get_int32(raw))
                     [] mode(raw) = INT32_NO_NULL_MODE ->
                            insert(out, ValueFromPage(raw))
                     [] OTHER -> out
        BY <2>5 DEF Materialise
      <4>2. \/ out' = insert_null(out) \/ out' = out
            \/ out' = insert(out, get_int32(raw))
            \/ out' = insert(out, ValueFromPage(raw))
        BY <4>1
      <4>3. QED
        BY <4>2
    <3>3. Sound(out')
      BY <2>1, <3>2, InsertIsSound, InsertNullIsSound
    <3>4. QED
      BY <2>1, <3>1, <3>3 DEF ColumnInv
  <2>6. CASE FinalizeResult
    BY <2>1, <2>6, FinalizeIsSound DEF FinalizeResult, ColumnInv
  <2>7. CASE Done \/ UNCHANGED vars
    BY <2>1, <2>7 DEF Done, vars, ColumnInv
  <2>8. QED
    BY <2>2, <2>3, <2>4, <2>5, <2>6, <2>7 DEF Next
<1>3. QED
  BY <1>1, <1>2, PTL DEF Spec

(* save_page's copy of the bitmap to the end of a page overwrites no value *)
(* of that page, and room checks enough before every row.                  *)
THEOREM ValuesAndBitmapApart == Spec => []NoOverlap
<1>1. ColumnInv => NoOverlap
  BY DEF ColumnInv, Sound, NoOverlap
<1>2. QED
  BY <1>1, InvIsInductive, PTL

(* A page of 8192 bytes never counts 0xfffe or 0xffff rows, the counts     *)
(* that mark the pages of a long string, and its 16-bit counter never      *)
(* wraps.                                                                  *)
THEOREM CountersAreNoMarkers ==
    Spec => [](PageSize = 8192 => inserter.num_rows < 65534 /\ out.num_rows < 65534)
<1>1. ASSUME NEW ins, Sound(ins), PageSize = 8192
      PROVE  ins.num_rows < 65534
  <2>1. PICK S : ins \in InserterOf(S)
    BY <1>1 DEF Sound
  <2>2. ins.data \in Seq(S) /\ ins.num_rows \in Nat /\ Width \in Nat
    BY <2>1, Int32Assumption DEF InserterOf
  <2>3. Width * Len(ins.data) \in Nat
    BY <2>2
  <2>4. 4 + Width * Len(ins.data) + (ins.num_rows + 7) \div 8 <= 8192
    BY <1>1 DEF Sound, NoOverlapIn, data_end, bytes
  <2>5. \A w \in Nat, q \in Int : 4 + w + q <= 8192 => q <= 8188
    OBVIOUS
  <2>6. (ins.num_rows + 7) \div 8 \in Int
    BY <2>2
  <2>7. (ins.num_rows + 7) \div 8 <= 8188
    BY <2>3, <2>4, <2>5, <2>6
  <2>8. \A n \in Nat : (n + 7) \div 8 <= 8188 => n < 65534
    OBVIOUS
  <2>9. QED
    BY <2>2, <2>7, <2>8
<1>2. ColumnInv => (PageSize = 8192 => inserter.num_rows < 65534
                                       /\ out.num_rows < 65534)
  BY <1>1 DEF ColumnInv
<1>3. QED
  BY <1>2, InvIsInductive, PTL

-----------------------------------------------------------------------------
(* What the readers find on the pages.                                     *)

(* The rows of a page whose data and bitmap are those of a record: one     *)
(* value for every set bit of its rows.  Bits behind them may be set.      *)
IsPage(page, S) ==
    /\ page.num_rows \in Nat /\ page.data \in Seq(S) /\ page.bitmap \in SUBSET Nat
    /\ Len(page.data) = Cardinality({b \in page.bitmap : b < page.num_rows})

(* The value of a row lies in the data. *)
LEMMA CellInData ==
    ASSUME NEW S, NEW page, IsPage(page, S), NEW i \in Nat, i < page.num_rows,
           i \in page.bitmap
    PROVE  Cardinality({k \in page.bitmap : k < i}) + 1 \in 1 .. Len(page.data)
<1> DEFINE A == {k \in page.bitmap : k < i}
           B == {b \in page.bitmap : b < page.num_rows}
<1>1. page.num_rows \in Nat /\ page.bitmap \in SUBSET Nat /\ Len(page.data) = Cardinality(B)
  BY DEF IsPage
<1>2. IsFiniteSet(B) /\ Cardinality(B) \in Nat
  BY <1>1, BitsBefore
<1>3. A \in SUBSET B /\ i \in B /\ i \notin A
  BY <1>1
<1> HIDE DEF A, B
<1>4. Cardinality(A) \in Nat /\ Cardinality(A) + 1 <= Cardinality(B)
  BY <1>2, <1>3, OneMore
<1>5. Cardinality(A) + 1 \in 1 .. Len(page.data)
  BY <1>1, <1>2, <1>4
<1> QED
  BY <1>5 DEF A

LEMMA PageRowsType ==
    ASSUME NEW S, NEW page, IsPage(page, S)
    PROVE  /\ page_rows(page) \in Seq(S \cup {Null}) /\ Len(page_rows(page)) = page.num_rows
           /\ \A i \in 1 .. page.num_rows : page_rows(page)[i] = cell(page, i - 1)
<1>1. page.num_rows \in Nat /\ page.data \in Seq(S)
  BY DEF IsPage
<1>2. ASSUME NEW i \in 1 .. page.num_rows
      PROVE  cell(page, i - 1) \in S \cup {Null}
  <2>1. PICK j \in Nat : j = i - 1 /\ j < page.num_rows
    BY <1>1
  <2>2. CASE j \in page.bitmap
    <3>1. Cardinality({k \in page.bitmap : k < j}) + 1 \in 1 .. Len(page.data)
      BY <2>1, <2>2, CellInData
    <3>2. \A x \in 1 .. Len(page.data) : page.data[x] \in S
      BY <1>1
    <3>3. cell(page, j) = page.data[Cardinality({k \in page.bitmap : k < j}) + 1]
      BY <2>2 DEF cell
    <3> QED
      BY <2>1, <3>1, <3>2, <3>3
  <2>3. CASE j \notin page.bitmap
    BY <2>1, <2>3 DEF cell
  <2> QED
    BY <2>2, <2>3
<1>3. PICK n \in Nat : n = page.num_rows
  BY <1>1
<1>4. PICK f : f = page_rows(page)
  OBVIOUS
<1>5. f = [i \in 1 .. n |-> cell(page, i - 1)]
  BY <1>3, <1>4 DEF page_rows
<1>6. \A i \in 1 .. n : f[i] = cell(page, i - 1)
  BY <1>5
<1>7. \A i \in 1 .. n : f[i] \in S \cup {Null}
  BY <1>2, <1>3, <1>6
<1>8. f \in Seq(S \cup {Null}) /\ Len(f) = n
  <2>1. f = [i \in 1 .. n |-> f[i]]
    BY <1>5
  <2> QED
    BY <1>7, <2>1
<1> QED
  BY <1>3, <1>4, <1>6, <1>8

(* A row with a value is read as this value, and those before it as before. *)
LEMMA PushValue ==
    ASSUME NEW S, NEW page, IsPage(page, S), NEW v \in S, NEW new,
           new.data = Append(page.data, v),
           new.bitmap = page.bitmap \cup {page.num_rows},
           new.num_rows = page.num_rows + 1
    PROVE  IsPage(new, S) /\ page_rows(new) = Append(page_rows(page), v)
<1>1. PICK n \in Nat : n = page.num_rows
  BY DEF IsPage
<1>2. /\ page.data \in Seq(S) /\ page.bitmap \in SUBSET Nat
      /\ Len(page.data) = Cardinality({b \in page.bitmap : b < n})
  BY <1>1 DEF IsPage
<1>3. /\ new.num_rows = n + 1 /\ new.bitmap = page.bitmap \cup {n}
      /\ new.data \in Seq(S) /\ Len(new.data) = Len(page.data) + 1
      /\ \A x \in 1 .. Len(page.data) : new.data[x] = page.data[x]
      /\ new.data[Len(page.data) + 1] = v
  <2>1. PICK d : d = page.data
    OBVIOUS
  <2>2. PICK e : e = new.data
    OBVIOUS
  <2>3. d \in Seq(S) /\ e = Append(d, v)
    BY <1>2, <2>1, <2>2
  <2>4. /\ e \in Seq(S) /\ Len(e) = Len(d) + 1
        /\ \A x \in 1 .. Len(d) : e[x] = d[x]
        /\ e[Len(d) + 1] = v
    BY <2>3
  <2>5. new.num_rows = n + 1 /\ new.bitmap = page.bitmap \cup {n}
    BY <1>1
  <2> QED
    BY <2>1, <2>2, <2>4, <2>5
<1>4. ASSUME NEW i \in 0 .. n
      PROVE  {k \in new.bitmap : k < i} = {k \in page.bitmap : k < i}
  BY <1>3
<1>5. Cardinality({b \in new.bitmap : b < n + 1}) = Len(page.data) + 1
  <2>1. PICK A : A = {b \in page.bitmap : b < n}
    OBVIOUS
  <2>2. PICK B : B = {b \in new.bitmap : b < n + 1}
    OBVIOUS
  <2>3. \A b \in page.bitmap : b \in Nat
    BY <1>2
  <2>4. new.bitmap = page.bitmap \cup {n}
    BY <1>3
  <2>5. B = A \cup {n}
    <3>1. \A b \in page.bitmap : b < n + 1 => b < n \/ b = n
      BY <2>3
    <3>2. \A b \in page.bitmap : b < n => b < n + 1
      BY <2>3
    <3>3. n < n + 1
      OBVIOUS
    <3> QED
      BY <2>1, <2>2, <2>4, <3>1, <3>2, <3>3
  <2>6. IsFiniteSet(A)
    BY <1>2, <2>1, BitsBefore
  <2>7. n \notin A
    BY <2>1
  <2>8. Cardinality(B) = Cardinality(A) + 1
    BY <2>5, <2>6, <2>7, FS_AddElement
  <2> QED
    BY <1>2, <2>1, <2>2, <2>8
<1>6. IsPage(new, S)
  <2>1. new.num_rows \in Nat /\ new.bitmap \in SUBSET Nat
    BY <1>2, <1>3
  <2>2. Len(new.data) = Cardinality({b \in new.bitmap : b < new.num_rows})
    BY <1>3, <1>5
  <2> QED
    BY <1>3, <2>1, <2>2 DEF IsPage
<1>7. ASSUME NEW i \in Nat, i < n
      PROVE  cell(new, i) = cell(page, i)
  <2>1. CASE i \in page.bitmap
    <3>1. PICK c : c = Cardinality({k \in page.bitmap : k < i}) + 1
      OBVIOUS
    <3>2. c \in 1 .. Len(page.data)
      BY <1>1, <1>7, <2>1, <3>1, CellInData
    <3>3. cell(page, i) = page.data[c]
      BY <2>1, <3>1 DEF cell
    <3>4. {k \in new.bitmap : k < i} = {k \in page.bitmap : k < i}
      BY <1>4, <1>7
    <3>5. i \in new.bitmap
      BY <1>3, <2>1
    <3>6. cell(new, i) = new.data[c]
      BY <3>1, <3>4, <3>5 DEF cell
    <3> QED
      BY <1>3, <3>2, <3>3, <3>6
  <2>2. CASE i \notin page.bitmap
    <3>1. i \notin new.bitmap
      BY <1>3, <1>7, <2>2
    <3> QED
      BY <2>2, <3>1 DEF cell
  <2> QED
    BY <2>1, <2>2
<1>8. cell(new, n) = v
  <2>1. n \in new.bitmap /\ {k \in new.bitmap : k < n} = {k \in page.bitmap : k < n}
    BY <1>3, <1>4
  <2>2. cell(new, n) = new.data[Len(page.data) + 1]
    BY <1>2, <2>1 DEF cell
  <2> QED
    BY <1>3, <2>2
<1>9. PICK a : a = page_rows(page)
  OBVIOUS
<1>10. PICK b : b = page_rows(new)
  OBVIOUS
<1>11. /\ a \in Seq(S \cup {Null}) /\ Len(a) = n
       /\ \A i \in 1 .. n : a[i] = cell(page, i - 1)
  BY <1>1, <1>9, PageRowsType
<1>12. /\ b \in Seq(S \cup {Null}) /\ Len(b) = n + 1
       /\ \A i \in 1 .. n + 1 : b[i] = cell(new, i - 1)
  BY <1>3, <1>6, <1>10, PageRowsType
<1>13. \A i \in 1 .. n : b[i] = a[i]
  <2> SUFFICES ASSUME NEW i \in 1 .. n PROVE b[i] = a[i]
    OBVIOUS
  <2>1. i - 1 \in Nat /\ i - 1 < n /\ i \in 1 .. n + 1
    OBVIOUS
  <2>2. cell(new, i - 1) = cell(page, i - 1)
    BY <1>7, <2>1
  <2> QED
    BY <1>11, <1>12, <2>1, <2>2
<1>14. b[n + 1] = v
  BY <1>8, <1>12
<1>15. b = Append(a, v)
  <2>1. /\ Append(a, v) \in Seq(S \cup {Null}) /\ Len(Append(a, v)) = n + 1
        /\ \A i \in 1 .. n : Append(a, v)[i] = a[i]
        /\ Append(a, v)[n + 1] = v
    BY <1>11
  <2>2. \A i \in 1 .. n + 1 : b[i] = Append(a, v)[i]
    BY <1>13, <1>14, <2>1
  <2> QED
    BY <1>12, <2>1, <2>2, EqualSeqs
<1> QED
  BY <1>6, <1>9, <1>10, <1>15

(* Pages with the same values and the same bits for their rows. *)
LEMMA SameCells ==
    ASSUME NEW S, NEW page, IsPage(page, S), NEW new, new.data = page.data,
           new.bitmap \in SUBSET Nat, new.num_rows = page.num_rows,
           \A b \in Nat : b < page.num_rows => (b \in new.bitmap <=> b \in page.bitmap)
    PROVE  IsPage(new, S) /\ page_rows(new) = page_rows(page)
<1>1. PICK n \in Nat : n = page.num_rows
  BY DEF IsPage
<1>2. page.bitmap \in SUBSET Nat /\ new.num_rows = n
  BY <1>1 DEF IsPage
<1>3. ASSUME NEW i \in 0 .. n
      PROVE  {k \in new.bitmap : k < i} = {k \in page.bitmap : k < i}
  BY <1>1, <1>2
<1>4. IsPage(new, S)
  <2>1. {k \in new.bitmap : k < n} = {k \in page.bitmap : k < n}
    BY <1>3
  <2> QED
    BY <1>1, <1>2, <2>1 DEF IsPage
<1>5. ASSUME NEW i \in 1 .. n
      PROVE  cell(new, i - 1) = cell(page, i - 1)
  <2>1. PICK j \in Nat : j = i - 1 /\ j < n
    OBVIOUS
  <2>2. {k \in new.bitmap : k < j} = {k \in page.bitmap : k < j}
    BY <1>3, <2>1
  <2>3. j \in new.bitmap <=> j \in page.bitmap
    BY <1>1, <2>1
  <2> QED
    BY <2>1, <2>2, <2>3 DEF cell
<1> QED
  BY <1>1, <1>2, <1>4, <1>5 DEF page_rows

(* A row without a value adds no value, whatever its bit was. *)
LEMMA PushNull ==
    ASSUME NEW S, NEW page, IsPage(page, S), NEW new,
           new.data = page.data,
           new.bitmap = page.bitmap \ {page.num_rows},
           new.num_rows = page.num_rows + 1
    PROVE  IsPage(new, S) /\ page_rows(new) = Append(page_rows(page), Null)
<1>1. PICK n \in Nat : n = page.num_rows
  BY DEF IsPage
<1>2. /\ page.data \in Seq(S) /\ page.bitmap \in SUBSET Nat
      /\ Len(page.data) = Cardinality({b \in page.bitmap : b < n})
  BY <1>1 DEF IsPage
<1>3. new.num_rows = n + 1 /\ new.bitmap = page.bitmap \ {n} /\ new.data = page.data
  BY <1>1
<1>4. ASSUME NEW i \in 0 .. n
      PROVE  {k \in new.bitmap : k < i} = {k \in page.bitmap : k < i}
  BY <1>3
<1>5. {b \in new.bitmap : b < n + 1} = {b \in page.bitmap : b < n}
  BY <1>2, <1>3
<1>6. IsPage(new, S)
  <2>1. new.num_rows \in Nat /\ new.bitmap \in SUBSET Nat /\ new.data \in Seq(S)
    BY <1>2, <1>3
  <2>2. Len(new.data) = Cardinality({b \in new.bitmap : b < new.num_rows})
    BY <1>2, <1>3, <1>5
  <2> QED
    BY <2>1, <2>2 DEF IsPage
<1>7. ASSUME NEW i \in Nat, i < n
      PROVE  cell(new, i) = cell(page, i)
  <2>1. {k \in new.bitmap : k < i} = {k \in page.bitmap : k < i}
    BY <1>4, <1>7
  <2>2. i \in new.bitmap <=> i \in page.bitmap
    BY <1>3, <1>7
  <2> QED
    BY <1>3, <2>1, <2>2 DEF cell
<1>8. cell(new, n) = Null
  <2>1. n \notin new.bitmap
    BY <1>3
  <2> QED
    BY <2>1 DEF cell
<1>9. PICK a : a = page_rows(page)
  OBVIOUS
<1>10. PICK b : b = page_rows(new)
  OBVIOUS
<1>11. /\ a \in Seq(S \cup {Null}) /\ Len(a) = n
       /\ \A i \in 1 .. n : a[i] = cell(page, i - 1)
  BY <1>1, <1>9, PageRowsType
<1>12. /\ b \in Seq(S \cup {Null}) /\ Len(b) = n + 1
       /\ \A i \in 1 .. n + 1 : b[i] = cell(new, i - 1)
  BY <1>3, <1>6, <1>10, PageRowsType
<1>13. \A i \in 1 .. n : b[i] = a[i]
  <2> SUFFICES ASSUME NEW i \in 1 .. n PROVE b[i] = a[i]
    OBVIOUS
  <2>1. i - 1 \in Nat /\ i - 1 < n /\ i \in 1 .. n + 1
    OBVIOUS
  <2>2. cell(new, i - 1) = cell(page, i - 1)
    BY <1>7, <2>1
  <2> QED
    BY <1>11, <1>12, <2>1, <2>2
<1>14. b[n + 1] = Null
  BY <1>8, <1>12
<1>15. b = Append(a, Null)
  <2>1. /\ Append(a, Null) \in Seq(S \cup {Null}) /\ Len(Append(a, Null)) = n + 1
        /\ \A i \in 1 .. n : Append(a, Null)[i] = a[i]
        /\ Append(a, Null)[n + 1] = Null
    BY <1>11
  <2>2. \A i \in 1 .. n + 1 : b[i] = Append(a, Null)[i]
    BY <1>13, <1>14, <2>1
  <2> QED
    BY <1>12, <2>1, <2>2, EqualSeqs
<1> QED
  BY <1>6, <1>9, <1>10, <1>15

(* The pages of a column, complete as save_page leaves them. *)
ArePages(pages, S) ==
    /\ pages \in Seq(PageOf(S))
    /\ \A p \in DOMAIN pages :
         IsPage(pages[p], S) /\ pages[p].num_non_null = Len(pages[p].data)

PartsOf(pages) == [p \in DOMAIN pages |-> page_rows(pages[p])]

LEMMA PartsType ==
    ASSUME NEW S, NEW pages, ArePages(pages, S)
    PROVE  /\ PartsOf(pages) \in Seq(Seq(S \cup {Null})) /\ Len(PartsOf(pages)) = Len(pages)
           /\ \A p \in 1 .. Len(pages) : PartsOf(pages)[p] = page_rows(pages[p])
           /\ copy_scan(pages) = FlattenSeq(PartsOf(pages))
           /\ copy_scan(pages) \in Seq(S \cup {Null})
<1>1. pages \in Seq(PageOf(S)) /\ DOMAIN pages = 1 .. Len(pages) /\ Len(pages) \in Nat
  BY DEF ArePages
<1>2. ASSUME NEW p \in 1 .. Len(pages)
      PROVE  page_rows(pages[p]) \in Seq(S \cup {Null})
  <2>1. IsPage(pages[p], S)
    BY <1>1 DEF ArePages
  <2> QED
    BY <2>1, PageRowsType
<1>3. PartsOf(pages) = [p \in 1 .. Len(pages) |-> page_rows(pages[p])]
  BY <1>1 DEF PartsOf
<1>4. PartsOf(pages) \in Seq(Seq(S \cup {Null})) /\ Len(PartsOf(pages)) = Len(pages)
  BY <1>1, <1>2, <1>3
<1>5. copy_scan(pages) = FlattenSeq(PartsOf(pages))
  BY DEF copy_scan, PartsOf
<1> QED
  BY <1>3, <1>4, <1>5, FlattenRange

(* Scanning one page more reads its rows after those of the others. *)
LEMMA ScanOneMore ==
    ASSUME NEW S, NEW pages, ArePages(pages, S),
           NEW page \in PageOf(S), IsPage(page, S), page.num_non_null = Len(page.data)
    PROVE  /\ ArePages(Append(pages, page), S)
           /\ copy_scan(Append(pages, page)) = copy_scan(pages) \o page_rows(page)
<1>1. pages \in Seq(PageOf(S)) /\ DOMAIN pages = 1 .. Len(pages) /\ Len(pages) \in Nat
  BY DEF ArePages
<1>2. PICK more : more = Append(pages, page)
  OBVIOUS
<1>3. /\ more \in Seq(PageOf(S)) /\ Len(more) = Len(pages) + 1
      /\ DOMAIN more = 1 .. Len(pages) + 1
      /\ \A p \in 1 .. Len(pages) : more[p] = pages[p]
      /\ more[Len(pages) + 1] = page
  BY <1>1, <1>2
<1>4. ArePages(more, S)
  <2>1. ASSUME NEW p \in DOMAIN more
        PROVE  IsPage(more[p], S) /\ more[p].num_non_null = Len(more[p].data)
    <3>1. CASE p \in 1 .. Len(pages)
      BY <1>1, <1>3, <3>1 DEF ArePages
    <3>2. CASE p = Len(pages) + 1
      BY <1>3, <3>2
    <3> QED
      BY <1>1, <1>3, <2>1, <3>1, <3>2
  <2> QED
    BY <1>3, <2>1 DEF ArePages
<1>5. PICK T : T = S \cup {Null}
  OBVIOUS
<1>6. PICK a : a = PartsOf(pages)
  OBVIOUS
<1>7. PICK r : r = page_rows(page)
  OBVIOUS
<1>8. a \in Seq(Seq(T)) /\ Len(a) = Len(pages)
      /\ copy_scan(pages) = FlattenSeq(a)
      /\ \A p \in 1 .. Len(pages) : a[p] = page_rows(pages[p])
  BY <1>5, <1>6, PartsType
<1>9. r \in Seq(T)
  BY <1>5, <1>7, PageRowsType
<1>10. PICK c : c = PartsOf(more)
  OBVIOUS
<1>11. c \in Seq(Seq(T)) /\ Len(c) = Len(more)
       /\ copy_scan(more) = FlattenSeq(c)
       /\ \A p \in 1 .. Len(more) : c[p] = page_rows(more[p])
  BY <1>4, <1>5, <1>10, PartsType
<1>12. c = a \o <<r>>
  <2>1. PICK U : U = Seq(T)
    OBVIOUS
  <2>2. a \in Seq(U) /\ r \in U /\ a \o <<r>> = Append(a, r)
    BY <1>8, <1>9, <2>1
  <2>3. PICK d : d = Append(a, r)
    OBVIOUS
  <2>4. /\ d \in Seq(U) /\ Len(d) = Len(a) + 1
        /\ \A p \in 1 .. Len(a) : d[p] = a[p]
        /\ d[Len(a) + 1] = r
    BY <2>2, <2>3
  <2>5. \A p \in 1 .. Len(pages) : c[p] = a[p]
    BY <1>1, <1>3, <1>8, <1>11
  <2>6. c[Len(pages) + 1] = r
    BY <1>1, <1>3, <1>7, <1>11
  <2>7. PICK n \in Nat : n = Len(pages)
    <3>1. Len(pages) \in Nat
      BY <1>1
    <3> QED
      BY <3>1
  <2>8. ASSUME NEW p \in 1 .. n + 1 PROVE c[p] = d[p]
    <3>1. Len(a) = n /\ (p \in 1 .. n \/ p = n + 1)
      BY <1>8, <2>7
    <3>2. CASE p \in 1 .. n
      BY <2>4, <2>5, <2>7, <3>1, <3>2
    <3>3. CASE p = n + 1
      BY <2>4, <2>6, <2>7, <3>1, <3>3
    <3> QED
      BY <3>1, <3>2, <3>3
  <2>9. c \in Seq(U) /\ Len(c) = n + 1 /\ Len(d) = n + 1
    BY <1>3, <1>8, <1>11, <2>1, <2>4, <2>7
  <2> QED
    BY <2>2, <2>3, <2>4, <2>8, <2>9, EqualSeqs
<1>13. FlattenSeq(c) = FlattenSeq(a) \o FlattenSeq(<<r>>)
  <2>1. <<r>> \in Seq(Seq(T))
    BY <1>9
  <2> QED
    BY <1>8, <1>12, <2>1, FlattenConcat
<1>14. FlattenSeq(<<r>>) = r
  BY <1>9, FlattenOne
<1> QED
  BY <1>2, <1>4, <1>7, <1>8, <1>11, <1>13, <1>14

(* An inserter with nothing but complete pages and a page begun, and the   *)
(* rows that are read from these.                                          *)
WholeOf(ins, S) == ins \in InserterOf(S) /\ IsPage(ins, S) /\ ArePages(ins.pages, S)
Whole(ins) == \E S : WholeOf(ins, S)

RowsOf(ins) == copy_scan(ins.pages) \o page_rows(ins)

LEMMA RowsType ==
    ASSUME NEW S, NEW ins, WholeOf(ins, S)
    PROVE  /\ copy_scan(ins.pages) \in Seq(S \cup {Null})
           /\ page_rows(ins) \in Seq(S \cup {Null})
           /\ RowsOf(ins) \in Seq(S \cup {Null})
<1>1. copy_scan(ins.pages) \in Seq(S \cup {Null})
  BY PartsType DEF WholeOf
<1>2. page_rows(ins) \in Seq(S \cup {Null})
  BY PageRowsType DEF WholeOf
<1> QED
  BY <1>1, <1>2 DEF RowsOf

LEMMA MoreRows ==
    ASSUME NEW S, NEW T, S \subseteq T, NEW ins, WholeOf(ins, S)
    PROVE  WholeOf(ins, T)
<1>1. Seq(S) \subseteq Seq(T)
  OBVIOUS
<1>2. \A page : IsPage(page, S) => IsPage(page, T)
  BY <1>1 DEF IsPage
<1>3. PageOf(S) \subseteq PageOf(T)
  BY <1>1 DEF PageOf
<1>4. Seq(PageOf(S)) \subseteq Seq(PageOf(T))
  BY <1>3
<1>5. ins \in InserterOf(T)
  BY MoreValues DEF WholeOf
<1>6. ArePages(ins.pages, S) => ArePages(ins.pages, T)
  BY <1>2, <1>4 DEF ArePages
<1> QED
  BY <1>2, <1>5, <1>6 DEF WholeOf

(* Cutting a page loses and adds no row. *)
LEMMA SaveKeepsRows ==
    ASSUME NEW S, NEW ins, WholeOf(ins, S)
    PROVE  /\ WholeOf(save_page(ins), S) /\ RowsOf(save_page(ins)) = RowsOf(ins)
           /\ copy_scan(save_page(ins).pages) = RowsOf(ins)
<1> DEFINE page == [num_rows     |-> ins.num_rows,
                    num_non_null |-> Len(ins.data),
                    data         |-> ins.data,
                    bitmap       |-> {b \in ins.bitmap : b < 8 * bytes(ins.num_rows)}]
<1>1. /\ ins \in InserterOf(S) /\ IsPage(ins, S) /\ ArePages(ins.pages, S)
      /\ ins.num_rows \in Nat /\ ins.data \in Seq(S) /\ ins.bitmap \in SUBSET Nat
      /\ ins.pages \in Seq(PageOf(S))
  BY DEF WholeOf, IsPage, ArePages
<1>2. page \in PageOf(S)
  BY <1>1 DEF PageOf
<1>3. PICK saved : saved = save_page(ins)
  OBVIOUS
<1>4. saved = [pages |-> Append(ins.pages, page), num_rows |-> 0,
               data |-> <<>>, bitmap |-> ins.bitmap]
  <2>1. saved = [ins EXCEPT !.pages = Append(ins.pages, page), !.num_rows = 0,
                            !.data = <<>>]
    BY <1>3 DEF save_page
  <2> HIDE DEF page
  <2>2. QED
    BY <1>1, <2>1 DEF InserterOf
<1>5. PICK n \in Nat : n = ins.num_rows
  BY <1>1
<1>6. \A b \in Nat : b < n => b < 8 * bytes(n)
  BY <1>5 DEF bytes
<1>7. /\ page.num_rows = n /\ page.data = ins.data /\ page.num_non_null = Len(page.data)
      /\ page.bitmap = {b \in ins.bitmap : b < 8 * bytes(n)}
  BY <1>5
<1> HIDE DEF page
<1>8. IsPage(page, S) /\ page_rows(page) = page_rows(ins)
  <2>1. page.bitmap \in SUBSET Nat
    BY <1>1, <1>7
  <2>2. \A b \in Nat : b < n => (b \in page.bitmap <=> b \in ins.bitmap)
    BY <1>6, <1>7
  <2> QED
    BY <1>1, <1>5, <1>7, <2>1, <2>2, SameCells
<1>9. ArePages(saved.pages, S) /\ copy_scan(saved.pages) = RowsOf(ins)
  <2>1. saved.pages = Append(ins.pages, page)
    BY <1>4
  <2>2. /\ ArePages(Append(ins.pages, page), S)
        /\ copy_scan(Append(ins.pages, page)) = copy_scan(ins.pages) \o page_rows(page)
    BY <1>1, <1>2, <1>7, <1>8, ScanOneMore, ZenonT(60)
  <2> QED
    BY <1>8, <2>1, <2>2 DEF RowsOf
<1>10. saved.num_rows = 0 /\ saved.data = <<>> /\ saved.bitmap = ins.bitmap
  BY <1>4
<1>11. IsPage(saved, S) /\ page_rows(saved) = <<>>
  <2>1. {b \in saved.bitmap : b < 0} = {}
    BY <1>1, <1>10
  <2>2. Cardinality({b \in saved.bitmap : b < saved.num_rows}) = 0
    BY <1>10, <2>1, FS_EmptySet
  <2>3. page_rows(saved) = <<>>
    BY <1>10 DEF page_rows
  <2>4. <<>> \in Seq(S) /\ Len(<<>>) = 0
    OBVIOUS
  <2> QED
    BY <1>1, <1>10, <2>2, <2>3, <2>4 DEF IsPage
<1>12. saved \in InserterOf(S)
  <2>1. Append(ins.pages, page) \in Seq(PageOf(S)) /\ <<>> \in Seq(S)
    BY <1>1, <1>2
  <2> QED
    BY <1>1, <1>4, <2>1 DEF InserterOf
<1>13. RowsOf(saved) = RowsOf(ins)
  <2>1. RowsOf(saved) = RowsOf(ins) \o <<>>
    BY <1>9, <1>11 DEF RowsOf
  <2>2. RowsOf(ins) \in Seq(S \cup {Null})
    BY RowsType
  <2> QED
    BY <2>1, <2>2, ConcatEmptySeq
<1> QED
  BY <1>3, <1>9, <1>11, <1>12, <1>13 DEF WholeOf

(* A row inserted is read after the rows before it. *)
LEMMA InsertAddsRow ==
    ASSUME NEW S, NEW ins, WholeOf(ins, S), NEW v \in S
    PROVE  WholeOf(insert(ins, v), S) /\ RowsOf(insert(ins, v)) = Append(RowsOf(ins), v)
<1>4. PICK i : i = IF room(ins, 4) THEN ins ELSE save_page(ins)
  OBVIOUS
<1>5. WholeOf(i, S) /\ RowsOf(i) = RowsOf(ins)
  BY <1>4, SaveKeepsRows
<1>6. i \in InserterOf(S) /\ IsPage(i, S) /\ ArePages(i.pages, S)
  BY <1>5 DEF WholeOf
<1>7. PICK r : r = insert(ins, v)
  OBVIOUS
<1>8. r = [pages |-> i.pages, num_rows |-> i.num_rows + 1,
           data |-> Append(i.data, v), bitmap |-> i.bitmap \cup {i.num_rows}]
  <2>1. r = [i EXCEPT !.data = Append(i.data, v),
                      !.bitmap = i.bitmap \cup {i.num_rows},
                      !.num_rows = i.num_rows + 1]
    BY <1>4, <1>7 DEF insert
  <2>2. QED
    BY <1>6, <2>1 DEF InserterOf
<1>9. /\ r.pages = i.pages /\ r.num_rows = i.num_rows + 1
      /\ r.data = Append(i.data, v) /\ r.bitmap = i.bitmap \cup {i.num_rows}
  BY <1>8
<1>10. IsPage(r, S) /\ page_rows(r) = Append(page_rows(i), v)
  BY <1>6, <1>9, PushValue
<1>11. r \in InserterOf(S)
  BY <1>6, <1>8 DEF InserterOf
<1>12. WholeOf(r, S)
  BY <1>6, <1>9, <1>10, <1>11 DEF WholeOf
<1>13. RowsOf(r) = Append(RowsOf(i), v)
  <2>1. PICK a : a = copy_scan(i.pages)
    OBVIOUS
  <2>2. PICK b : b = page_rows(i)
    OBVIOUS
  <2>3. a \in Seq(S \cup {Null}) /\ b \in Seq(S \cup {Null})
    BY <1>5, <2>1, <2>2, RowsType
  <2>4. RowsOf(r) = a \o Append(b, v) /\ RowsOf(i) = a \o b
    BY <1>9, <1>10, <2>1, <2>2 DEF RowsOf
  <2>5. a \o Append(b, v) = Append(a \o b, v)
    BY <2>3
  <2> QED
    BY <2>4, <2>5
<1> QED
  BY <1>5, <1>7, <1>12, <1>13

LEMMA InsertNullAddsRow ==
    ASSUME NEW S, NEW ins, WholeOf(ins, S)
    PROVE  /\ WholeOf(insert_null(ins), S)
           /\ RowsOf(insert_null(ins)) = Append(RowsOf(ins), Null)
<1>2. PICK i : i = IF room(ins, 0) THEN ins ELSE save_page(ins)
  OBVIOUS
<1>3. WholeOf(i, S) /\ RowsOf(i) = RowsOf(ins)
  BY <1>2, SaveKeepsRows
<1>4. i \in InserterOf(S) /\ IsPage(i, S) /\ ArePages(i.pages, S)
  BY <1>3 DEF WholeOf
<1>5. PICK r : r = insert_null(ins)
  OBVIOUS
<1>6. r = [pages |-> i.pages, num_rows |-> i.num_rows + 1,
           data |-> i.data, bitmap |-> i.bitmap \ {i.num_rows}]
  <2>1. r = [i EXCEPT !.bitmap = i.bitmap \ {i.num_rows},
                      !.num_rows = i.num_rows + 1]
    BY <1>2, <1>5 DEF insert_null
  <2>2. QED
    BY <1>4, <2>1 DEF InserterOf
<1>7. /\ r.pages = i.pages /\ r.num_rows = i.num_rows + 1
      /\ r.data = i.data /\ r.bitmap = i.bitmap \ {i.num_rows}
  BY <1>6
<1>8. IsPage(r, S) /\ page_rows(r) = Append(page_rows(i), Null)
  BY <1>4, <1>7, PushNull
<1>9. r \in InserterOf(S)
  BY <1>4, <1>6 DEF InserterOf
<1>10. WholeOf(r, S)
  BY <1>4, <1>7, <1>8, <1>9 DEF WholeOf
<1>11. RowsOf(r) = Append(RowsOf(i), Null)
  <2>1. PICK a : a = copy_scan(i.pages)
    OBVIOUS
  <2>2. PICK b : b = page_rows(i)
    OBVIOUS
  <2>3. a \in Seq(S \cup {Null}) /\ b \in Seq(S \cup {Null})
    BY <1>3, <2>1, <2>2, RowsType
  <2>4. RowsOf(r) = a \o Append(b, Null) /\ RowsOf(i) = a \o b
    BY <1>7, <1>8, <2>1, <2>2 DEF RowsOf
  <2>5. a \o Append(b, Null) = Append(a \o b, Null)
    BY <2>3
  <2> QED
    BY <2>4, <2>5
<1> QED
  BY <1>3, <1>5, <1>10, <1>11

(* After finalize every row is on a complete page. *)
LEMMA FinalizeKeepsRows ==
    ASSUME NEW S, NEW ins, WholeOf(ins, S)
    PROVE  /\ WholeOf(finalize(ins), S) /\ RowsOf(finalize(ins)) = RowsOf(ins)
           /\ copy_scan(finalize(ins).pages) = RowsOf(ins)
<1>1. CASE ins.num_rows # 0
  BY <1>1, SaveKeepsRows DEF finalize
<1>2. CASE ins.num_rows = 0
  <2>1. finalize(ins) = ins
    BY <1>2 DEF finalize
  <2>2. page_rows(ins) = <<>>
    BY <1>2 DEF page_rows
  <2>3. copy_scan(ins.pages) \in Seq(S \cup {Null})
    BY RowsType
  <2>4. copy_scan(ins.pages) \o <<>> = copy_scan(ins.pages)
    BY <2>3, ConcatEmptySeq
  <2> QED
    BY <2>1, <2>2, <2>4 DEF RowsOf
<1> QED
  BY <1>1, <1>2

LEMMA NoRowsIsWhole == WholeOf(NoRows, {}) /\ RowsOf(NoRows) = <<>>
<1>1. NoRows \in InserterOf({})
  BY DEF NoRows, InserterOf
<1>2. IsPage(NoRows, {})
  <2>1. {b \in NoRows.bitmap : b < NoRows.num_rows} = {}
    BY DEF NoRows
  <2>2. Cardinality({b \in NoRows.bitmap : b < NoRows.num_rows}) = 0
    BY <2>1, FS_EmptySet
  <2>3. NoRows.data = <<>> /\ NoRows.bitmap = {} /\ NoRows.num_rows = 0
    BY DEF NoRows
  <2> QED
    BY <2>2, <2>3 DEF IsPage
<1>3. ArePages(NoRows.pages, {})
  BY DEF NoRows, ArePages
<1>4. copy_scan(NoRows.pages) = <<>>
  <2>1. PartsOf(<<>>) = <<>>
    BY DEF PartsOf
  <2>2. copy_scan(<<>>) = FlattenSeq(PartsOf(<<>>))
    BY DEF copy_scan, PartsOf
  <2> QED
    BY <2>1, <2>2, FlattenNone DEF NoRows
<1>5. page_rows(NoRows) = <<>>
  BY DEF page_rows, NoRows
<1> QED
  BY <1>1, <1>2, <1>3, <1>4, <1>5 DEF WholeOf, RowsOf

(* What was inserted is what is read.  Once the column is complete, so is  *)
(* its last page.                                                          *)
InsertedInv ==
    /\ WholeOf(inserter, Ints) /\ RowsOf(inserter) = rows
    /\ phase # "insert" => copy_scan(inserter.pages) = rows

LEMMA InsertedInvIsInductive == Spec => []InsertedInv
<1>1. Init => InsertedInv
  <2>1. WholeOf(NoRows, Ints)
    BY NoRowsIsWhole, MoreRows
  <2> QED
    BY <2>1, NoRowsIsWhole DEF Init, InsertedInv
<1>2. InsertedInv /\ [Next]_vars => InsertedInv'
  <2> SUFFICES ASSUME InsertedInv, [Next]_vars PROVE InsertedInv'
    OBVIOUS
  <2>1. WholeOf(inserter, Ints) /\ RowsOf(inserter) = rows
    BY DEF InsertedInv
  <2>2. ASSUME NEW v \in Ints \cup {Null}, Insert(v) PROVE InsertedInv'
    <3>1. phase' = "insert"
      BY <2>2 DEF Insert
    <3>2. CASE v = Null
      <4>1. inserter' = insert_null(inserter) /\ rows' = Append(rows, Null)
        BY <2>2, <3>2 DEF Insert
      <4> QED
        BY <2>1, <3>1, <4>1, InsertNullAddsRow DEF InsertedInv
    <3>3. CASE v # Null
      <4>1. inserter' = insert(inserter, v) /\ rows' = Append(rows, v) /\ v \in Ints
        BY <2>2, <3>3 DEF Insert
      <4> QED
        BY <2>1, <3>1, <4>1, InsertAddsRow DEF InsertedInv
    <3> QED
      BY <3>2, <3>3
  <2>3. CASE Finalize
    BY <2>1, <2>3, FinalizeKeepsRows DEF Finalize, InsertedInv
  <2>4. CASE ScanReferences \/ ScanThrows \/ ScanCopies
    BY <2>1, <2>4 DEF ScanReferences, ScanThrows, ScanCopies, InsertedInv
  <2>5. CASE Materialise \/ FinalizeResult
    BY <2>1, <2>5 DEF Materialise, FinalizeResult, InsertedInv
  <2>6. CASE Done \/ UNCHANGED vars
    BY <2>1, <2>6 DEF Done, vars, InsertedInv
  <2> QED
    BY <2>2, <2>3, <2>4, <2>5, <2>6 DEF Next
<1> QED
  BY <1>1, <1>2, PTL DEF Spec

(* ColumnInserter and the readers agree on the layout of a page: the rows  *)
(* read back are the rows inserted, whatever the rows and wherever pages   *)
(* were cut.                                                               *)
THEOREM PagesReadBack == Spec => []PagesHoldRows
<1>1. InsertedInv => PagesHoldRows
  BY FinalizeKeepsRows DEF InsertedInv, PagesHoldRows
<1> QED
  BY <1>1, InsertedInvIsInductive, PTL

-----------------------------------------------------------------------------
(* Powers of two, and what the bits of a value_t hold.                     *)

LEMMA Pow2 ==
    /\ pow2[0] = 1
    /\ \A n \in Nat : pow2[n + 1] = 2 * pow2[n]
    /\ \A n \in Nat : pow2[n] \in Nat \ {0}
<1> DEFINE IsPow(f, k) == f = [m \in 0 .. k |-> IF m = 0 THEN 1 ELSE 2 * f[m - 1]]
           K == {k \in Nat : \E f : IsPow(f, k)}
<1>1. \A k \in Nat : \E f : IsPow(f, k)
  <2>1. 0 \in K
    <3> DEFINE g == [m \in 0 .. 0 |-> 1]
    <3>1. IsPow(g, 0)
      OBVIOUS
    <3> QED
      BY <3>1
  <2>2. ASSUME NEW k \in Nat, k \in K PROVE k + 1 \in K
    <3>1. PICK f : IsPow(f, k)
      BY <2>2
    <3> DEFINE g == [m \in 0 .. k + 1 |-> IF m <= k THEN f[m] ELSE 2 * f[k]]
    <3>2. ASSUME NEW m \in 0 .. k + 1
          PROVE  g[m] = IF m = 0 THEN 1 ELSE 2 * g[m - 1]
      <4>1. CASE m <= k
        <5>1. g[m] = f[m] /\ m \in 0 .. k
          BY <4>1
        <5>2. f[m] = IF m = 0 THEN 1 ELSE 2 * f[m - 1]
          BY <3>1, <5>1
        <5>3. m # 0 => g[m - 1] = f[m - 1]
          BY <4>1
        <5> QED
          BY <5>1, <5>2, <5>3
      <4>2. CASE m = k + 1
        BY <4>2
      <4> QED
        BY <4>1, <4>2
    <3>3. IsPow(g, k + 1)
      BY <3>2
    <3> HIDE DEF g, IsPow
    <3> QED
      BY <3>3
  <2>3. Nat \subseteq K
    <3> HIDE DEF K
    <3> QED
      BY <2>1, <2>2, NatSet
  <2> QED
    BY <2>3
<1>2. ASSUME NEW f, NEW g, NEW k \in Nat, NEW l \in Nat, k <= l, IsPow(f, k), IsPow(g, l)
      PROVE  f[k] = g[k]
  <2> DEFINE E == {m \in Nat : f[m] = g[m]}
  <2>1. 0 \in E
    BY <1>2
  <2>2. \A m \in 0 .. k - 1 : m \in E => m + 1 \in E
    <3> SUFFICES ASSUME NEW m \in 0 .. k - 1, f[m] = g[m] PROVE f[m + 1] = g[m + 1]
      OBVIOUS
    <3>1. f[m + 1] = 2 * f[m] /\ g[m + 1] = 2 * g[m]
      BY <1>2
    <3> QED
      BY <3>1
  <2>3. \A m \in 0 .. k : m \in E
    <3> HIDE DEF E
    <3> QED
      BY <2>1, <2>2, UpTo
  <2> QED
    BY <2>3
<1> DEFINE P(k) == CHOOSE f : IsPow(f, k)
           F == [n \in Nat |-> P(n)[n]]
<1>3. \A k \in Nat : IsPow(P(k), k)
  <2> HIDE DEF IsPow
  <2> QED
    BY <1>1
<1>4. F[0] = 1
  <2>1. IsPow(P(0), 0)
    BY ONLY <1>3
  <2>2. F[0] = P(0)[0]
    OBVIOUS
  <2> HIDE DEF P, F
  <2>3. P(0)[0] = 1
    BY <2>1
  <2> QED
    BY <2>2, <2>3
<1>5. ASSUME NEW n \in Nat PROVE F[n + 1] = 2 * F[n]
  <2>1. IsPow(P(n), n) /\ IsPow(P(n + 1), n + 1)
    <3>1. n + 1 \in Nat
      OBVIOUS
    <3> HIDE DEF IsPow, P
    <3> QED
      BY <1>3, <3>1
  <2>2. P(n)[n] = P(n + 1)[n]
    <3> HIDE DEF IsPow, P
    <3> QED
      BY <1>2, <2>1
  <2>3. P(n + 1)[n + 1] = 2 * P(n + 1)[n]
    <3> HIDE DEF P
    <3> QED
      BY <2>1
  <2> QED
    BY <2>2, <2>3
<1>6. F = [n \in Nat |-> IF n = 0 THEN 1 ELSE 2 * F[n - 1]]
  <2>1. ASSUME NEW n \in Nat PROVE F[n] = IF n = 0 THEN 1 ELSE 2 * F[n - 1]
    <3>1. CASE n = 0
      BY <1>4, <3>1
    <3>2. CASE n # 0
      <4>1. n - 1 \in Nat /\ (n - 1) + 1 = n
        BY <3>2
      <4> HIDE DEF F
      <4> QED
        BY <1>5, <3>2, <4>1
    <3> QED
      BY <3>1, <3>2
  <2>2. F = [n \in Nat |-> F[n]]
    OBVIOUS
  <2> HIDE DEF F
  <2> QED
    BY <2>1, <2>2
<1>7. pow2 = [n \in Nat |-> IF n = 0 THEN 1 ELSE 2 * pow2[n - 1]]
  <2> HIDE DEF F
  <2> QED
    BY <1>6 DEF pow2
<1>8. pow2[0] = 1 /\ \A n \in Nat : pow2[n + 1] = 2 * pow2[n]
  BY <1>7
<1> DEFINE N == {n \in Nat : pow2[n] \in Nat \ {0}}
<1>9. Nat \subseteq N
  <2>1. 0 \in N
    BY <1>8
  <2>2. \A n \in Nat : n \in N => n + 1 \in N
    BY <1>8
  <2> HIDE DEF N
  <2> QED
    BY <2>1, <2>2, NatSet
<1> QED
  BY <1>8, <1>9

(* 2^(a + b) is 2^a * 2^b. *)
LEMMA Pow2Sum ==
    ASSUME NEW a \in Nat, NEW b \in Nat
    PROVE  pow2[a + b] = pow2[a] * pow2[b]
<1> DEFINE N == {n \in Nat : pow2[a + n] = pow2[a] * pow2[n]}
<1>1. 0 \in N
  BY Pow2
<1>2. \A n \in Nat : n \in N => n + 1 \in N
  <2> SUFFICES ASSUME NEW n \in Nat, pow2[a + n] = pow2[a] * pow2[n]
               PROVE  pow2[a + (n + 1)] = pow2[a] * pow2[n + 1]
    OBVIOUS
  <2>1. pow2[a] \in Nat /\ pow2[n] \in Nat /\ a + n \in Nat /\ a + (n + 1) = (a + n) + 1
    BY Pow2
  <2>2. pow2[n + 1] = 2 * pow2[n] /\ pow2[(a + n) + 1] = 2 * pow2[a + n]
    BY <2>1, Pow2
  <2>3. \A x, y \in Nat : 2 * (x * y) = x * (2 * y)
    OBVIOUS
  <2> QED
    BY <2>1, <2>2, <2>3
<1>3. Nat \subseteq N
  <2> HIDE DEF N
  <2> QED
    BY <1>1, <1>2, NatSet
<1> QED
  BY <1>3

(* The widths of the fields: the values of the two mode bits, and that an  *)
(* integer, and a page with a position, fit below them.                    *)
LEMMA Widths ==
    \E P \in Nat \ {0} : \E H \in Nat \ {0} : \E A \in Nat \ {0} : \E B \in Nat \ {0} :
    \E k \in Nat : \E c \in Nat :
        /\ P = pow2[RawBits - 2] /\ pow2[RawBits] = 4 * P
        /\ H = pow2[IntBits - 1] /\ pow2[IntBits] = 2 * H
        /\ A = pow2[PageBits] /\ B = pow2[PosBits]
        /\ P = k * (2 * H) /\ P = c * (A * B) /\ H <= P /\ A * B <= P
<1>1. /\ RawBits - 2 \in Nat /\ IntBits - 1 \in Nat /\ PageBits \in Nat /\ PosBits \in Nat
      /\ RawBits - 1 = (RawBits - 2) + 1 /\ RawBits = (RawBits - 1) + 1
      /\ RawBits - 1 \in Nat /\ IntBits = (IntBits - 1) + 1 /\ IntBits \in Nat
  BY ValueAssumption
<1>2. PICK P \in Nat \ {0} : P = pow2[RawBits - 2]
  BY <1>1, Pow2
<1>3. PICK H \in Nat \ {0} : H = pow2[IntBits - 1]
  BY <1>1, Pow2
<1>4. PICK A \in Nat \ {0} : A = pow2[PageBits]
  BY <1>1, Pow2
<1>5. PICK B \in Nat \ {0} : B = pow2[PosBits]
  BY <1>1, Pow2
<1>6. pow2[RawBits] = 4 * P
  <2>1. pow2[(RawBits - 2) + 1] = 2 * P
    BY <1>1, <1>2, Pow2
  <2>2. pow2[(RawBits - 1) + 1] = 2 * pow2[RawBits - 1]
    BY <1>1, Pow2
  <2> QED
    BY <1>1, <2>1, <2>2
<1>7. pow2[IntBits] = 2 * H
  <2>1. pow2[(IntBits - 1) + 1] = 2 * pow2[IntBits - 1]
    BY <1>1, Pow2
  <2> QED
    BY <1>1, <1>3, <2>1
<1>8. PICK d \in Nat : RawBits - 2 = d + IntBits
  <2>1. (RawBits - 2) - IntBits \in Nat /\ RawBits - 2 = ((RawBits - 2) - IntBits) + IntBits
    BY <1>1, ValueAssumption
  <2> QED
    BY <2>1
<1>9. PICK e \in Nat : RawBits - 2 = e + (PageBits + PosBits)
  <2>1. /\ (RawBits - 2) - (PageBits + PosBits) \in Nat
        /\ RawBits - 2 = ((RawBits - 2) - (PageBits + PosBits)) + (PageBits + PosBits)
    BY <1>1, ValueAssumption
  <2> QED
    BY <2>1
<1>10. PICK k \in Nat \ {0} : k = pow2[d]
  BY Pow2
<1>11. PICK c \in Nat \ {0} : c = pow2[e]
  BY Pow2
<1>12. P = k * (2 * H)
  <2>1. pow2[d + IntBits] = pow2[d] * pow2[IntBits]
    BY <1>1, Pow2Sum
  <2> QED
    BY <1>2, <1>7, <1>8, <1>10, <2>1
<1>13. P = c * (A * B)
  <2>1. PageBits + PosBits \in Nat
    BY <1>1
  <2>2. pow2[e + (PageBits + PosBits)] = pow2[e] * pow2[PageBits + PosBits]
    BY <2>1, Pow2Sum
  <2>3. pow2[PageBits + PosBits] = pow2[PageBits] * pow2[PosBits]
    BY <1>1, Pow2Sum
  <2> QED
    BY <1>2, <1>4, <1>5, <1>9, <1>11, <2>2, <2>3
<1>14. ASSUME NEW x \in Nat \ {0}, NEW y \in Nat PROVE y <= x * y
  <2>1. x - 1 \in Nat /\ x * y = (x - 1) * y + y /\ (x - 1) * y \in Nat
    OBVIOUS
  <2> QED
    BY <2>1
<1>15. H <= P
  <2>1. 2 * H \in Nat
    OBVIOUS
  <2>2. 2 * H <= k * (2 * H)
    BY <1>14, <2>1
  <2> QED
    BY <1>12, <2>2
<1>16. A * B <= P
  <2>1. A * B \in Nat
    OBVIOUS
  <2> QED
    BY <1>13, <1>14, <2>1
<1> QED
  BY <1>2, <1>3, <1>4, <1>5, <1>6, <1>7, <1>12, <1>13, <1>15, <1>16

(* The mode of a value_t is its two highest bits. *)
LEMMA ModeBits ==
    ASSUME NEW P \in Nat \ {0}, P = pow2[RawBits - 2], NEW m \in Nat, NEW x \in 0 .. P - 1
    PROVE  mode(m * P + x) = m * P
<1>1. PICK raw : raw = m * P + x
  OBVIOUS
<1>2. raw % P = x
  BY <1>1, PositionParts
<1>3. m * P \in Nat
  OBVIOUS
<1>4. raw - x = m * P
  BY <1>1, <1>3
<1>5. mode(raw) = raw - (raw % P)
  BY DEF mode
<1> QED
  BY <1>1, <1>2, <1>4, <1>5

(* What to_columnar_from_column inserts for a value_t of a column whose    *)
(* original pages are given.                                               *)
Reads(raw, v, pages) ==
    \/ mode(raw) = NULL_MODE /\ v = Null
    \/ mode(raw) = INT32_MODE /\ v = get_int32(raw)
    \/ /\ mode(raw) = INT32_NO_NULL_MODE
       /\ v = pages[get_page(raw) + 1].data[get_pos(raw) + 1]

LEMMA ThreeModes ==
    INT32_MODE # INT32_NO_NULL_MODE /\ INT32_MODE # NULL_MODE /\ INT32_NO_NULL_MODE # NULL_MODE
<1>1. pow2[RawBits - 2] \in Nat \ {0}
  BY ValueAssumption, Pow2
<1> QED
  BY <1>1 DEF INT32_MODE, INT32_NO_NULL_MODE, NULL_MODE

(* A copied value reads as itself, or as NULL if it is negative. *)
LEMMA CopyReads ==
    ASSUME NEW v \in Ints, NEW pages
    PROVE  Reads(put_int32(v), IF v >= 0 THEN v ELSE Null, pages)
<1>1. PICK P \in Nat \ {0}, H \in Nat \ {0}, k \in Nat :
        /\ P = pow2[RawBits - 2] /\ pow2[RawBits] = 4 * P
        /\ H = pow2[IntBits - 1] /\ pow2[IntBits] = 2 * H
        /\ P = k * (2 * H) /\ H <= P
  BY Widths
<1>2. v \in Int /\ -H <= v /\ v < H
  BY <1>1, ValueAssumption
<1>3. CASE v >= 0
  <2>1. put_int32(v) = P + v
    BY <1>1, <1>3 DEF put_int32, INT32_MODE
  <2>2. mode(1 * P + v) = 1 * P
    <3>1. v \in 0 .. P - 1 /\ 1 \in Nat
      BY <1>1, <1>2, <1>3
    <3> QED
      BY <1>1, <3>1, ModeBits
  <2>3. mode(P + v) = INT32_MODE
    BY <1>1, <2>2 DEF INT32_MODE
  <2>4. (P + v) % (2 * H) = v
    <3>1. PICK I \in Nat \ {0} : I = 2 * H
      OBVIOUS
    <3>2. v \in 0 .. I - 1
      BY <1>2, <1>3, <3>1
    <3>3. (k * I + v) % I = v
      BY <3>1, <3>2, PositionParts
    <3> QED
      BY <1>1, <3>1, <3>3
  <2>5. get_int32(P + v) = v
    BY <1>1, <1>2, <2>4 DEF get_int32
  <2> QED
    BY <1>3, <2>1, <2>3, <2>5 DEF Reads
<1>4. CASE v < 0
  <2>1. put_int32(v) = 4 * P + v
    BY <1>1, <1>2, <1>4 DEF put_int32
  <2>2. P + v \in 0 .. P - 1 /\ 4 * P + v = 3 * P + (P + v)
    BY <1>1, <1>2, <1>4
  <2>3. mode(3 * P + (P + v)) = 3 * P
    <3>1. PICK x : x = P + v
      OBVIOUS
    <3>2. x \in 0 .. P - 1 /\ 3 \in Nat
      BY <2>2, <3>1
    <3>3. mode(3 * P + x) = 3 * P
      BY <1>1, <3>2, ModeBits
    <3> QED
      BY <3>1, <3>3
  <2>4. mode(put_int32(v)) = NULL_MODE
    BY <1>1, <2>1, <2>2, <2>3 DEF NULL_MODE
  <2>5. ~(v >= 0)
    BY <1>2, <1>4
  <2> QED
    BY <2>4, <2>5 DEF Reads
<1> QED
  BY <1>2, <1>3, <1>4

LEMMA NullReads == ASSUME NEW pages PROVE Reads(make_null, Null, pages)
<1>1. PICK P \in Nat \ {0} : P = pow2[RawBits - 2]
  BY ValueAssumption, Pow2
<1>2. mode(3 * P + 0) = 3 * P
  <2>1. 0 \in 0 .. P - 1 /\ 3 \in Nat
    OBVIOUS
  <2> QED
    BY <1>1, <2>1, ModeBits
<1>3. 3 * P + 0 = NULL_MODE /\ 3 * P = NULL_MODE
  BY <1>1 DEF NULL_MODE
<1> QED
  BY <1>2, <1>3 DEF Reads, make_null

(* A reference tells its page and its position, if these fit their fields. *)
LEMMA ReferenceReads ==
    ASSUME NEW page \in Nat, NEW pos \in Nat, page < pow2[PageBits], pos < pow2[PosBits]
    PROVE  LET raw == put_int32_no_null(page, pos)
           IN  mode(raw) = INT32_NO_NULL_MODE /\ get_page(raw) = page /\ get_pos(raw) = pos
<1>1. PICK P \in Nat \ {0}, A \in Nat \ {0}, B \in Nat \ {0}, c \in Nat :
        /\ P = pow2[RawBits - 2] /\ A = pow2[PageBits] /\ B = pow2[PosBits]
        /\ P = c * (A * B) /\ A * B <= P
  BY Widths, SMTT(30)
<1>2. PICK raw : raw = put_int32_no_null(page, pos)
  OBVIOUS
<1>3. page * B \in Nat /\ page \in 0 .. A - 1 /\ pos \in 0 .. B - 1
  BY <1>1
<1>4. PICK x : x = page * B + pos
  OBVIOUS
<1>5. x \in 0 .. P - 1
  <2>1. (page + 1) * B = page * B + B /\ (page + 1) * B <= A * B
    BY <1>3, MulStep
  <2>2. A * B \in Nat
    OBVIOUS
  <2> QED
    BY <1>1, <1>3, <1>4, <2>1, <2>2
<1>6. raw = 2 * P + x
  <2>1. raw = 2 * P + page * B + pos
    BY <1>1, <1>2 DEF put_int32_no_null, INT32_NO_NULL_MODE
  <2> QED
    BY <1>3, <1>4, <2>1
<1>7. mode(raw) = INT32_NO_NULL_MODE
  <2>1. mode(2 * P + x) = 2 * P
    BY <1>1, <1>5, ModeBits
  <2> QED
    BY <1>1, <1>6, <2>1 DEF INT32_NO_NULL_MODE
<1>8. PICK q \in Nat : q = (2 * c) * A + page
  OBVIOUS
<1>9. raw = q * B + pos
  <2>1. \A u, y, z \in Nat : 2 * (u * (y * z)) = ((2 * u) * y) * z
    OBVIOUS
  <2>2. 2 * P = ((2 * c) * A) * B
    BY <1>1, <2>1
  <2>3. q * B = ((2 * c) * A) * B + page * B
    <3>1. PICK w \in Nat : w = (2 * c) * A
      OBVIOUS
    <3>2. (w + page) * B = w * B + page * B
      OBVIOUS
    <3> QED
      BY <1>8, <3>1, <3>2
  <2>4. ((2 * c) * A) * B \in Nat
    OBVIOUS
  <2> QED
    BY <1>3, <1>4, <1>6, <2>2, <2>3, <2>4
<1>10. raw \div B = q /\ raw % B = pos
  BY <1>3, <1>9, PositionParts
<1>11. q % A = page
  <2>1. 2 * c \in Nat
    OBVIOUS
  <2> QED
    BY <1>3, <1>8, <2>1, PositionParts
<1>12. get_page(raw) = page /\ get_pos(raw) = pos
  BY <1>1, <1>10, <1>11 DEF get_page, get_pos
<1> QED
  BY <1>2, <1>7, <1>12

-----------------------------------------------------------------------------
(* The boxes of the column, and what becomes of them.                      *)

(* The pages of the boxes are the values one after the other. *)
LEMMA SideBySideFlat ==
    ASSUME NEW V, NEW values \in Seq(V)
    PROVE  FlattenSeq(SideBySide(values)) = values
<1>1. PICK L \in Nat : L = Len(values)
  OBVIOUS
<1>2. BoxCount \in Nat \ {0}
  BY Int32Assumption
<1>3. PICK n \in Nat : n = (L + BoxCount - 1) \div BoxCount
  <2>1. L + BoxCount - 1 \in Nat
    BY <1>2
  <2> QED
    BY <1>2, <2>1, DivMod
<1>4. PICK r \in 0 .. BoxCount - 1 : L + BoxCount - 1 = BoxCount * n + r
  <2>1. L + BoxCount - 1 \in Nat
    BY <1>2
  <2> QED
    BY <1>2, <1>3, <2>1, DivMod
<1> DEFINE End(m) == IF m * BoxCount < L THEN m * BoxCount ELSE L
<1>5. ASSUME NEW m \in 0 .. n - 1 PROVE m * BoxCount < L
  <2>1. m * BoxCount + BoxCount = (m + 1) * BoxCount /\ (m + 1) * BoxCount <= n * BoxCount
    BY <1>2, MulStep
  <2>2. n * BoxCount = BoxCount * n /\ BoxCount * n \in Nat /\ m * BoxCount \in Nat
    BY <1>2
  <2> QED
    BY <1>2, <1>4, <2>1, <2>2
<1>6. End(n) = L
  <2>1. n * BoxCount = BoxCount * n /\ BoxCount * n \in Nat
    BY <1>2
  <2> QED
    BY <1>2, <1>4, <2>1
<1>7. \A m \in 0 .. n - 1 : End(m) = m * BoxCount
  BY <1>5
<1>8. \A m \in 0 .. n : End(m) \in 0 .. L
  BY <1>2
<1>9. ASSUME NEW m \in 0 .. n - 1 PROVE End(m) <= End(m + 1)
  <2>1. m * BoxCount + BoxCount = (m + 1) * BoxCount /\ m * BoxCount \in Nat
    BY <1>2, MulStep
  <2> QED
    BY <1>2, <1>5, <2>1
<1>10. PICK seqs : seqs = SideBySide(values)
  OBVIOUS
<1>11. seqs = [m \in 1 .. n |-> SubSeq(values, (m - 1) * BoxCount + 1, End(m))]
  BY <1>1, <1>3, <1>10 DEF SideBySide
<1>12. ASSUME NEW k \in 0 .. n - 1
       PROVE  /\ seqs[k + 1] = SubSeq(values, End(k) + 1, End(k + 1))
              /\ seqs[k + 1] \in Seq(V)
              /\ SubSeq(values, 1, End(k)) \o seqs[k + 1] = SubSeq(values, 1, End(k + 1))
  <2>1. PICK a : a = End(k)
    OBVIOUS
  <2>2. PICK b : b = End(k + 1)
    OBVIOUS
  <2>3. a \in 0 .. L /\ b \in 0 .. L /\ a <= b
    <3>1. k \in 0 .. n /\ k + 1 \in 0 .. n
      OBVIOUS
    <3> HIDE DEF End
    <3> QED
      BY <1>8, <1>9, <2>1, <2>2, <3>1
  <2>4. seqs[k + 1] = SubSeq(values, ((k + 1) - 1) * BoxCount + 1, b)
    <3>1. k + 1 \in 1 .. n
      OBVIOUS
    <3> HIDE DEF End
    <3> QED
      BY <1>11, <2>2, <3>1
  <2>5. ((k + 1) - 1) * BoxCount = a
    <3>1. (k + 1) - 1 = k
      OBVIOUS
    <3> HIDE DEF End
    <3> QED
      BY <1>7, <2>1, <3>1
  <2> HIDE DEF End
  <2>6. /\ SubSeq(values, 1, a) \o SubSeq(values, a + 1, b) = SubSeq(values, 1, b)
        /\ SubSeq(values, a + 1, b) \in Seq(V)
    <3>1. a \in 0 .. Len(values) /\ b \in 0 .. Len(values) /\ a <= b
      BY <1>1, <2>3
    <3> QED
      BY ONLY values \in Seq(V), <3>1, SubSeqParts
  <2> QED
    BY <2>1, <2>2, <2>4, <2>5, <2>6
<1>13. seqs \in Seq(Seq(V)) /\ Len(seqs) = n
  <2>1. ASSUME NEW m \in 1 .. n PROVE seqs[m] \in Seq(V)
    <3>1. PICK k \in 0 .. n - 1 : m = k + 1
      <4>1. m - 1 \in 0 .. n - 1 /\ m = (m - 1) + 1
        OBVIOUS
      <4> QED
        BY <4>1
    <3> QED
      BY <1>12, <3>1
  <2>2. seqs = [m \in 1 .. n |-> seqs[m]]
    BY <1>11
  <2>3. PICK U : U = Seq(V)
    OBVIOUS
  <2>4. \A m \in 1 .. n : seqs[m] \in U
    BY <2>1, <2>3
  <2>5. n \in Nat /\ seqs \in Seq(U) /\ Len(seqs) = n
    BY <2>2, <2>4, IsSeq
  <2> QED
    BY <2>3, <2>5
<1>14. PICK h : /\ h[0] = <<>>
                /\ \A m \in 1 .. n : h[m] = h[m - 1] \o seqs[m]
                /\ FlattenSeq(seqs) = h[n]
  <2>1. PICK h : /\ h[0] = <<>>
                 /\ \A m \in 1 .. Len(seqs) : h[m] = h[m - 1] \o seqs[m]
                 /\ FlattenSeq(seqs) = h[Len(seqs)]
    BY <1>13, FlattenSteps
  <2> QED
    BY <1>13, <2>1
<1> DEFINE M == {m \in Nat : h[m] = SubSeq(values, 1, End(m))}
<1>15. 0 \in M
  <2>1. End(0) = 0
    BY <1>2
  <2>2. SubSeq(values, 1, 0) = <<>>
    OBVIOUS
  <2> HIDE DEF End
  <2> QED
    BY <1>14, <2>1, <2>2
<1>16. \A m \in 0 .. n - 1 : m \in M => m + 1 \in M
  <2> SUFFICES ASSUME NEW m \in 0 .. n - 1, h[m] = SubSeq(values, 1, End(m))
               PROVE  h[m + 1] = SubSeq(values, 1, End(m + 1))
    OBVIOUS
  <2>1. PICK k : k = m + 1 /\ k \in 1 .. n /\ k - 1 = m
    OBVIOUS
  <2>2. h[k] = h[m] \o seqs[k]
    BY <1>14, <2>1
  <2> HIDE DEF End
  <2>3. SubSeq(values, 1, End(m)) \o seqs[m + 1] = SubSeq(values, 1, End(m + 1))
    BY <1>12
  <2> QED
    BY <2>1, <2>2, <2>3
<1>17. \A m \in 0 .. n : m \in M
  <2> HIDE DEF M
  <2> QED
    BY <1>15, <1>16, UpTo
<1>18. h[n] = SubSeq(values, 1, End(n))
  BY <1>17
<1>19. SubSeq(values, 1, L) = values
  BY <1>1
<1> QED
  BY <1>6, <1>10, <1>14, <1>18, <1>19

(* A page with as many values as rows has a value for each: position and   *)
(* index agree.  A page with fewer has a NULL.                             *)
LEMMA FullPage ==
    ASSUME NEW page, IsPage(page, Ints), Len(page.data) = page.num_rows,
           NEW i \in Nat, i < page.num_rows
    PROVE  cell(page, i) = page.data[i + 1] /\ page.data[i + 1] \in Ints
<1>1. PICK n \in Nat : n = page.num_rows
  BY DEF IsPage
<1>2. page.data \in Seq(Ints) /\ page.bitmap \in SUBSET Nat /\ Len(page.data) = n
  BY <1>1 DEF IsPage
<1> DEFINE B == {b \in page.bitmap : b < n}
<1>3. Cardinality(B) = n
  BY <1>1, <1>2 DEF IsPage
<1>4. B \in SUBSET (0 .. n - 1)
  BY <1>2
<1>5. IsFiniteSet(0 .. n - 1) /\ Cardinality(0 .. n - 1) = n
  <2>1. 0 \in Int /\ n - 1 \in Int
    OBVIOUS
  <2>2. /\ IsFiniteSet(0 .. n - 1)
        /\ Cardinality(0 .. n - 1) = IF 0 > n - 1 THEN 0 ELSE (n - 1) - 0 + 1
    BY <2>1, FS_Interval
  <2> QED
    BY <2>2
<1>6. B = 0 .. n - 1
  <2> HIDE DEF B
  <2> QED
    BY <1>3, <1>4, <1>5, FS_Subset
<1>7. i \in page.bitmap /\ {k \in page.bitmap : k < i} = 0 .. i - 1
  <2>1. \A k \in 0 .. n - 1 : k \in page.bitmap
    BY <1>6
  <2> QED
    BY <1>1, <1>2, <2>1
<1>8. Cardinality(0 .. i - 1) = i
  <2>1. 0 \in Int /\ i - 1 \in Int
    OBVIOUS
  <2>2. Cardinality(0 .. i - 1) = IF 0 > i - 1 THEN 0 ELSE (i - 1) - 0 + 1
    BY <2>1, FS_Interval
  <2> QED
    BY <2>2
<1>9. cell(page, i) = page.data[i + 1]
  BY <1>7, <1>8 DEF cell
<1>10. i + 1 \in 1 .. n
  BY <1>1
<1>11. page.data[i + 1] \in Ints
  BY <1>2, <1>10
<1> QED
  BY <1>9, <1>11

LEMMA PageHasNull ==
    ASSUME NEW page, IsPage(page, Ints), Len(page.data) # page.num_rows
    PROVE  Null \in Range(page_rows(page))
<1>1. PICK n \in Nat : n = page.num_rows
  BY DEF IsPage
<1>2. page.data \in Seq(Ints) /\ page.bitmap \in SUBSET Nat
  BY DEF IsPage
<1> DEFINE B == {b \in page.bitmap : b < n}
<1>3. Cardinality(B) # n
  BY <1>1 DEF IsPage
<1>4. Cardinality(0 .. n - 1) = n
  <2>1. 0 \in Int /\ n - 1 \in Int
    OBVIOUS
  <2>2. Cardinality(0 .. n - 1) = IF 0 > n - 1 THEN 0 ELSE (n - 1) - 0 + 1
    BY <2>1, FS_Interval
  <2> QED
    BY <2>2
<1>5. PICK i \in 0 .. n - 1 : i \notin page.bitmap
  <2>1. B # 0 .. n - 1
    BY <1>3, <1>4
  <2>2. B \subseteq 0 .. n - 1
    BY <1>2
  <2> QED
    BY <2>1, <2>2
<1>6. cell(page, i) = Null
  BY <1>5 DEF cell
<1>7. PICK j : j = i + 1 /\ j - 1 = i /\ j \in 1 .. n
  OBVIOUS
<1>8. page_rows(page) = [m \in 1 .. n |-> cell(page, m - 1)]
  BY <1>1 DEF page_rows
<1>9. j \in DOMAIN page_rows(page) /\ page_rows(page)[j] = Null
  BY <1>6, <1>7, <1>8
<1> QED
  BY <1>9 DEF Range

(* A column some page of which has fewer values than rows has a NULL. *)
LEMMA ColumnHasNull ==
    ASSUME NEW pages, ArePages(pages, Ints), ~no_nulls(pages)
    PROVE  Null \in Range(copy_scan(pages))
<1>1. PICK p \in DOMAIN pages : pages[p].num_rows # pages[p].num_non_null
  BY DEF no_nulls
<1>2. p \in 1 .. Len(pages) /\ IsPage(pages[p], Ints)
      /\ pages[p].num_non_null = Len(pages[p].data)
  BY DEF ArePages
<1>3. Null \in Range(page_rows(pages[p]))
  BY <1>1, <1>2, PageHasNull
<1>4. PICK a : a = PartsOf(pages)
  OBVIOUS
<1>5. PICK T : T = Ints \cup {Null}
  OBVIOUS
<1>6. a \in Seq(Seq(T)) /\ Len(a) = Len(pages) /\ a[p] = page_rows(pages[p])
      /\ copy_scan(pages) = FlattenSeq(a)
  BY <1>2, <1>4, <1>5, PartsType
<1>7. Range(FlattenSeq(a)) = UNION {Range(a[m]) : m \in 1 .. Len(a)}
  BY <1>6, FlattenRange
<1> QED
  BY <1>2, <1>3, <1>6, <1>7

(* The rows that survive. *)
Kept(value, values) == value = Null \/ value >= 0 \/ Null \notin Range(values)

(* What the boxes of the column say of its rows. *)
Right(raws, values, pages) ==
    /\ Len(raws) = Len(values)
    /\ \A r \in 1 .. Len(values) :
         \E v : Reads(raws[r], v, pages) /\ (Kept(values[r], values) => v = values[r])

LEMMA CopiesAreRight ==
    ASSUME NEW pages, ArePages(pages, Ints), ~no_nulls(pages)
    PROVE  FlattenSeq(SideBySide(CopiesOf(pages))) = CopiesOf(pages)
           /\ Right(CopiesOf(pages), copy_scan(pages), pages)
<1>1. PICK values : values = copy_scan(pages)
  OBVIOUS
<1>2. values \in Seq(Ints \cup {Null})
  BY <1>1, PartsType
<1>3. PICK raws : raws = CopiesOf(pages)
  OBVIOUS
<1>4. raws = [r \in DOMAIN values |->
                 IF values[r] = Null THEN make_null ELSE put_int32(values[r])]
  BY <1>1, <1>3 DEF CopiesOf
<1>5. DOMAIN values = 1 .. Len(values) /\ Len(values) \in Nat
  BY <1>2
<1>6. PICK S : S = {raws[r] : r \in 1 .. Len(values)}
  OBVIOUS
<1>7. raws \in Seq(S) /\ Len(raws) = Len(values)
  <2>1. raws = [r \in 1 .. Len(values) |-> raws[r]]
    BY <1>4, <1>5
  <2>2. \A r \in 1 .. Len(values) : raws[r] \in S
    BY <1>6
  <2> QED
    BY <1>5, <2>1, <2>2
<1>8. FlattenSeq(SideBySide(raws)) = raws
  BY <1>7, SideBySideFlat
<1>9. Null \in Range(values)
  BY <1>1, ColumnHasNull
<1>10. ASSUME NEW r \in 1 .. Len(values)
       PROVE  \E v : Reads(raws[r], v, pages) /\ (Kept(values[r], values) => v = values[r])
  <2>1. PICK x : x = values[r]
    OBVIOUS
  <2>2. x \in Ints \cup {Null}
    BY <1>2, <2>1
  <2>3. CASE x = Null
    <3>1. raws[r] = make_null
      BY <1>4, <1>5, <2>1, <2>3
    <3> QED
      BY <2>1, <2>3, <3>1, NullReads
  <2>4. CASE x # Null
    <3>1. raws[r] = put_int32(x) /\ x \in Ints
      BY <1>4, <1>5, <2>1, <2>2, <2>4
    <3>2. PICK v : v = IF x >= 0 THEN x ELSE Null
      OBVIOUS
    <3>3. Reads(raws[r], v, pages)
      BY <3>1, <3>2, CopyReads
    <3>4. Kept(x, values) => v = x
      BY <1>9, <2>4, <3>2 DEF Kept
    <3> QED
      BY <2>1, <3>3, <3>4
  <2> QED
    BY <2>3, <2>4
<1> QED
  BY <1>1, <1>3, <1>7, <1>8, <1>10 DEF Right

LEMMA ReferencesAreRight ==
    ASSUME NEW pages, ArePages(pages, Ints), no_nulls(pages), ~TooLarge(pages)
    PROVE  FlattenSeq(SideBySide(ReferencesTo(pages))) = ReferencesTo(pages)
           /\ Right(ReferencesTo(pages), copy_scan(pages), pages)
<1>1. PICK a : a = [p \in DOMAIN pages |-> page_refs(pages[p], p - 1)]
  OBVIOUS
<1>2. PICK b : b = PartsOf(pages)
  OBVIOUS
<1>3. PICK T : T = Ints \cup {Null}
  OBVIOUS
<1>4. /\ b \in Seq(Seq(T)) /\ Len(b) = Len(pages) /\ copy_scan(pages) = FlattenSeq(b)
      /\ \A p \in 1 .. Len(pages) : b[p] = page_rows(pages[p])
  BY <1>2, <1>3, PartsType
<1>5. DOMAIN pages = 1 .. Len(pages) /\ Len(pages) \in Nat
      /\ \A p \in 1 .. Len(pages) :
           IsPage(pages[p], Ints) /\ pages[p].num_non_null = Len(pages[p].data)
  BY DEF ArePages
<1>6. ASSUME NEW p \in Nat, NEW s \in Nat PROVE put_int32_no_null(p, s) \in Int
  <2>1. pow2[RawBits - 2] \in Nat /\ pow2[PosBits] \in Nat
    BY ValueAssumption, Pow2
  <2>2. p * pow2[PosBits] \in Nat
    BY <2>1
  <2> QED
    BY <2>1, <2>2 DEF put_int32_no_null, INT32_NO_NULL_MODE
<1>7. ASSUME NEW p \in 1 .. Len(pages)
      PROVE  /\ a[p] \in Seq(Int) /\ Len(a[p]) = pages[p].num_rows
             /\ \A i \in 1 .. pages[p].num_rows : a[p][i] = put_int32_no_null(p - 1, i - 1)
  <2>1. PICK n \in Nat : n = pages[p].num_rows
    BY <1>5 DEF IsPage
  <2>2. a[p] = [i \in 1 .. n |-> put_int32_no_null(p - 1, i - 1)]
    BY <1>1, <1>5, <2>1 DEF page_refs
  <2>3. \A i \in 1 .. n : put_int32_no_null(p - 1, i - 1) \in Int
    <3> SUFFICES ASSUME NEW i \in 1 .. n PROVE put_int32_no_null(p - 1, i - 1) \in Int
      OBVIOUS
    <3>1. p - 1 \in Nat /\ i - 1 \in Nat
      OBVIOUS
    <3> QED
      BY <1>6, <3>1
  <2>4. PICK x : x = a[p]
    OBVIOUS
  <2>5. \A i \in 1 .. n : x[i] = put_int32_no_null(p - 1, i - 1)
    BY <2>2, <2>4
  <2>6. \A i \in 1 .. n : x[i] \in Int
    BY <2>3, <2>5
  <2>7. x = [i \in 1 .. n |-> x[i]]
    BY <2>2, <2>4
  <2>8. x \in Seq(Int) /\ Len(x) = n
    BY ONLY n \in Nat, <2>6, <2>7
  <2> QED
    BY <2>1, <2>4, <2>5, <2>8
<1>8. a = [p \in 1 .. Len(pages) |-> a[p]]
  BY <1>1, <1>5
<1>9. a \in Seq(Seq(Int)) /\ Len(a) = Len(pages)
  BY <1>5, <1>7, <1>8
<1>10. Shape(a) = Shape(b)
  <2>1. \A p \in 1 .. Len(pages) : Len(a[p]) = Len(b[p])
    <3> SUFFICES ASSUME NEW p \in 1 .. Len(pages) PROVE Len(a[p]) = Len(b[p])
      OBVIOUS
    <3>1. IsPage(pages[p], Ints) /\ b[p] = page_rows(pages[p])
      BY <1>4, <1>5
    <3>2. Len(page_rows(pages[p])) = pages[p].num_rows
      BY <3>1, PageRowsType
    <3> QED
      BY <1>7, <3>1, <3>2
  <2>2. DOMAIN a = 1 .. Len(pages) /\ DOMAIN b = 1 .. Len(pages)
    BY <1>4, <1>9
  <2> QED
    BY <2>1, <2>2 DEF Shape
<1>11. Together(a, b, FlattenSeq(a), FlattenSeq(b))
  BY <1>4, <1>9, <1>10, FlattenTogether
<1>12. PICK raws : raws = ReferencesTo(pages)
  OBVIOUS
<1>13. raws = FlattenSeq(a)
  BY <1>1, <1>12 DEF ReferencesTo
<1>14. raws \in Seq(Int)
  BY <1>9, <1>13, FlattenRange
<1>15. FlattenSeq(SideBySide(raws)) = raws
  BY <1>14, SideBySideFlat
<1>16. PICK values : values = copy_scan(pages)
  OBVIOUS
<1>17. /\ Len(raws) = Len(values)
       /\ \A r \in 1 .. Len(raws) : \E p \in 1 .. Len(a) : \E i \in 1 .. Len(a[p]) :
            raws[r] = a[p][i] /\ values[r] = b[p][i]
  <2>1. Together(a, b, raws, values)
    BY <1>4, <1>11, <1>13, <1>16
  <2> QED
    BY ONLY <2>1 DEF Together
<1>18. ASSUME NEW r \in 1 .. Len(values)
       PROVE  Reads(raws[r], values[r], pages)
  <2>1. PICK p \in 1 .. Len(a) : \E i \in 1 .. Len(a[p]) :
                                   raws[r] = a[p][i] /\ values[r] = b[p][i]
    BY <1>17
  <2>2. PICK i \in 1 .. Len(a[p]) : raws[r] = a[p][i] /\ values[r] = b[p][i]
    BY <2>1
  <2>3. p \in 1 .. Len(pages)
    BY <1>9
  <2>4. PICK n \in Nat : n = pages[p].num_rows
    BY <1>5, <2>3 DEF IsPage
  <2>5. i \in 1 .. n
    BY <1>7, <2>3, <2>4
  <2>6. PICK q \in Nat : q = p - 1 /\ q + 1 = p
    BY <2>3
  <2>7. PICK s \in Nat : s = i - 1 /\ s + 1 = i
    BY <2>5
  <2>8. raws[r] = put_int32_no_null(q, s)
    BY <1>7, <2>2, <2>3, <2>4, <2>5, <2>6, <2>7
  <2>9. Len(pages[p].data) = n
    <3>1. pages[p].num_rows = pages[p].num_non_null
      BY <1>5, <2>3 DEF no_nulls
    <3> QED
      BY <1>5, <2>3, <2>4, <3>1
  <2>10. values[r] = pages[p].data[s + 1]
    <3>1. b[p] = page_rows(pages[p]) /\ IsPage(pages[p], Ints)
      BY <1>4, <1>5, <2>3
    <3>2. page_rows(pages[p])[i] = cell(pages[p], i - 1)
      BY <2>4, <2>5, <3>1, PageRowsType
    <3>3. s < pages[p].num_rows
      BY <2>4, <2>5, <2>7
    <3>4. cell(pages[p], s) = pages[p].data[s + 1]
      BY <2>4, <2>9, <3>1, <3>3, FullPage
    <3> QED
      BY <2>2, <2>7, <3>1, <3>2, <3>4
  <2>11. q < pow2[PageBits] /\ s < pow2[PosBits]
    <3>1. /\ ~(pages[p].num_rows > 0 /\ p - 1 >= pow2[PageBits])
          /\ ~(pages[p].num_rows > pow2[PosBits])
      BY <1>5, <2>3 DEF TooLarge
    <3>2. pow2[PageBits] \in Nat /\ pow2[PosBits] \in Nat
      BY ValueAssumption, Pow2
    <3>3. PICK x \in Nat : x = pow2[PageBits]
      BY <3>2
    <3>4. PICK y \in Nat : y = pow2[PosBits]
      BY <3>2
    <3>5. ~(n > 0 /\ q >= x) /\ ~(n > y)
      BY <2>4, <2>6, <3>1, <3>3, <3>4
    <3>6. q < x /\ s < y
      BY <2>5, <2>7, <3>5
    <3> QED
      BY <3>3, <3>4, <3>6
  <2>12. /\ mode(raws[r]) = INT32_NO_NULL_MODE
         /\ get_page(raws[r]) = q /\ get_pos(raws[r]) = s
    BY <2>8, <2>11, ReferenceReads
  <2> QED
    BY <2>6, <2>10, <2>12 DEF Reads
<1> QED
  BY <1>12, <1>15, <1>16, <1>17, <1>18 DEF Right

(* One more row of the result. *)
LEMMA ReadsInsert ==
    ASSUME NEW raw, NEW v, Reads(raw, v, inserter.pages), Whole(out)
    PROVE  LET new == CASE mode(raw) = NULL_MODE -> insert_null(out)
                        [] mode(raw) = INT32_MODE -> insert(out, get_int32(raw))
                        [] mode(raw) = INT32_NO_NULL_MODE -> insert(out, ValueFromPage(raw))
                        [] OTHER -> out
           IN  Whole(new) /\ RowsOf(new) = Append(RowsOf(out), v)
<1>1. PICK R : WholeOf(out, R)
  BY DEF Whole
<1>2. PICK new : new = CASE mode(raw) = NULL_MODE -> insert_null(out)
                         [] mode(raw) = INT32_MODE -> insert(out, get_int32(raw))
                         [] mode(raw) = INT32_NO_NULL_MODE -> insert(out, ValueFromPage(raw))
                         [] OTHER -> out
  OBVIOUS
<1>3. CASE mode(raw) = NULL_MODE /\ v = Null
  <2>1. new = insert_null(out)
    BY <1>2, <1>3, ThreeModes
  <2> QED
    BY <1>1, <1>2, <1>3, <2>1, InsertNullAddsRow DEF Whole
<1>4. ASSUME new = insert(out, v)
      PROVE  Whole(new) /\ RowsOf(new) = Append(RowsOf(out), v)
  <2>1. PICK S : S = R \cup {v}
    OBVIOUS
  <2>2. WholeOf(out, S) /\ v \in S
    BY <1>1, <2>1, MoreRows
  <2> QED
    BY <1>4, <2>2, InsertAddsRow DEF Whole
<1>5. CASE mode(raw) = INT32_MODE /\ v = get_int32(raw)
  <2>1. new = insert(out, v)
    BY <1>2, <1>5, ThreeModes
  <2> QED
    BY <1>2, <1>4, <2>1
<1>6. CASE /\ mode(raw) = INT32_NO_NULL_MODE
           /\ v = inserter.pages[get_page(raw) + 1].data[get_pos(raw) + 1]
  <2>1. v = ValueFromPage(raw)
    BY <1>6 DEF ValueFromPage
  <2>2. new = insert(out, v)
    BY <1>2, <1>6, <2>1, ThreeModes
  <2> QED
    BY <1>2, <1>4, <2>2
<1> QED
  BY <1>3, <1>5, <1>6 DEF Reads

(* The rows of the result so far. *)
Answered ==
    /\ next \in 0 .. Len(rows) /\ Len(RowsOf(out)) = next
    /\ \A r \in 1 .. next : Kept(rows[r], rows) => RowsOf(out)[r] = rows[r]

(* The inductive invariant: the boxes are right, and so is what became of  *)
(* the first of them.                                                      *)
ResultInv ==
    /\ Whole(out)
    /\ phase \in {"insert", "scan"} => out = NoRows /\ next = 0
    /\ phase \in {"materialise", "done"} =>
         Right(FlattenSeq(column.pages), rows, inserter.pages) /\ Answered
    /\ phase = "done" => next = Len(rows) /\ copy_scan(out.pages) = RowsOf(out)

LEMMA ScanIsRight ==
    ASSUME InsertedInv, ResultInv, ScanReferences \/ ScanCopies
    PROVE  ResultInv'
<1>1. /\ phase = "scan" /\ phase' = "materialise"
      /\ UNCHANGED <<rows, inserter, next, out>>
  BY DEF ScanReferences, ScanCopies
<1>2. PICK pages : pages = inserter.pages
  OBVIOUS
<1>3. ArePages(pages, Ints) /\ copy_scan(pages) = rows
  BY <1>1, <1>2 DEF InsertedInv, WholeOf
<1>4. Right(FlattenSeq(column'.pages), rows, pages)
  <2>1. CASE ScanReferences
    <3>1. /\ no_nulls(pages) /\ ~TooLarge(pages)
          /\ column' = [is_no_null |-> TRUE, pages |-> SideBySide(ReferencesTo(pages))]
      BY <1>2, <2>1 DEF ScanReferences
    <3>2. column'.pages = SideBySide(ReferencesTo(pages))
      BY <3>1
    <3> QED
      BY <1>3, <3>1, <3>2, ReferencesAreRight
  <2>2. CASE ScanCopies
    <3>1. /\ ~no_nulls(pages)
          /\ column' = [is_no_null |-> FALSE, pages |-> SideBySide(CopiesOf(pages))]
      BY <1>2, <2>2 DEF ScanCopies
    <3>2. column'.pages = SideBySide(CopiesOf(pages))
      BY <3>1
    <3> QED
      BY <1>3, <3>1, <3>2, CopiesAreRight
  <2> QED
    BY <2>1, <2>2
<1>5. Right(FlattenSeq(column.pages), rows, inserter.pages)'
  BY <1>1, <1>2, <1>4
<1>6. out = NoRows /\ next = 0
  BY <1>1 DEF ResultInv
<1>7. RowsOf(out) = <<>> /\ Len(RowsOf(out)) = 0
  BY <1>6, NoRowsIsWhole
<1>8. rows \in Seq(Ints \cup {Null})
  BY <1>3, PartsType
<1>9. Answered
  BY <1>6, <1>7, <1>8 DEF Answered
<1>10. Answered'
  BY <1>1, <1>9 DEF Answered
<1>11. Whole(out)'
  BY <1>1 DEF ResultInv
<1> QED
  BY <1>1, <1>5, <1>10, <1>11 DEF ResultInv

LEMMA MaterialiseIsRight ==
    ASSUME ResultInv, Materialise
    PROVE  ResultInv'
<1>1. /\ phase = "materialise" /\ UNCHANGED <<phase, rows, inserter, column>>
      /\ next' = next + 1 /\ next < Len(FlattenSeq(column.pages))
  BY DEF Materialise
<1>2. PICK raws : raws = FlattenSeq(column.pages)
  OBVIOUS
<1>3. PICK raw : raw = raws[next + 1]
  OBVIOUS
<1>4. out' = CASE mode(raw) = NULL_MODE -> insert_null(out)
               [] mode(raw) = INT32_MODE -> insert(out, get_int32(raw))
               [] mode(raw) = INT32_NO_NULL_MODE -> insert(out, ValueFromPage(raw))
               [] OTHER -> out
  BY <1>2, <1>3 DEF Materialise
<1>5. Right(raws, rows, inserter.pages) /\ Answered /\ Whole(out)
  BY <1>1, <1>2 DEF ResultInv
<1>6. PICK n \in Nat : n = next
  BY <1>5 DEF Answered
<1>7. Len(raws) = Len(rows) /\ n < Len(rows) /\ n \in 0 .. Len(rows)
  BY <1>1, <1>2, <1>5, <1>6 DEF Right, Answered
<1>8. n + 1 \in 1 .. Len(rows) /\ n + 1 \in 0 .. Len(rows)
  BY <1>7
<1>9. PICK v : Reads(raw, v, inserter.pages)
               /\ (Kept(rows[n + 1], rows) => v = rows[n + 1])
  BY <1>3, <1>5, <1>6, <1>8 DEF Right
<1>10. Whole(out') /\ RowsOf(out') = Append(RowsOf(out), v)
  BY <1>4, <1>5, <1>9, ReadsInsert
<1>11. PICK a : a = RowsOf(out)
  OBVIOUS
<1>12. PICK R : WholeOf(out, R)
  BY <1>5 DEF Whole
<1>13. a \in Seq(R \cup {Null})
  BY <1>11, <1>12, RowsType
<1>14. Len(a) = n /\ \A r \in 1 .. n : Kept(rows[r], rows) => a[r] = rows[r]
  BY <1>5, <1>6, <1>11 DEF Answered
<1>15. PICK b : b = Append(a, v)
  OBVIOUS
<1>16. Len(b) = n + 1 /\ b[n + 1] = v /\ \A r \in 1 .. n : b[r] = a[r]
  BY <1>13, <1>14, <1>15
<1>17. \A r \in 1 .. n + 1 : Kept(rows[r], rows) => b[r] = rows[r]
  <2> SUFFICES ASSUME NEW r \in 1 .. n + 1, Kept(rows[r], rows) PROVE b[r] = rows[r]
    OBVIOUS
  <2>1. CASE r = n + 1
    BY <1>9, <1>16, <2>1
  <2>2. CASE r # n + 1
    <3>1. r \in 1 .. n
      BY <2>2
    <3> QED
      BY <1>14, <1>16, <3>1
  <2> QED
    BY <2>1, <2>2
<1>18. Answered'
  <2>1. RowsOf(out)' = b /\ next' = n + 1 /\ rows' = rows
    BY <1>1, <1>6, <1>10, <1>11, <1>15
  <2> QED
    BY <1>8, <1>16, <1>17, <2>1 DEF Answered
<1>19. Right(FlattenSeq(column.pages), rows, inserter.pages)'
  BY <1>1, <1>2, <1>5
<1>20. phase' = "materialise" /\ Whole(out)'
  BY <1>1, <1>10
<1> QED
  BY <1>18, <1>19, <1>20 DEF ResultInv

LEMMA FinalizeIsRight ==
    ASSUME ResultInv, FinalizeResult
    PROVE  ResultInv'
<1>1. /\ phase = "materialise" /\ phase' = "done"
      /\ UNCHANGED <<rows, inserter, column, next>>
      /\ out' = finalize(out) /\ next = Len(FlattenSeq(column.pages))
  BY DEF FinalizeResult
<1>2. /\ Right(FlattenSeq(column.pages), rows, inserter.pages)
      /\ Answered /\ Whole(out)
  BY <1>1 DEF ResultInv
<1>3. PICK S : WholeOf(out, S)
  BY <1>2 DEF Whole
<1>4. /\ Whole(out)' /\ RowsOf(out)' = RowsOf(out)
      /\ copy_scan(out.pages)' = RowsOf(out)
  BY <1>1, <1>3, FinalizeKeepsRows DEF Whole
<1>5. next = Len(rows)
  BY <1>1, <1>2 DEF Right
<1>6. Answered'
  BY <1>1, <1>2, <1>4 DEF Answered
<1>7. Right(FlattenSeq(column.pages), rows, inserter.pages)'
  BY <1>1, <1>2
<1> QED
  BY <1>1, <1>4, <1>5, <1>6, <1>7 DEF ResultInv

LEMMA ResultInvIsInductive == Spec => []ResultInv
<1>1. Init => ResultInv
  BY NoRowsIsWhole DEF Init, ResultInv, Whole
<1>2. InsertedInv /\ ResultInv /\ [Next]_vars => ResultInv'
  <2> SUFFICES ASSUME InsertedInv, ResultInv, [Next]_vars PROVE ResultInv'
    OBVIOUS
  <2>1. ASSUME NEW v \in Ints \cup {Null}, Insert(v) PROVE ResultInv'
    BY <2>1 DEF Insert, ResultInv
  <2>2. CASE Finalize
    BY <2>2 DEF Finalize, ResultInv
  <2>3. CASE ScanReferences \/ ScanCopies
    BY <2>3, ScanIsRight
  <2>4. CASE ScanThrows
    BY <2>4 DEF ScanThrows, ResultInv
  <2>5. CASE Materialise
    BY <2>5, MaterialiseIsRight
  <2>6. CASE FinalizeResult
    BY <2>6, FinalizeIsRight
  <2>7. CASE Done \/ UNCHANGED vars
    BY <2>7 DEF Done, vars, ResultInv, Answered
  <2> QED
    BY <2>1, <2>2, <2>3, <2>4, <2>5, <2>6, <2>7 DEF Next
<1> QED
  BY <1>1, <1>2, InsertedInvIsInductive, PTL DEF Spec

(* An INT32 column keeps its rows on the way from the pages of a table     *)
(* through value_t to the pages of a result, but for the negative integers *)
(* of a column with NULLs: whatever the widths of the fields, the size of  *)
(* a page and the number of boxes on one.                                  *)
THEOREM RowsReachTheResult == Spec => []RowsSurvive
<1>1. InsertedInv /\ ResultInv => RowsSurvive
  <2> SUFFICES ASSUME InsertedInv, ResultInv, phase = "done" PROVE RowsSurvive
    BY DEF RowsSurvive
  <2>1. Answered /\ next = Len(rows) /\ copy_scan(out.pages) = RowsOf(out)
    BY DEF ResultInv
  <2>2. Len(copy_scan(out.pages)) = Len(rows)
    BY <2>1 DEF Answered
  <2>3. ASSUME NEW r \in DOMAIN rows
        PROVE  rows[r] = Null \/ rows[r] >= 0 \/ ~HasNull => copy_scan(out.pages)[r] = rows[r]
    <3>1. rows \in Seq(Ints \cup {Null})
      BY RowsType DEF InsertedInv
    <3>2. r \in 1 .. next
      BY <2>1, <3>1
    <3> QED
      BY <2>1, <3>2 DEF Answered, Kept, HasNull
  <2> QED
    BY <2>2, <2>3 DEF RowsSurvive
<1> QED
  BY <1>1, InsertedInvIsInductive, ResultInvIsInductive, PTL
=============================================================================
