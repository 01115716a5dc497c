------------------------ MODULE VarcharColumnProofs ------------------------
(***************************************************************************)
(* Of VarcharColumn: whatever the rows and the page size, what is inserted *)
(* is read back from its pages, every reference leads to the string it was *)
(* made for, so that the result has the rows of the column, and on no page *)
(* do the offsets, the characters and the bitmap overlap.                  *)
(***************************************************************************)
EXTENDS VarcharColumn, Lemmas

Char == Nat \X Nat

(* The pages that are written: what they hold fits them. *)
ShortPage ==
    {p \in [kind : {"short"}, num_rows : Nat, offsets : Seq(Nat),
            data : Seq(Char), bitmap : SUBSET Nat] :
        4 + 2 * Len(p.offsets) + Len(p.data) + bytes(p.num_rows) <= PageSize}

LongPage ==
    {p \in [kind : {"first", "more"}, data : Seq(Char)] :
        4 + Len(p.data) <= PageSize}

Page == ShortPage \cup LongPage

Inserter == [pages : Seq(Page), num_rows : Nat, offsets : Seq(Nat),
             data : Seq(Char), bitmap : SUBSET Nat]

Sound(ins) ==
    /\ ins \in Inserter
    /\ used(ins) + bytes(ins.num_rows) <= PageSize

LEMMA SavePage ==
    ASSUME NEW ins, Sound(ins)
    PROVE  /\ Sound(save_page(ins))
           /\ save_page(ins).num_rows = 0
           /\ save_page(ins).offsets = <<>> /\ save_page(ins).data = <<>>
<1> DEFINE page == [kind    |-> "short", num_rows |-> ins.num_rows,
                    offsets |-> ins.offsets, data |-> ins.data,
                    bitmap  |-> {b \in ins.bitmap : b < 8 * bytes(ins.num_rows)}]
           saved == save_page(ins)
<1>1. page \in ShortPage
  BY DEF ShortPage, Sound, Inserter, used
<1>2. saved = [pages |-> Append(ins.pages, page), num_rows |-> 0, offsets |-> <<>>,
               data |-> <<>>, bitmap |-> ins.bitmap]
  <2>1. saved = [ins EXCEPT !.pages = Append(ins.pages, page), !.num_rows = 0,
                            !.offsets = <<>>, !.data = <<>>]
    BY DEF save_page
  <2> HIDE DEF page, saved
  <2>2. QED
    BY <2>1 DEF Sound, Inserter
<1> HIDE DEF page, saved
<1>3. saved \in Inserter
  BY <1>1, <1>2 DEF Sound, Inserter, Page
<1>4. used(saved) = 4 /\ bytes(saved.num_rows) = 0
  BY <1>2 DEF used, bytes
<1>5. Sound(saved)
  BY <1>3, <1>4, VarcharAssumption DEF Sound
<1>6. QED
  BY <1>2, <1>5 DEF saved

LEMMA FinalizeIsSound ==
    ASSUME NEW ins, Sound(ins)
    PROVE  Sound(finalize(ins))
BY SavePage DEF finalize

(* How many pages a string of L characters fills, size on each. *)
LEMMA Cuts ==
    ASSUME NEW size \in Nat \ {0}, NEW L \in Nat \ {0},
           NEW n, n = (L + size - 1) \div size
    PROVE  /\ n \in Nat \ {0}
           /\ \A j \in 0 .. n - 1 : j * size \in 0 .. L - 1
           /\ L <= n * size
<1>1. PICK a : a = L + size - 1
  OBVIOUS
<1>2. a \in Nat /\ n = a \div size
  BY <1>1
<1>3. n \in Nat /\ a % size \in 0 .. size - 1 /\ a = size * n + (a % size)
  BY <1>2, DivMod
<1>4. PICK r \in 0 .. size - 1 : r = a % size
  BY <1>3
<1>5. PICK q \in Nat : q = n * size
  BY <1>3
<1>6. a = q + r
  <2>1. size * n = n * size
    BY <1>3
  <2> QED
    BY <1>3, <1>4, <1>5, <2>1
<1>7. n # 0
  <2>1. CASE n = 0
    <3>1. q = 0
      BY <1>5, <2>1
    <3> QED
      BY <1>1, <1>6, <3>1
  <2> QED
    BY <2>1
<1>8. ASSUME NEW j \in 0 .. n - 1 PROVE j * size \in 0 .. L - 1
  <2>1. j \in Nat /\ j < n
    BY <1>3
  <2>2. (j + 1) * size = j * size + size /\ (j + 1) * size <= n * size /\ j * size \in Nat
    BY <1>3, <2>1, MulStep
  <2>3. PICK x \in Nat : x = j * size
    BY <2>2
  <2>4. x + size <= q
    BY <1>5, <2>2, <2>3
  <2>5. x <= L - 1
    BY <1>1, <1>6, <2>4
  <2> QED
    BY <2>3, <2>5
<1> QED
  BY <1>1, <1>3, <1>5, <1>6, <1>7, <1>8

(* Where the first c pages of a long string end. *)
EndOf(value, c) == IF c * (PageSize - 4) < Len(value) THEN c * (PageSize - 4) ELSE Len(value)

PartOf(value, c) == SubSeq(value, (c - 1) * (PageSize - 4) + 1, EndOf(value, c))

(* The pages of a long string. *)
PartsOf(value, parts, n) ==
    /\ n \in Nat \ {0} /\ parts \in Seq(Page) /\ Len(parts) = n
    /\ \A c \in 1 .. n : /\ parts[c].kind = IF c = 1 THEN "first" ELSE "more"
                         /\ parts[c].data = PartOf(value, c)
    /\ \A c \in 0 .. n : EndOf(value, c) \in 0 .. Len(value)
    /\ \A c \in 1 .. n : /\ PartOf(value, c) = SubSeq(value, EndOf(value, c - 1) + 1, EndOf(value, c))
                         /\ EndOf(value, c - 1) <= EndOf(value, c)
    /\ EndOf(value, 0) = 0 /\ EndOf(value, n) = Len(value)

LEMMA LongParts ==
    ASSUME NEW ins, Sound(ins), NEW value \in Seq(Char), is_long(value)
    PROVE  \E parts, n :
             /\ PartsOf(value, parts, n)
             /\ save_long_string(ins, value) = [ins EXCEPT !.pages = ins.pages \o parts]
<1>1. PICK size \in Nat \ {0} : size = PageSize - 4
  <2>1. PageSize - 4 \in Nat \ {0}
    BY VarcharAssumption
  <2> QED
    BY <2>1
<1>2. PICK L \in Nat \ {0} : L = Len(value)
  <2>1. Len(value) \in Nat /\ Len(value) > PageSize - 7
    BY DEF is_long
  <2>2. Len(value) \in Nat \ {0}
    BY <2>1, VarcharAssumption
  <2> QED
    BY <2>2
<1>3. PICK n : n = (L + size - 1) \div size
  OBVIOUS
<1>4. /\ n \in Nat \ {0}
      /\ \A j \in 0 .. n - 1 : j * size \in 0 .. L - 1
      /\ L <= n * size
  BY <1>3, Cuts
<1>5. \A c : EndOf(value, c) = IF c * size < L THEN c * size ELSE L
  BY <1>1, <1>2 DEF EndOf
<1>6. \A j \in 0 .. n - 1 : EndOf(value, j) = j * size /\ EndOf(value, j) \in 0 .. L
  <2> SUFFICES ASSUME NEW j \in 0 .. n - 1
               PROVE  EndOf(value, j) = j * size /\ EndOf(value, j) \in 0 .. L
    OBVIOUS
  <2>1. j * size \in 0 .. L - 1
    BY <1>4
  <2>2. PICK x \in 0 .. L - 1 : x = j * size
    BY <2>1
  <2>3. EndOf(value, j) = IF x < L THEN x ELSE L
    BY <1>5, <2>2
  <2> QED
    BY <2>2, <2>3
<1>7. EndOf(value, n) = L
  <2>1. n * size \in Nat
    BY <1>4
  <2>2. PICK x \in Nat : x = n * size
    BY <2>1
  <2>3. EndOf(value, n) = IF x < L THEN x ELSE L
    BY <1>5, <2>2
  <2> QED
    BY <1>4, <2>2, <2>3
<1>8. \A c \in 0 .. n : EndOf(value, c) \in 0 .. L
  <2> SUFFICES ASSUME NEW c \in 0 .. n PROVE EndOf(value, c) \in 0 .. L
    OBVIOUS
  <2>1. c = n \/ c \in 0 .. n - 1
    BY <1>4
  <2> QED
    BY <1>6, <1>7, <2>1
<1>9. EndOf(value, 0) = 0
  <2>1. 0 \in 0 .. n - 1
    BY <1>4
  <2>2. EndOf(value, 0) = 0 * size
    BY <1>6, <2>1
  <2> QED
    BY <2>2
<1>10. ASSUME NEW c \in 1 .. n
       PROVE  /\ PartOf(value, c) = SubSeq(value, EndOf(value, c - 1) + 1, EndOf(value, c))
              /\ EndOf(value, c - 1) <= EndOf(value, c)
              /\ PartOf(value, c) \in Seq(Char)
              /\ Len(PartOf(value, c)) <= size
  <2>1. PICK j \in 0 .. n - 1 : j = c - 1
    BY <1>4
  <2>2. PICK x \in 0 .. L : x = j * size /\ EndOf(value, j) = x
    BY <1>6
  <2>3. PICK e \in 0 .. L : EndOf(value, c) = e
    BY <1>4, <1>8
  <2>4. c * size = x + size
    <3>1. j \in Nat /\ c = j + 1
      BY <1>4, <2>1
    <3>2. j < c /\ c \in Nat
      BY <3>1
    <3>3. (j + 1) * size = j * size + size
      BY <3>1, <3>2, MulStep
    <3> QED
      BY <2>2, <3>1, <3>3
  <2>5. e = IF x + size < L THEN x + size ELSE L
    BY <1>5, <2>3, <2>4
  <2>6. x <= e /\ e <= x + size
    BY <2>5
  <2>7. PartOf(value, c) = SubSeq(value, x + 1, e)
    BY <1>1, <2>1, <2>2, <2>3 DEF PartOf
  <2>8. \A i \in x + 1 .. e : value[i] \in Char
    BY <1>2
  <2>9. x + 1 \in Int /\ e \in Int
    OBVIOUS
  <2>10. /\ SubSeq(value, x + 1, e) \in Seq(Char)
         /\ Len(SubSeq(value, x + 1, e)) = IF x + 1 <= e THEN e - (x + 1) + 1 ELSE 0
    BY <2>8, <2>9, SubSeqProperties
  <2>11. Len(SubSeq(value, x + 1, e)) <= size
    BY <2>6, <2>10
  <2> QED
    BY <2>1, <2>2, <2>3, <2>6, <2>7, <2>10, <2>11
<1> DEFINE P == [c \in 1 .. n |-> [kind |-> IF c = 1 THEN "first" ELSE "more",
                                   data |-> PartOf(value, c)]]
<1>11. P \in Seq(Page) /\ Len(P) = n
  <2>1. ASSUME NEW c \in 1 .. n PROVE P[c] \in Page
    <3>1. PICK d : d = PartOf(value, c)
      OBVIOUS
    <3>2. d \in Seq(Char) /\ Len(d) <= PageSize - 4
      BY <1>1, <1>10, <3>1
    <3>3. 4 + Len(d) <= PageSize
      <4>1. Len(d) \in Nat
        BY <3>2
      <4> QED
        BY <3>2, <4>1, VarcharAssumption
    <3>4. PICK k \in {"first", "more"} : k = IF c = 1 THEN "first" ELSE "more"
      OBVIOUS
    <3>5. P[c] = [kind |-> k, data |-> d]
      BY <3>1, <3>4
    <3>6. [kind |-> k, data |-> d] \in LongPage
      BY <3>2, <3>3 DEF LongPage
    <3> QED
      BY <3>5, <3>6 DEF Page
  <2>2. P = [c \in 1 .. n |-> P[c]]
    OBVIOUS
  <2> HIDE DEF P
  <2> QED
    BY <1>4, <2>1, <2>2, IsSeq
<1>12. save_long_string(ins, value) = [ins EXCEPT !.pages = ins.pages \o P]
  BY <1>1, <1>2, <1>3 DEF save_long_string, PartOf, EndOf
<1>13. \A c \in 1 .. n : /\ P[c].kind = IF c = 1 THEN "first" ELSE "more"
                         /\ P[c].data = PartOf(value, c)
  OBVIOUS
<1> HIDE DEF P
<1>14. PartsOf(value, P, n)
  BY <1>2, <1>4, <1>7, <1>8, <1>9, <1>10, <1>11, <1>13 DEF PartsOf
<1> QED
  BY <1>12, <1>14

(* The parts of a long string are cut to the size of a page. *)
LEMMA SaveLongString ==
    ASSUME NEW ins, Sound(ins), NEW value \in Seq(Char), is_long(value)
    PROVE  Sound(save_long_string(ins, value))
<1>1. PICK parts, n :
         /\ PartsOf(value, parts, n)
         /\ save_long_string(ins, value) = [ins EXCEPT !.pages = ins.pages \o parts]
  BY LongParts
<1>2. PICK saved : saved = save_long_string(ins, value)
  OBVIOUS
<1>3. ins.pages \o parts \in Seq(Page)
  <2>1. parts \in Seq(Page)
    BY <1>1 DEF PartsOf
  <2> QED
    BY <2>1, ConcatProperties DEF Sound, Inserter
<1>4. saved = [pages |-> ins.pages \o parts, num_rows |-> ins.num_rows,
               offsets |-> ins.offsets, data |-> ins.data, bitmap |-> ins.bitmap]
  BY <1>1, <1>2 DEF Sound, Inserter
<1>5. Sound(saved)
  BY <1>3, <1>4 DEF Sound, Inserter, used
<1> QED
  BY <1>2, <1>5

(* insert checks for the room of the offset, the characters and the bit;   *)
(* a string that is not long has it on an empty page.                      *)
LEMMA InsertShort ==
    ASSUME NEW ins, Sound(ins), NEW value \in Seq(Char), ~is_long(value)
    PROVE  Sound(insert_short(ins, value))
<1> DEFINE full == used(ins) + 2 + Len(value) + ins.num_rows \div 8 + 1 > PageSize
           i == IF full THEN save_page(ins) ELSE ins
           r == insert_short(ins, value)
<1>1. Sound(i)
  BY SavePage
<1>2. /\ i.num_rows \in Nat /\ Len(i.offsets) \in Nat /\ Len(i.data) \in Nat
      /\ Len(value) \in Nat /\ used(i) \in Nat /\ i.num_rows \div 8 \in Nat
  <2>1. i.num_rows \in Nat /\ i.offsets \in Seq(Nat) /\ i.data \in Seq(Char)
    <3> HIDE DEF i
    <3>1. QED
      BY <1>1 DEF Sound, Inserter
  <2> HIDE DEF i, full, r
  <2>2. Len(i.offsets) \in Nat /\ Len(i.data) \in Nat
    BY <2>1
  <2>3. 4 + 2 * Len(i.offsets) + Len(i.data) \in Nat
    <3>1. \A a, b \in Nat : 4 + 2 * a + b \in Nat
      OBVIOUS
    <3>2. QED
      BY <2>2, <3>1
  <2>4. used(i) \in Nat
    BY <2>3 DEF used
  <2>5. i.num_rows \div 8 \in Nat
    BY <2>1
  <2>6. QED
    BY <2>1, <2>2, <2>4, <2>5
<1>3. used(i) + 2 + Len(value) + i.num_rows \div 8 + 1 <= PageSize
  <2>1. CASE full
    <3>1. i.num_rows = 0 /\ Len(i.offsets) = 0 /\ Len(i.data) = 0
      <4>1. i = save_page(ins)
        BY <2>1
      <4> HIDE DEF i
      <4>2. i.num_rows = 0 /\ i.offsets = <<>> /\ i.data = <<>>
        BY <4>1, SavePage
      <4>3. QED
        BY <4>2
    <3>2. used(i) = 4
      <4> HIDE DEF i
      <4>1. 4 + 2 * Len(i.offsets) + Len(i.data) = 4
        BY <3>1
      <4>2. QED
        BY <4>1 DEF used
    <3>3. i.num_rows \div 8 = 0
      <4> HIDE DEF i
      <4>1. QED
        BY <3>1
    <3>4. Len(value) <= PageSize - 7
      BY <1>2, VarcharAssumption DEF is_long
    <3> HIDE DEF i
    <3>5. QED
      BY <1>2, <3>2, <3>3, <3>4, VarcharAssumption
  <2>2. CASE ~full
    <3>1. i = ins
      BY <2>2
    <3>2. ~(used(i) + 2 + Len(value) + i.num_rows \div 8 + 1 > PageSize)
      BY <2>2, <3>1
    <3> HIDE DEF i, full
    <3>3. QED
      BY <1>2, <3>2, VarcharAssumption
  <2>3. QED
    BY <2>1, <2>2
<1>4. r = [i EXCEPT !.data = i.data \o value,
                    !.offsets = Append(i.offsets, Len(i.data) + Len(value)),
                    !.bitmap = i.bitmap \cup {i.num_rows},
                    !.num_rows = i.num_rows + 1]
  BY DEF insert_short
<1> HIDE DEF i, r, full
<1>5. r = [pages |-> i.pages, num_rows |-> i.num_rows + 1,
           offsets |-> Append(i.offsets, Len(i.data) + Len(value)),
           data |-> i.data \o value, bitmap |-> i.bitmap \cup {i.num_rows}]
  BY <1>1, <1>4 DEF Sound, Inserter
<1>6. r \in Inserter
  <2>1. /\ i.pages \in Seq(Page) /\ i.offsets \in Seq(Nat)
        /\ i.data \in Seq(Char) /\ i.bitmap \in SUBSET Nat
    BY <1>1 DEF Sound, Inserter
  <2>2. i.data \o value \in Seq(Char)
    BY <2>1, ConcatProperties
  <2>3. Append(i.offsets, Len(i.data) + Len(value)) \in Seq(Nat)
    <3>1. Len(i.data) + Len(value) \in Nat
      BY <1>2
    <3>2. QED
      BY <2>1, <3>1
  <2>4. i.num_rows + 1 \in Nat /\ i.bitmap \cup {i.num_rows} \in SUBSET Nat
    BY SMTT(30), <1>2, <2>1
  <2>5. QED
    BY <1>5, <2>1, <2>2, <2>3, <2>4 DEF Inserter
<1>7. used(r) = used(i) + 2 + Len(value)
  <2>1. Len(r.data) = Len(i.data) + Len(value)
    BY <1>1, <1>5, ConcatProperties DEF Sound, Inserter
  <2>2. Len(r.offsets) = Len(i.offsets) + 1
    BY <1>1, <1>2, <1>5 DEF Sound, Inserter
  <2> DEFINE o == Len(i.offsets)
             d == Len(i.data)
             v == Len(value)
  <2>3. 4 + 2 * (o + 1) + (d + v) = 4 + 2 * o + d + 2 + v
    <3>1. o \in Nat /\ d \in Nat /\ v \in Nat
      BY <1>2
    <3> HIDE DEF o, d, v
    <3>2. QED
      BY <3>1
  <2>4. QED
    BY <2>1, <2>2, <2>3 DEF used
<1>8. bytes(r.num_rows) = i.num_rows \div 8 + 1
  BY <1>2, <1>5 DEF bytes
<1>9. used(r) + bytes(r.num_rows) <= PageSize
  BY <1>2, <1>3, <1>7, <1>8, VarcharAssumption
<1>10. Sound(r)
  BY <1>6, <1>9 DEF Sound
<1>11. QED
  BY <1>10 DEF r

LEMMA InsertIsSound ==
    ASSUME NEW ins, Sound(ins), NEW value \in Seq(Char)
    PROVE  Sound(insert(ins, value))
BY FinalizeIsSound, SaveLongString, InsertShort DEF insert

(* insert_null checks for the room that its bit takes. *)
LEMMA InsertNullIsSound ==
    ASSUME NEW ins, Sound(ins)
    PROVE  Sound(insert_null(ins))
<1> DEFINE full == used(ins) + ins.num_rows \div 8 + 1 > PageSize
           i == IF full THEN save_page(ins) ELSE ins
           r == insert_null(ins)
<1>1. Sound(i)
  BY SavePage
<1>2. i.num_rows \in Nat /\ used(i) \in Nat /\ i.num_rows \div 8 \in Nat
  <2>1. i.num_rows \in Nat /\ i.offsets \in Seq(Nat) /\ i.data \in Seq(Char)
    <3> HIDE DEF i
    <3>1. QED
      BY <1>1 DEF Sound, Inserter
  <2> HIDE DEF i, full, r
  <2>2. Len(i.offsets) \in Nat /\ Len(i.data) \in Nat
    BY <2>1
  <2>3. 4 + 2 * Len(i.offsets) + Len(i.data) \in Nat
    <3>1. \A a, b \in Nat : 4 + 2 * a + b \in Nat
      OBVIOUS
    <3>2. QED
      BY <2>2, <3>1
  <2>4. used(i) \in Nat
    BY <2>3 DEF used
  <2>5. i.num_rows \div 8 \in Nat
    BY <2>1
  <2>6. QED
    BY <2>1, <2>2, <2>4, <2>5
<1>3. used(i) + i.num_rows \div 8 + 1 <= PageSize
  <2>1. CASE full
    <3>1. i.num_rows = 0 /\ Len(i.offsets) = 0 /\ Len(i.data) = 0
      <4>1. i = save_page(ins)
        BY <2>1
      <4> HIDE DEF i
      <4>2. i.num_rows = 0 /\ i.offsets = <<>> /\ i.data = <<>>
        BY <4>1, SavePage
      <4>3. QED
        BY <4>2
    <3>2. used(i) = 4
      <4> HIDE DEF i
      <4>1. 4 + 2 * Len(i.offsets) + Len(i.data) = 4
        BY <3>1
      <4>2. QED
        BY <4>1 DEF used
    <3>3. i.num_rows \div 8 = 0
      <4> HIDE DEF i
      <4>1. QED
        BY <3>1
    <3> HIDE DEF i
    <3>4. QED
      BY <3>2, <3>3, VarcharAssumption
  <2>2. CASE ~full
    <3>1. i = ins
      BY <2>2
    <3>2. ~(used(i) + i.num_rows \div 8 + 1 > PageSize)
      BY <2>2, <3>1
    <3> HIDE DEF i, full
    <3>3. QED
      BY <1>2, <3>2, VarcharAssumption
  <2>3. QED
    BY <2>1, <2>2
<1>4. r = [i EXCEPT !.bitmap = i.bitmap \ {i.num_rows}, !.num_rows = i.num_rows + 1]
  BY DEF insert_null
<1> HIDE DEF i, r, full
<1>5. r = [pages |-> i.pages, num_rows |-> i.num_rows + 1, offsets |-> i.offsets,
           data |-> i.data, bitmap |-> i.bitmap \ {i.num_rows}]
  BY <1>1, <1>4 DEF Sound, Inserter
<1>6. r \in Inserter /\ used(r) = used(i)
  BY SMTT(30), <1>1, <1>2, <1>5 DEF Sound, Inserter, used
<1>7. bytes(r.num_rows) = i.num_rows \div 8 + 1
  BY <1>2, <1>5 DEF bytes
<1>8. Sound(r)
  BY <1>2, <1>3, <1>6, <1>7, VarcharAssumption DEF Sound
<1>9. QED
  BY <1>8 DEF r

LEMMA StringsAreSequences ==
    ASSUME NEW r \in Nat, NEW length \in Nat
    PROVE  String(r, length) \in Seq(Char)
BY DEF String, Char

LEMMA EmptyIsSound == Sound(NoRows)
<1>1. NoRows \in Inserter
  BY DEF NoRows, Inserter
<1>2. used(NoRows) = 4 /\ bytes(NoRows.num_rows) = 0
  BY DEF NoRows, used, bytes
<1>3. QED
  BY <1>1, <1>2, VarcharAssumption DEF Sound

-----------------------------------------------------------------------------
(* Reading a page: what cell and page_rows give for a page of short        *)
(* strings, or for the page that an inserter has begun.                    *)

(* The offsets are the ends of the strings of the rows that have one. *)
IsPage(page) ==
    /\ page.num_rows \in Nat /\ page.bitmap \in SUBSET Nat
    /\ page.offsets \in Seq(Nat) /\ page.data \in Seq(Char)
    /\ Len(page.offsets) = Cardinality({b \in page.bitmap : b < page.num_rows})
    /\ \A i, j \in 1 .. Len(page.offsets) : i <= j => page.offsets[i] <= page.offsets[j]
    /\ \A i \in 1 .. Len(page.offsets) : page.offsets[i] <= Len(page.data)
    /\ prev_offset(page, Len(page.offsets)) = Len(page.data)

Row == Seq(Char) \cup {Null}

LEMMA RowNotNull == Null \notin Seq(Char) /\ <<>> \in Row
BY VarcharAssumption DEF Row, Char

(* The end of the string of a row is an offset, and not before its start. *)
LEMMA CellInData ==
    ASSUME NEW page, IsPage(page), NEW i \in Nat, i < page.num_rows, i \in page.bitmap,
           NEW d, d = data_idx(page, i)
    PROVE  /\ d \in Nat /\ d + 1 \in 1 .. Len(page.offsets)
           /\ prev_offset(page, d) \in Nat
           /\ prev_offset(page, d) <= page.offsets[d + 1]
           /\ page.offsets[d + 1] \in 0 .. Len(page.data)
<1> DEFINE A == {k \in page.bitmap : k < i}
           B == {b \in page.bitmap : b < page.num_rows}
<1>1. page.num_rows \in Nat /\ page.bitmap \in SUBSET Nat /\ Len(page.offsets) = Cardinality(B)
  BY DEF IsPage
<1>2. IsFiniteSet(B) /\ Cardinality(B) \in Nat
  BY <1>1, BitsBefore
<1>3. A \in SUBSET B /\ i \in B /\ i \notin A
  BY <1>1
<1>4. d = Cardinality(A)
  BY DEF data_idx
<1> HIDE DEF A, B
<1>5. Cardinality(A) \in Nat /\ Cardinality(A) + 1 <= Cardinality(B)
  BY <1>2, <1>3, OneMore
<1>6. d \in Nat /\ d + 1 \in 1 .. Len(page.offsets)
  BY <1>1, <1>2, <1>4, <1>5
<1>7. PICK o : o = page.offsets
  OBVIOUS
<1>8. PICK n \in Nat : n = Len(page.data)
  BY DEF IsPage
<1>9. /\ o \in Seq(Nat) /\ \A x, y \in 1 .. Len(o) : x <= y => o[x] <= o[y]
      /\ \A x \in 1 .. Len(o) : o[x] <= n
      /\ d + 1 \in 1 .. Len(o)
  BY <1>6, <1>7, <1>8 DEF IsPage
<1>10. o[d + 1] \in 0 .. n
  BY <1>9
<1>11. prev_offset(page, d) = IF d = 0 THEN 0 ELSE o[d]
  BY <1>7 DEF prev_offset
<1>12. prev_offset(page, d) \in Nat /\ prev_offset(page, d) <= o[d + 1]
  <2>1. CASE d = 0
    BY <1>10, <1>11, <2>1
  <2>2. CASE d # 0
    <3>1. d \in 1 .. Len(o) /\ d <= d + 1
      BY <1>6, <1>9, <2>2
    <3>2. PICK e \in 1 .. Len(o) : e = d + 1
      BY <1>9
    <3>3. d <= e
      BY <1>6, <3>2
    <3>4. o[d] \in Nat /\ o[d] <= o[e]
      <4>1. \A x, y \in 1 .. Len(o) : x <= y => o[x] <= o[y]
        BY <1>9
      <4>2. o[d] \in Nat
        <5>1. o \in Seq(Nat)
          BY <1>9
        <5> QED
          BY ONLY <3>1, <5>1
      <4> QED
        BY ONLY <3>1, <3>3, <4>1, <4>2, e \in 1 .. Len(o)
    <3> QED
      BY <1>11, <2>2, <3>2, <3>4
  <2> QED
    BY <2>1, <2>2
<1> QED
  BY <1>6, <1>7, <1>8, <1>10, <1>12

(* A part of the characters is a string. *)
LEMMA PartIsString ==
    ASSUME NEW V, NEW s \in Seq(V), NEW a \in Nat, NEW b \in 0 .. Len(s)
    PROVE  SubSeq(s, a + 1, b) \in Seq(V)
<1>1. \A i \in a + 1 .. b : s[i] \in V
  OBVIOUS
<1> QED
  BY <1>1, SubSeqProperties

LEMMA PageRowsType ==
    ASSUME NEW page, IsPage(page)
    PROVE  /\ page_rows(page) \in Seq(Row) /\ Len(page_rows(page)) = page.num_rows
           /\ \A i \in 1 .. page.num_rows : page_rows(page)[i] = cell(page, i - 1)
<1>1. page.num_rows \in Nat /\ page.data \in Seq(Char)
  BY DEF IsPage
<1>2. ASSUME NEW i \in 1 .. page.num_rows
      PROVE  cell(page, i - 1) \in Row
  <2>1. PICK j \in Nat : j = i - 1 /\ j < page.num_rows
    BY <1>1
  <2>2. CASE j \in page.bitmap
    <3>1. PICK d : d = data_idx(page, j)
      OBVIOUS
    <3>2. /\ prev_offset(page, d) \in Nat
          /\ page.offsets[d + 1] \in 0 .. Len(page.data)
      BY <2>1, <2>2, <3>1, CellInData
    <3>3. cell(page, j) = SubSeq(page.data, prev_offset(page, d) + 1, page.offsets[d + 1])
      BY <2>2, <3>1 DEF cell
    <3>4. cell(page, j) \in Seq(Char)
      BY <1>1, <3>2, <3>3, PartIsString
    <3> QED
      BY <2>1, <3>4 DEF Row
  <2>3. CASE j \notin page.bitmap
    BY <2>1, <2>3 DEF cell, Row
  <2> QED
    BY <2>2, <2>3
<1>3. PICK n \in Nat : n = page.num_rows
  BY <1>1
<1>4. PICK f : f = page_rows(page)
  OBVIOUS
<1>5. f = [i \in 1 .. n |-> cell(page, i - 1)]
  BY <1>3, <1>4 DEF page_rows
<1>6. \A i \in 1 .. n : f[i] = cell(page, i - 1)
  BY <1>5
<1>7. \A i \in 1 .. n : f[i] \in Row
  BY <1>2, <1>3, <1>6
<1>8. f \in Seq(Row) /\ Len(f) = n
  <2>1. f = [i \in 1 .. n |-> f[i]]
    BY <1>5
  <2> QED
    BY <1>7, <2>1, IsSeq
<1> QED
  BY <1>3, <1>4, <1>6, <1>8

(* Pages with the same strings and the same bits for their rows. *)
LEMMA SameCells ==
    ASSUME NEW page, IsPage(page), NEW new, new.data = page.data,
           new.offsets = page.offsets,
           new.bitmap \in SUBSET Nat, new.num_rows = page.num_rows,
           \A b \in Nat : b < page.num_rows => (b \in new.bitmap <=> b \in page.bitmap)
    PROVE  IsPage(new) /\ page_rows(new) = page_rows(page)
<1>1. PICK n \in Nat : n = page.num_rows
  BY DEF IsPage
<1>2. page.bitmap \in SUBSET Nat /\ new.num_rows = n
  BY <1>1 DEF IsPage
<1>3. ASSUME NEW i \in 0 .. n
      PROVE  {k \in new.bitmap : k < i} = {k \in page.bitmap : k < i}
  BY <1>1, <1>2
<1>4. \A d : prev_offset(new, d) = prev_offset(page, d)
  BY DEF prev_offset
<1>5. IsPage(new)
  <2>1. {k \in new.bitmap : k < n} = {k \in page.bitmap : k < n}
    BY <1>3
  <2> QED
    BY <1>1, <1>2, <1>4, <2>1 DEF IsPage
<1>6. ASSUME NEW i \in 1 .. n
      PROVE  cell(new, i - 1) = cell(page, i - 1)
  <2>1. PICK j \in Nat : j = i - 1 /\ j < n
    OBVIOUS
  <2>2. {k \in new.bitmap : k < j} = {k \in page.bitmap : k < j}
    BY <1>3, <2>1
  <2>3. j \in new.bitmap <=> j \in page.bitmap
    BY <1>1, <2>1
  <2>4. data_idx(new, j) = data_idx(page, j)
    BY <2>2 DEF data_idx
  <2> QED
    BY <1>4, <2>1, <2>3, <2>4 DEF cell
<1> QED
  BY <1>1, <1>2, <1>5, <1>6 DEF page_rows

(* The rows of a page that has got one more. *)
LEMMA OneRowMore ==
    ASSUME NEW page, IsPage(page), NEW new, IsPage(new), NEW v \in Row,
           NEW n, n = page.num_rows, new.num_rows = n + 1,
           \A i \in Nat : i < n => cell(new, i) = cell(page, i),
           cell(new, n) = v
    PROVE  page_rows(new) = Append(page_rows(page), v)
<1>1. n \in Nat
  BY DEF IsPage
<1>2. PICK a : a = page_rows(page)
  OBVIOUS
<1>3. PICK b : b = page_rows(new)
  OBVIOUS
<1>4. /\ a \in Seq(Row) /\ Len(a) = n
      /\ \A i \in 1 .. n : a[i] = cell(page, i - 1)
  BY <1>2, PageRowsType
<1>5. /\ b \in Seq(Row) /\ Len(b) = n + 1
      /\ \A i \in 1 .. n + 1 : b[i] = cell(new, i - 1)
  BY <1>3, PageRowsType
<1>6. \A i \in 1 .. n : b[i] = a[i]
  <2> SUFFICES ASSUME NEW i \in 1 .. n PROVE b[i] = a[i]
    OBVIOUS
  <2>1. i - 1 \in Nat /\ i - 1 < n /\ i \in 1 .. n + 1
    BY <1>1
  <2>2. cell(new, i - 1) = cell(page, i - 1)
    BY <2>1
  <2> QED
    BY <1>4, <1>5, <2>1, <2>2
<1>7. b[n + 1] = v
  BY <1>1, <1>5
<1>8. /\ Append(a, v) \in Seq(Row) /\ Len(Append(a, v)) = n + 1
      /\ \A i \in 1 .. n : Append(a, v)[i] = a[i]
      /\ Append(a, v)[n + 1] = v
  BY <1>4
<1>9. \A i \in 1 .. n + 1 : b[i] = Append(a, v)[i]
  BY <1>1, <1>6, <1>7, <1>8
<1> QED
  BY <1>2, <1>3, <1>5, <1>8, <1>9, EqualSeqs

(* A string put behind the others is read as it is, and those before it as *)
(* before.                                                                 *)
LEMMA PushString ==
    ASSUME NEW page, IsPage(page), NEW value \in Seq(Char), NEW new,
           new.data = page.data \o value,
           new.offsets = Append(page.offsets, Len(page.data) + Len(value)),
           new.bitmap = page.bitmap \cup {page.num_rows},
           new.num_rows = page.num_rows + 1
    PROVE  IsPage(new) /\ page_rows(new) = Append(page_rows(page), value)
<1>1. PICK n \in Nat : n = page.num_rows
  BY DEF IsPage
<1>2. PICK l \in Nat : l = Len(page.data)
  BY DEF IsPage
<1>3. PICK k \in Nat : k = Len(value)
  OBVIOUS
<1>4. PICK o \in Seq(Nat) : o = page.offsets
  BY DEF IsPage
<1>5. PICK m \in Nat : m = Len(o)
  OBVIOUS
<1>6. /\ page.data \in Seq(Char) /\ page.bitmap \in SUBSET Nat
      /\ m = Cardinality({b \in page.bitmap : b < n})
      /\ \A x, y \in 1 .. m : x <= y => o[x] <= o[y]
      /\ \A x \in 1 .. m : o[x] <= l
      /\ prev_offset(page, m) = l
  BY <1>1, <1>2, <1>4, <1>5 DEF IsPage
<1>7. PICK p : p = new.offsets
  OBVIOUS
<1>8. /\ p \in Seq(Nat) /\ Len(p) = m + 1 /\ p[m + 1] = l + k
      /\ \A x \in 1 .. m : p[x] = o[x]
  <2>1. p = Append(o, l + k)
    BY <1>2, <1>3, <1>4, <1>7
  <2>2. l + k \in Nat
    OBVIOUS
  <2> QED
    BY ONLY <2>1, <2>2, <1>5, o \in Seq(Nat)
<1>9. new.data \in Seq(Char) /\ Len(new.data) = l + k
  BY <1>2, <1>3, <1>6, ConcatenationAt
<1>10. new.num_rows = n + 1 /\ new.bitmap = page.bitmap \cup {n}
  BY <1>1
<1>11. ASSUME NEW i \in 0 .. n
       PROVE  data_idx(new, i) = data_idx(page, i)
  <2>1. {b \in new.bitmap : b < i} = {b \in page.bitmap : b < i}
    BY <1>10
  <2> QED
    BY <2>1 DEF data_idx
<1>12. Cardinality({b \in new.bitmap : b < n + 1}) = m + 1
  <2>1. PICK A : A = {b \in page.bitmap : b < n}
    OBVIOUS
  <2>2. PICK B : B = {b \in new.bitmap : b < n + 1}
    OBVIOUS
  <2>3. \A b \in page.bitmap : b \in Nat
    BY <1>6
  <2>4. new.bitmap = page.bitmap \cup {n}
    BY <1>10
  <2>5. B = A \cup {n}
    <3>1. \A b \in page.bitmap : b < n + 1 => b < n \/ b = n
      BY <2>3
    <3>2. \A b \in page.bitmap : b < n => b < n + 1
      BY <2>3
    <3>3. n < n + 1
      OBVIOUS
    <3> QED
      BY <2>1, <2>2, <2>4, <3>1, <3>2, <3>3
  <2>6. IsFiniteSet(A)
    BY <1>6, <2>1, BitsBefore
  <2>7. n \notin A
    BY <2>1
  <2>8. Cardinality(B) = Cardinality(A) + 1
    BY <2>5, <2>6, <2>7, FS_AddElement
  <2> QED
    BY <1>6, <2>1, <2>2, <2>8
<1>13. \A x \in 0 .. m : prev_offset(new, x) = prev_offset(page, x)
  <2> SUFFICES ASSUME NEW x \in 0 .. m PROVE prev_offset(new, x) = prev_offset(page, x)
    OBVIOUS
  <2>1. x = 0 \/ x \in 1 .. m
    OBVIOUS
  <2> QED
    BY <1>4, <1>7, <1>8, <2>1 DEF prev_offset
<1>14. IsPage(new)
  <2>1. \A x, y \in 1 .. m + 1 : x <= y => p[x] <= p[y]
    <3> SUFFICES ASSUME NEW x \in 1 .. m + 1, NEW y \in 1 .. m + 1, x <= y
                 PROVE  p[x] <= p[y]
      OBVIOUS
    <3>1. CASE y = m + 1
      <4>1. p[y] = l + k
        BY <1>8, <3>1
      <4>2. x = m + 1 \/ x \in 1 .. m
        OBVIOUS
      <4>3. x \in 1 .. m => p[x] \in Nat /\ p[x] <= l
        <5>1. x \in 1 .. m => o[x] \in Nat
          BY ONLY <1>5, o \in Seq(Nat)
        <5> QED
          BY <1>6, <1>8, <5>1
      <4> QED
        BY <4>1, <4>2, <4>3
    <3>2. CASE y # m + 1
      <4>1. x \in 1 .. m /\ y \in 1 .. m
        BY <3>2
      <4> QED
        BY <1>6, <1>8, <4>1
    <3> QED
      BY <3>1, <3>2
  <2>2. \A x \in 1 .. m + 1 : p[x] <= l + k
    <3>1. ASSUME NEW x \in 1 .. m + 1 PROVE p[x] <= p[m + 1]
      BY <2>1
    <3> QED
      BY <1>8, <3>1
  <2>3. prev_offset(new, m + 1) = l + k
    BY <1>7, <1>8 DEF prev_offset
  <2>4. new.num_rows \in Nat /\ new.bitmap \in SUBSET Nat
    BY <1>6, <1>10
  <2>5. Len(p) = Cardinality({b \in new.bitmap : b < new.num_rows})
    BY <1>8, <1>10, <1>12
  <2> QED
    BY <1>7, <1>8, <1>9, <2>1, <2>2, <2>3, <2>4, <2>5 DEF IsPage
<1>15. ASSUME NEW i \in Nat, i < n
       PROVE  cell(new, i) = cell(page, i)
  <2>1. CASE i \in page.bitmap
    <3>1. PICK d : d = data_idx(page, i)
      OBVIOUS
    <3>2. /\ d \in Nat /\ d + 1 \in 1 .. m
          /\ prev_offset(page, d) \in Nat /\ o[d + 1] \in 0 .. l
      BY <1>1, <1>2, <1>4, <1>5, <1>15, <2>1, <3>1, CellInData
    <3>3. cell(page, i) = SubSeq(page.data, prev_offset(page, d) + 1, o[d + 1])
      BY <1>4, <2>1, <3>1 DEF cell
    <3>4. data_idx(new, i) = d /\ i \in new.bitmap
      BY <1>10, <1>11, <1>15, <2>1, <3>1
    <3>5. cell(new, i) = SubSeq(new.data, prev_offset(new, d) + 1, p[d + 1])
      BY <1>7, <3>4 DEF cell
    <3>6. p[d + 1] = o[d + 1] /\ prev_offset(new, d) = prev_offset(page, d)
      BY <1>8, <1>13, <3>2
    <3>7. PICK s \in Nat : s = prev_offset(page, d)
      BY <3>2
    <3>8. PICK e \in 0 .. l : e = o[d + 1]
      BY <3>2
    <3>9. SubSeq(page.data \o value, s + 1, e) = SubSeq(page.data, s + 1, e)
      <4>1. PICK a : a = page.data
        OBVIOUS
      <4>2. a \in Seq(Char)
        BY <1>6, <4>1
      <4>3. e \in 0 .. Len(a)
        BY <1>2, <4>1
      <4>4. SubSeq(a \o value, s + 1, e) = SubSeq(a, s + 1, e)
        BY ONLY <4>2, <4>3, s \in Nat, value \in Seq(Char), PartOfConcat
      <4> QED
        BY <4>1, <4>4
    <3> QED
      BY <3>3, <3>5, <3>6, <3>7, <3>8, <3>9
  <2>2. CASE i \notin page.bitmap
    <3>1. i \notin new.bitmap
      BY <1>10, <1>15, <2>2
    <3> QED
      BY <2>2, <3>1 DEF cell
  <2> QED
    BY <2>1, <2>2
<1>16. cell(new, n) = value
  <2>1. n \in new.bitmap /\ data_idx(new, n) = m
    <3>1. n \in 0 .. n
      OBVIOUS
    <3>2. data_idx(new, n) = data_idx(page, n)
      BY ONLY <1>11, <3>1
    <3>3. data_idx(page, n) = m
      BY <1>6 DEF data_idx
    <3> QED
      BY <1>10, <3>2, <3>3
  <2>2. prev_offset(new, m) = l
    <3>1. m \in 0 .. m
      OBVIOUS
    <3>2. prev_offset(new, m) = prev_offset(page, m)
      BY ONLY <1>13, <3>1
    <3> QED
      BY <1>6, <3>2
  <2>3. cell(new, n) = SubSeq(page.data \o value, l + 1, l + k)
    BY <1>7, <1>8, <2>1, <2>2 DEF cell
  <2>4. SubSeq(page.data \o value, l + 1, l + k) = value
    <3>1. 0 \in Nat /\ 0 \in 0 .. Len(page.data)
      BY <1>2
    <3>2. SubSeq(page.data \o value, Len(page.data) + 1, Len(page.data) + Len(value)) = value
      <4>1. page.data \in Seq(Char)
        BY <1>6
      <4> QED
        BY ONLY ZenonT(60), <3>1, <4>1, value \in Seq(Char), PartOfConcat
    <3> QED
      BY <1>2, <1>3, <3>2
  <2> QED
    BY <2>3, <2>4
<1> QED
  BY <1>1, <1>10, <1>14, <1>15, <1>16, OneRowMore DEF Row

(* A row without a value adds no string, whatever its bit was. *)
LEMMA PushNull ==
    ASSUME NEW page, IsPage(page), NEW new,
           new.data = page.data, new.offsets = page.offsets,
           new.bitmap = page.bitmap \ {page.num_rows},
           new.num_rows = page.num_rows + 1
    PROVE  IsPage(new) /\ page_rows(new) = Append(page_rows(page), Null)
<1>1. PICK n \in Nat : n = page.num_rows
  BY DEF IsPage
<1>2. page.bitmap \in SUBSET Nat
  BY DEF IsPage
<1>3. new.num_rows = n + 1 /\ new.bitmap = page.bitmap \ {n}
  BY <1>1
<1>4. ASSUME NEW i \in 0 .. n
      PROVE  data_idx(new, i) = data_idx(page, i)
  <2>1. {b \in new.bitmap : b < i} = {b \in page.bitmap : b < i}
    BY <1>3
  <2> QED
    BY <2>1 DEF data_idx
<1>5. \A d : prev_offset(new, d) = prev_offset(page, d)
  BY DEF prev_offset
<1>6. IsPage(new)
  <2>1. {b \in new.bitmap : b < n + 1} = {b \in page.bitmap : b < n}
    BY <1>2, <1>3
  <2>2. new.num_rows \in Nat /\ new.bitmap \in SUBSET Nat
    BY <1>2, <1>3
  <2>3. Len(new.offsets) = Cardinality({b \in new.bitmap : b < new.num_rows})
    BY <1>1, <1>3, <2>1 DEF IsPage
  <2> QED
    BY <1>5, <2>2, <2>3 DEF IsPage
<1>7. ASSUME NEW i \in Nat, i < n
      PROVE  cell(new, i) = cell(page, i)
  <2>1. data_idx(new, i) = data_idx(page, i)
    BY <1>4, <1>7
  <2>2. i \in new.bitmap <=> i \in page.bitmap
    BY <1>3, <1>7
  <2> QED
    BY <1>5, <2>1, <2>2 DEF cell
<1>8. cell(new, n) = Null
  <2>1. n \notin new.bitmap
    BY <1>3
  <2> QED
    BY <2>1 DEF cell
<1> QED
  BY <1>1, <1>3, <1>6, <1>7, <1>8, OneRowMore DEF Row

-----------------------------------------------------------------------------
(* Reading pages one after the other.                                      *)

(* The steps of copy_scan: what has been read after each page. *)
IsRead(h, pages) ==
    /\ h[0] = <<>>
    /\ \A m \in 1 .. Len(pages) : h[m] = read_page(h[m - 1], pages[m])

LEMMA ReadSteps ==
    ASSUME NEW pages, Len(pages) \in Nat
    PROVE  \E h : IsRead(h, pages) /\ copy_scan(pages) = h[Len(pages)]
<1> DEFINE IsFn(g, k) == g = [m \in 0 .. k |-> IF m = 0 THEN <<>>
                                               ELSE read_page(g[m - 1], pages[m])]
           K == {k \in Nat : \E g : IsFn(g, k)}
<1>1. PICK n \in Nat : n = Len(pages)
  OBVIOUS
<1>2. 0 \in K
  <2> DEFINE g == [m \in 0 .. 0 |-> <<>>]
  <2>1. IsFn(g, 0)
    OBVIOUS
  <2> QED
    BY <2>1
<1>3. ASSUME NEW k \in Nat, k \in K PROVE k + 1 \in K
  <2>1. PICK f : IsFn(f, k)
    BY <1>3
  <2> DEFINE g == [m \in 0 .. k + 1 |-> IF m <= k THEN f[m] ELSE read_page(f[k], pages[k + 1])]
  <2>2. ASSUME NEW m \in 0 .. k + 1
        PROVE  g[m] = IF m = 0 THEN <<>> ELSE read_page(g[m - 1], pages[m])
    <3>1. CASE m <= k
      <4>1. g[m] = f[m] /\ m \in 0 .. k
        BY <3>1
      <4>2. f[m] = IF m = 0 THEN <<>> ELSE read_page(f[m - 1], pages[m])
        BY <2>1, <4>1
      <4>3. m # 0 => g[m - 1] = f[m - 1]
        BY <3>1
      <4> QED
        BY <4>1, <4>2, <4>3
    <3>2. CASE m = k + 1
      <4>1. m - 1 = k /\ m # 0 /\ ~(m <= k)
        BY <3>2
      <4>2. g[m] = read_page(f[k], pages[k + 1]) /\ g[m - 1] = f[k]
        BY <4>1
      <4> HIDE DEF g
      <4> QED
        BY <3>2, <4>1, <4>2
    <3> QED
      BY <3>1, <3>2
  <2>3. IsFn(g, k + 1)
    BY <2>2
  <2> HIDE DEF g, IsFn
  <2> QED
    BY <2>3
<1>4. Nat \subseteq K
  <2> HIDE DEF K
  <2> QED
    BY <1>2, <1>3, NatSet
<1>5. \E g : IsFn(g, n)
  BY <1>4
<1>6. PICK r : r = CHOOSE g : IsFn(g, n)
  OBVIOUS
<1>7. IsFn(r, n)
  <2> HIDE DEF IsFn
  <2> QED
    BY <1>5, <1>6
<1>8. copy_scan(pages) = r[n]
  BY <1>1, <1>6 DEF copy_scan
<1>9. IsRead(r, pages)
  BY <1>1, <1>7 DEF IsRead
<1> QED
  BY <1>1, <1>8, <1>9

(* Pages that begin with the same pages are read alike that far. *)
LEMMA ReadPrefix ==
    ASSUME NEW a, NEW b, Len(a) \in Nat, Len(b) \in Nat, Len(a) <= Len(b),
           \A m \in 1 .. Len(a) : a[m] = b[m],
           NEW g, IsRead(g, a), NEW h, IsRead(h, b)
    PROVE  \A m \in 0 .. Len(a) : g[m] = h[m]
<1> DEFINE E == {m \in Nat : g[m] = h[m]}
<1>1. PICK n \in Nat : n = Len(a)
  OBVIOUS
<1>2. 0 \in E
  BY DEF IsRead
<1>3. ASSUME NEW m \in 0 .. n - 1, m \in E PROVE m + 1 \in E
  <2>1. PICK k \in 1 .. n : k = m + 1 /\ k - 1 = m
    OBVIOUS
  <2>2. k \in 1 .. Len(b)
    BY <1>1
  <2>3. g[k] = read_page(g[k - 1], a[k]) /\ h[k] = read_page(h[k - 1], b[k])
    BY <1>1, <2>2 DEF IsRead
  <2>4. g[m] = h[m] /\ a[k] = b[k]
    BY <1>1, <1>3
  <2>5. g[k] = h[k]
    BY <2>1, <2>3, <2>4
  <2> QED
    BY <2>1, <2>5
<1>4. \A m \in 0 .. n : m \in E
  <2> HIDE DEF E
  <2> QED
    BY <1>2, <1>3, UpTo
<1> QED
  BY <1>1, <1>4

LEMMA ReadsAre ==
    ASSUME NEW pages, Len(pages) \in Nat, NEW h, IsRead(h, pages)
    PROVE  copy_scan(pages) = h[Len(pages)]
<1>1. PICK g : IsRead(g, pages) /\ copy_scan(pages) = g[Len(pages)]
  BY ReadSteps
<1>2. \A m \in 0 .. Len(pages) : g[m] = h[m]
  BY <1>1, ReadPrefix
<1> QED
  BY <1>1, <1>2

(* One page more. *)
LEMMA ReadAppend ==
    ASSUME NEW S, NEW pages \in Seq(S), NEW page \in S
    PROVE  copy_scan(Append(pages, page)) = read_page(copy_scan(pages), page)
<1>1. PICK n \in Nat : n = Len(pages)
  OBVIOUS
<1>2. PICK more : more = Append(pages, page)
  OBVIOUS
<1>3. /\ Len(more) = n + 1 /\ more[n + 1] = page
      /\ \A m \in 1 .. n : pages[m] = more[m]
  BY <1>1, <1>2
<1>4. PICK g : IsRead(g, pages) /\ copy_scan(pages) = g[n]
  BY <1>1, ReadSteps
<1>5. PICK h : IsRead(h, more) /\ copy_scan(more) = h[n + 1]
  BY <1>3, ReadSteps
<1>6. n + 1 \in Nat /\ n <= n + 1 /\ n \in 0 .. n
  OBVIOUS
<1>7. g[n] = h[n]
  BY <1>1, <1>3, <1>4, <1>5, <1>6, ReadPrefix
<1>8. h[n + 1] = read_page(h[n], more[n + 1])
  <2>1. n + 1 \in 1 .. Len(more) /\ (n + 1) - 1 = n
    BY <1>3
  <2>2. h[n + 1] = read_page(h[(n + 1) - 1], more[n + 1])
    BY <1>5, <2>1 DEF IsRead
  <2> QED
    BY <2>1, <2>2
<1> QED
  BY <1>2, <1>3, <1>4, <1>5, <1>7, <1>8

(* What one page adds to the rows read before it. *)
LEMMA ReadShort ==
    ASSUME NEW r \in Seq(Row), NEW page, page.kind = "short", IsPage(page),
           NEW q, q = read_page(r, page)
    PROVE  /\ q = r \o page_rows(page)
           /\ q \in Seq(Row) /\ Len(q) = Len(r) + page.num_rows
           /\ \A i \in 1 .. Len(r) : q[i] = r[i]
           /\ \A i \in 1 .. page.num_rows : q[Len(r) + i] = cell(page, i - 1)
<1>1. PICK p : p = page_rows(page)
  OBVIOUS
<1>2. /\ p \in Seq(Row) /\ Len(p) = page.num_rows
      /\ \A i \in 1 .. page.num_rows : p[i] = cell(page, i - 1)
  BY <1>1, PageRowsType
<1>3. q = r \o p
  BY <1>1 DEF read_page
<1>4. /\ r \o p \in Seq(Row) /\ Len(r \o p) = Len(r) + Len(p)
      /\ \A i \in 1 .. Len(r) : (r \o p)[i] = r[i]
      /\ \A i \in 1 .. Len(p) : (r \o p)[Len(r) + i] = p[i]
  <2>1. PICK V : V = Row
    OBVIOUS
  <2>2. r \in Seq(V) /\ p \in Seq(V)
    BY <1>2, <2>1
  <2>3. /\ r \o p \in Seq(V) /\ Len(r \o p) = Len(r) + Len(p)
        /\ \A i \in 1 .. Len(r) : (r \o p)[i] = r[i]
        /\ \A i \in 1 .. Len(p) : (r \o p)[Len(r) + i] = p[i]
    BY ONLY <2>2, Concatenation
  <2> QED
    BY <2>1, <2>3
<1> QED
  BY <1>1, <1>2, <1>3, <1>4

LEMMA ReadFirst ==
    ASSUME NEW r \in Seq(Row), NEW page, page.kind = "first", page.data \in Seq(Char),
           NEW q, q = read_page(r, page)
    PROVE  /\ q = Append(r, page.data)
           /\ q \in Seq(Row) /\ Len(q) = Len(r) + 1
           /\ \A i \in 1 .. Len(r) : q[i] = r[i]
           /\ q[Len(r) + 1] = page.data
<1>1. PICK d : d = page.data
  OBVIOUS
<1>2. d \in Row
  BY <1>1 DEF Row
<1>3. q = Append(r, d)
  BY <1>1 DEF read_page
<1> QED
  BY <1>1, <1>2, <1>3

LEMMA ReadMore ==
    ASSUME NEW r \in Seq(Row), NEW page, page.kind = "more", page.data \in Seq(Char),
           NEW l, l = Len(r), 0 < l, r[l] \in Seq(Char),
           NEW q, q = read_page(r, page)
    PROVE  /\ q \in Seq(Row) /\ Len(q) = l
           /\ \A i \in 1 .. l : q[i] = IF i = l THEN r[l] \o page.data ELSE r[i]
           /\ r[l] \o page.data \in Seq(Char)
<1>1. l \in Nat /\ l \in 1 .. l
  OBVIOUS
<1>2. PICK d : d = page.data
  OBVIOUS
<1>3. PICK w : w = r[l] \o d
  OBVIOUS
<1>4. w \in Seq(Char) /\ w \in Row
  <2>1. w \in Seq(Char)
    BY <1>2, <1>3, ConcatProperties
  <2> QED
    BY <2>1 DEF Row
<1>5. q = [r EXCEPT ![l] = w]
  BY <1>2, <1>3 DEF read_page
<1>6. q \in Seq(Row) /\ Len(q) = l /\ \A i \in 1 .. l : q[i] = IF i = l THEN w ELSE r[i]
  BY <1>1, <1>4, <1>5
<1> QED
  BY <1>2, <1>3, <1>4, <1>6

(* A page that continues a string follows a page of that string. *)
PagesOK(pages) ==
    /\ pages \in Seq(Page)
    /\ \A m \in 1 .. Len(pages) :
         /\ pages[m].kind = "short" => IsPage(pages[m])
         /\ pages[m].kind = "more" => 1 < m /\ pages[m - 1].kind # "short"

LEMMA PageKinds ==
    ASSUME NEW page \in Page
    PROVE  /\ page.kind \in {"short", "first", "more"}
           /\ page.data \in Seq(Char)
BY DEF Page, ShortPage, LongPage

(* The rows read, and that those of a long string are strings. *)
Reading(h, pages, m) ==
    /\ h[m] \in Seq(Row)
    /\ 0 < m /\ pages[m].kind # "short" =>
         0 < Len(h[m]) /\ h[m][Len(h[m])] \in Seq(Char)

LEMMA ReadsType ==
    ASSUME NEW pages, PagesOK(pages), NEW h, IsRead(h, pages)
    PROVE  \A m \in 0 .. Len(pages) : Reading(h, pages, m)
<1>1. PICK n \in Nat : n = Len(pages)
  BY DEF PagesOK
<1> DEFINE T == {m \in Nat : Reading(h, pages, m)}
<1>2. 0 \in T
  <2>1. PICK e : e = <<>>
    OBVIOUS
  <2>2. e \in Seq(Row)
    BY <2>1
  <2>3. h[0] \in Seq(Row)
    BY <2>1, <2>2 DEF IsRead
  <2> QED
    BY <2>3 DEF Reading
<1>3. ASSUME NEW j \in 0 .. n - 1, j \in T PROVE j + 1 \in T
  <2>1. PICK m \in 1 .. n : m = j + 1 /\ m - 1 = j
    OBVIOUS
  <2>2. PICK r : r = h[j]
    OBVIOUS
  <2>3. PICK q : q = h[m]
    OBVIOUS
  <2>4. PICK page : page = pages[m]
    OBVIOUS
  <2>5. q = read_page(r, page) /\ r \in Seq(Row)
    BY <1>1, <1>3, <2>1, <2>2, <2>3, <2>4 DEF IsRead, Reading
  <2>6. page \in Page /\ page.kind \in {"short", "first", "more"} /\ page.data \in Seq(Char)
    <3>1. page \in Page
      BY <1>1, <2>4 DEF PagesOK
    <3> QED
      BY <3>1, PageKinds
  <2>7. CASE page.kind = "short"
    <3>1. IsPage(page)
      BY <1>1, <2>4, <2>7 DEF PagesOK
    <3>2. q \in Seq(Row)
      BY <2>5, <2>7, <3>1, ReadShort
    <3> QED
      BY <2>1, <2>3, <2>4, <2>7, <3>2 DEF Reading
  <2>8. CASE page.kind = "first"
    <3>1. q \in Seq(Row) /\ Len(q) = Len(r) + 1 /\ q[Len(r) + 1] = page.data
      BY <2>5, <2>6, <2>8, ReadFirst
    <3>2. Len(r) \in Nat
      BY <2>5
    <3>3. 0 < Len(q) /\ q[Len(q)] \in Seq(Char)
      BY <2>6, <3>1, <3>2
    <3> QED
      BY <2>1, <2>3, <3>1, <3>3 DEF Reading
  <2>9. CASE page.kind = "more"
    <3>1. 1 < m /\ pages[m - 1].kind # "short"
      BY <1>1, <2>4, <2>9 DEF PagesOK
    <3>2. 0 < Len(r) /\ r[Len(r)] \in Seq(Char)
      BY <1>3, <2>1, <2>2, <3>1 DEF Reading
    <3>3. PICK l : l = Len(r)
      OBVIOUS
    <3>4. /\ q \in Seq(Row) /\ Len(q) = l
          /\ \A i \in 1 .. l : q[i] = IF i = l THEN r[l] \o page.data ELSE r[i]
          /\ r[l] \o page.data \in Seq(Char)
      BY <2>5, <2>6, <2>9, <3>2, <3>3, ReadMore
    <3>5. l \in 1 .. l
      BY <2>5, <3>2, <3>3
    <3>6. 0 < Len(q) /\ q[Len(q)] \in Seq(Char)
      BY <3>2, <3>3, <3>4, <3>5
    <3> QED
      BY <2>1, <2>3, <3>4, <3>6 DEF Reading
  <2> QED
    BY <2>6, <2>7, <2>8, <2>9
<1>4. \A m \in 0 .. n : m \in T
  <2> HIDE DEF T
  <2> QED
    BY <1>2, <1>3, UpTo
<1> QED
  BY <1>1, <1>4

LEMMA ScanType ==
    ASSUME NEW pages, PagesOK(pages)
    PROVE  copy_scan(pages) \in Seq(Row)
<1>1. PICK n \in Nat : n = Len(pages)
  BY DEF PagesOK
<1>2. PICK h : IsRead(h, pages) /\ copy_scan(pages) = h[n]
  BY <1>1, ReadSteps
<1>3. Reading(h, pages, n)
  BY <1>1, <1>2, ReadsType
<1> QED
  BY <1>2, <1>3 DEF Reading

-----------------------------------------------------------------------------
(* Inserting.                                                              *)

(* An inserter with nothing but complete pages and a page begun, and the   *)
(* rows that are read from these.                                          *)
Whole(ins) == Sound(ins) /\ IsPage(ins) /\ PagesOK(ins.pages)

RowsOf(ins) == copy_scan(ins.pages) \o page_rows(ins)

LEMMA RowsType ==
    ASSUME NEW ins, Whole(ins)
    PROVE  /\ copy_scan(ins.pages) \in Seq(Row)
           /\ page_rows(ins) \in Seq(Row)
           /\ RowsOf(ins) \in Seq(Row)
<1>1. copy_scan(ins.pages) \in Seq(Row)
  BY ScanType DEF Whole
<1>2. page_rows(ins) \in Seq(Row)
  BY PageRowsType DEF Whole
<1> QED
  BY <1>1, <1>2, ConcatProperties DEF RowsOf

LEMMA PagesAppend ==
    ASSUME NEW pages, PagesOK(pages), NEW page \in Page, page.kind # "more",
           page.kind = "short" => IsPage(page)
    PROVE  PagesOK(Append(pages, page))
<1>1. PICK n \in Nat : n = Len(pages)
  BY DEF PagesOK
<1>2. PICK more : more = Append(pages, page)
  OBVIOUS
<1>3. pages \in Seq(Page)
  BY DEF PagesOK
<1>4. /\ more \in Seq(Page) /\ Len(more) = n + 1 /\ more[n + 1] = page
      /\ \A m \in 1 .. n : more[m] = pages[m]
  BY ONLY <1>1, <1>2, <1>3, page \in Page
<1>5. ASSUME NEW m \in 1 .. n + 1
      PROVE  /\ more[m].kind = "short" => IsPage(more[m])
             /\ more[m].kind = "more" => 1 < m /\ more[m - 1].kind # "short"
  <2>1. CASE m = n + 1
    BY <1>4, <2>1
  <2>2. CASE m # n + 1
    <3>1. m \in 1 .. n /\ (1 < m => m - 1 \in 1 .. n)
      BY <2>2
    <3>2. /\ pages[m].kind = "short" => IsPage(pages[m])
          /\ pages[m].kind = "more" => 1 < m /\ pages[m - 1].kind # "short"
      BY <1>1, <3>1 DEF PagesOK
    <3> QED
      BY <1>4, <3>1, <3>2
  <2> QED
    BY <2>1, <2>2
<1> QED
  BY <1>2, <1>4, <1>5 DEF PagesOK

(* Cutting a page loses and adds no row. *)
LEMMA SaveKeepsRows ==
    ASSUME NEW ins, Whole(ins)
    PROVE  /\ Whole(save_page(ins)) /\ RowsOf(save_page(ins)) = RowsOf(ins)
           /\ copy_scan(save_page(ins).pages) = RowsOf(ins)
           /\ save_page(ins).num_rows = 0
<1> DEFINE page == [kind    |-> "short", num_rows |-> ins.num_rows,
                    offsets |-> ins.offsets, data |-> ins.data,
                    bitmap  |-> {b \in ins.bitmap : b < 8 * bytes(ins.num_rows)}]
<1>1. /\ ins \in Inserter /\ IsPage(ins) /\ PagesOK(ins.pages)
      /\ ins.num_rows \in Nat /\ ins.bitmap \in SUBSET Nat
      /\ ins.pages \in Seq(Page)
  BY DEF Whole, Sound, IsPage, PagesOK
<1>2. PICK saved : saved = save_page(ins)
  OBVIOUS
<1>3. saved = [pages |-> Append(ins.pages, page), num_rows |-> 0, offsets |-> <<>>,
               data |-> <<>>, bitmap |-> ins.bitmap]
  <2>1. saved = [ins EXCEPT !.pages = Append(ins.pages, page), !.num_rows = 0,
                            !.offsets = <<>>, !.data = <<>>]
    BY <1>2 DEF save_page
  <2> HIDE DEF page
  <2>2. QED
    BY <1>1, <2>1 DEF Inserter
<1>4. Sound(saved)
  BY <1>2, SavePage DEF Whole
<1>5. page \in Page
  <2>1. page \in ShortPage
    BY DEF ShortPage, Whole, Sound, Inserter, used
  <2> QED
    BY <2>1 DEF Page
<1>6. PICK n \in Nat : n = ins.num_rows
  BY <1>1
<1>7. \A b \in Nat : b < n => b < 8 * bytes(n)
  BY <1>6 DEF bytes
<1>8. /\ page.kind = "short" /\ page.num_rows = n /\ page.data = ins.data
      /\ page.offsets = ins.offsets
      /\ page.bitmap = {b \in ins.bitmap : b < 8 * bytes(n)}
  BY <1>6
<1> HIDE DEF page
<1>9. IsPage(page) /\ page_rows(page) = page_rows(ins)
  <2>1. page.bitmap \in SUBSET Nat
    BY <1>1, <1>8
  <2>2. \A b \in Nat : b < n => (b \in page.bitmap <=> b \in ins.bitmap)
    BY <1>7, <1>8
  <2> QED
    BY <1>1, <1>6, <1>8, <2>1, <2>2, SameCells
<1>10. PagesOK(saved.pages) /\ copy_scan(saved.pages) = RowsOf(ins)
  <2>1. saved.pages = Append(ins.pages, page)
    BY <1>3
  <2>2. PagesOK(Append(ins.pages, page))
    BY <1>1, <1>5, <1>8, <1>9, PagesAppend
  <2>3. copy_scan(Append(ins.pages, page)) = read_page(copy_scan(ins.pages), page)
    BY <1>1, <1>5, ReadAppend
  <2>4. read_page(copy_scan(ins.pages), page) = copy_scan(ins.pages) \o page_rows(page)
    BY <1>8 DEF read_page
  <2> QED
    BY <1>9, <2>1, <2>2, <2>3, <2>4 DEF RowsOf
<1>11. /\ saved.num_rows = 0 /\ saved.data = <<>> /\ saved.offsets = <<>>
       /\ saved.bitmap = ins.bitmap
  BY <1>3
<1>12. IsPage(saved) /\ page_rows(saved) = <<>>
  <2>1. {b \in saved.bitmap : b < 0} = {}
    BY <1>1, <1>11
  <2>2. Cardinality({b \in saved.bitmap : b < saved.num_rows}) = 0
    BY <1>11, <2>1, FS_EmptySet
  <2>3. page_rows(saved) = <<>>
    BY <1>11 DEF page_rows
  <2>4. PICK e : e = <<>>
    OBVIOUS
  <2>5. e \in Seq(Nat) /\ e \in Seq(Char) /\ Len(e) = 0
    BY <2>4
  <2>6. saved.offsets = e /\ saved.data = e
    BY <1>11, <2>4
  <2>7. saved.num_rows \in Nat /\ saved.bitmap \in SUBSET Nat
    BY <1>1, <1>11
  <2>8. prev_offset(saved, 0) = 0
    BY DEF prev_offset
  <2>9. \A i \in 1 .. 0 : FALSE
    OBVIOUS
  <2>10. IsPage(saved)
    BY <2>2, <2>5, <2>6, <2>7, <2>8, <2>9 DEF IsPage
  <2> QED
    BY <2>3, <2>10
<1>13. RowsOf(saved) = RowsOf(ins)
  <2>1. RowsOf(saved) = RowsOf(ins) \o <<>>
    BY <1>10, <1>12 DEF RowsOf
  <2>2. RowsOf(ins) \in Seq(Row)
    BY RowsType
  <2> QED
    BY <2>1, <2>2, ConcatEmptySeq
<1> QED
  BY <1>2, <1>4, <1>10, <1>11, <1>12, <1>13 DEF Whole

(* After finalize every row is on a complete page. *)
LEMMA FinalizeKeepsRows ==
    ASSUME NEW ins, Whole(ins)
    PROVE  /\ Whole(finalize(ins)) /\ RowsOf(finalize(ins)) = RowsOf(ins)
           /\ copy_scan(finalize(ins).pages) = RowsOf(ins)
           /\ finalize(ins).num_rows = 0
<1>1. CASE ins.num_rows # 0
  BY <1>1, SaveKeepsRows DEF finalize
<1>2. CASE ins.num_rows = 0
  <2>1. finalize(ins) = ins
    BY <1>2 DEF finalize
  <2>2. page_rows(ins) = <<>>
    BY <1>2 DEF page_rows
  <2>3. RowsOf(ins) = copy_scan(ins.pages) \o <<>>
    BY <2>2 DEF RowsOf
  <2>4. copy_scan(ins.pages) \in Seq(Row)
    BY RowsType
  <2>5. RowsOf(ins) = copy_scan(ins.pages)
    BY <2>3, <2>4, ConcatEmptySeq
  <2> QED
    BY <1>2, <2>1, <2>5
<1> QED
  BY <1>1, <1>2

(* A row more on the page begun is a row more of the inserter. *)
LEMMA RowOnPage ==
    ASSUME NEW i, Whole(i), NEW r, r.pages = i.pages, NEW v \in Row,
           page_rows(r) = Append(page_rows(i), v)
    PROVE  RowsOf(r) = Append(RowsOf(i), v)
<1>1. PICK a : a = copy_scan(i.pages)
  OBVIOUS
<1>2. PICK b : b = page_rows(i)
  OBVIOUS
<1>3. a \in Seq(Row) /\ b \in Seq(Row)
  BY <1>1, <1>2, RowsType
<1>4. RowsOf(r) = a \o Append(b, v) /\ RowsOf(i) = a \o b
  BY <1>1, <1>2 DEF RowsOf
<1>5. a \o Append(b, v) = Append(a \o b, v)
  BY <1>3
<1> QED
  BY <1>4, <1>5

LEMMA InsertShortAddsRow ==
    ASSUME NEW ins, Whole(ins), NEW value \in Seq(Char), ~is_long(value)
    PROVE  /\ Whole(insert_short(ins, value))
           /\ RowsOf(insert_short(ins, value)) = Append(RowsOf(ins), value)
<1>1. PICK i : i = IF used(ins) + 2 + Len(value) + ins.num_rows \div 8 + 1 > PageSize
                   THEN save_page(ins) ELSE ins
  OBVIOUS
<1>2. Whole(i) /\ RowsOf(i) = RowsOf(ins)
  BY <1>1, SaveKeepsRows
<1>3. i \in Inserter /\ IsPage(i) /\ PagesOK(i.pages)
  BY <1>2 DEF Whole, Sound
<1>4. PICK r : r = insert_short(ins, value)
  OBVIOUS
<1>5. r = [i EXCEPT !.data = i.data \o value,
                    !.offsets = Append(i.offsets, Len(i.data) + Len(value)),
                    !.bitmap = i.bitmap \cup {i.num_rows},
                    !.num_rows = i.num_rows + 1]
  BY <1>1, <1>4 DEF insert_short
<1>6. r = [pages |-> i.pages, num_rows |-> i.num_rows + 1,
           offsets |-> Append(i.offsets, Len(i.data) + Len(value)),
           data |-> i.data \o value, bitmap |-> i.bitmap \cup {i.num_rows}]
  BY <1>3, <1>5 DEF Inserter
<1>7. /\ r.pages = i.pages /\ r.num_rows = i.num_rows + 1 /\ r.data = i.data \o value
      /\ r.offsets = Append(i.offsets, Len(i.data) + Len(value))
      /\ r.bitmap = i.bitmap \cup {i.num_rows}
  BY <1>6
<1>8. IsPage(r) /\ page_rows(r) = Append(page_rows(i), value)
  BY <1>3, <1>7, PushString
<1>9. Sound(r)
  BY <1>4, InsertShort DEF Whole
<1>10. RowsOf(r) = Append(RowsOf(i), value)
  <2>1. value \in Row
    BY DEF Row
  <2> QED
    BY <1>2, <1>7, <1>8, <2>1, RowOnPage
<1> QED
  BY <1>2, <1>3, <1>4, <1>7, <1>8, <1>9, <1>10 DEF Whole

LEMMA InsertNullAddsRow ==
    ASSUME NEW ins, Whole(ins)
    PROVE  Whole(insert_null(ins)) /\ RowsOf(insert_null(ins)) = Append(RowsOf(ins), Null)
<1>1. PICK i : i = IF used(ins) + ins.num_rows \div 8 + 1 > PageSize
                   THEN save_page(ins) ELSE ins
  OBVIOUS
<1>2. Whole(i) /\ RowsOf(i) = RowsOf(ins)
  BY <1>1, SaveKeepsRows
<1>3. i \in Inserter /\ IsPage(i) /\ PagesOK(i.pages)
  BY <1>2 DEF Whole, Sound
<1>4. PICK r : r = insert_null(ins)
  OBVIOUS
<1>5. r = [i EXCEPT !.bitmap = i.bitmap \ {i.num_rows}, !.num_rows = i.num_rows + 1]
  BY <1>1, <1>4 DEF insert_null
<1>6. r = [pages |-> i.pages, num_rows |-> i.num_rows + 1, offsets |-> i.offsets,
           data |-> i.data, bitmap |-> i.bitmap \ {i.num_rows}]
  BY <1>3, <1>5 DEF Inserter
<1>7. /\ r.pages = i.pages /\ r.num_rows = i.num_rows + 1 /\ r.data = i.data
      /\ r.offsets = i.offsets /\ r.bitmap = i.bitmap \ {i.num_rows}
  BY <1>6
<1>8. IsPage(r) /\ page_rows(r) = Append(page_rows(i), Null)
  BY <1>3, <1>7, PushNull
<1>9. Sound(r)
  BY <1>4, InsertNullIsSound DEF Whole
<1>10. RowsOf(r) = Append(RowsOf(i), Null)
  <2>1. Null \in Row
    BY DEF Row
  <2> QED
    BY <1>2, <1>7, <1>8, <2>1, RowOnPage
<1> QED
  BY <1>2, <1>3, <1>4, <1>7, <1>8, <1>9, <1>10 DEF Whole

(* One sequence of pages behind another. *)
LEMMA PutBehind ==
    ASSUME NEW a \in Seq(Page), NEW b \in Seq(Page), NEW l, l = Len(a), NEW n, n = Len(b),
           NEW c, c = a \o b
    PROVE  /\ c \in Seq(Page) /\ Len(c) = l + n
           /\ \A m \in 1 .. l : c[m] = a[m]
           /\ \A m \in 1 .. n : c[l + m] = b[m]
<1>1. PICK V : V = Page
  OBVIOUS
<1>2. a \in Seq(V) /\ b \in Seq(V) /\ l = Len(a) /\ n = Len(b)
  BY <1>1
<1>3. /\ a \o b \in Seq(V) /\ Len(a \o b) = l + n
      /\ \A m \in 1 .. l : (a \o b)[m] = a[m]
      /\ \A m \in 1 .. n : (a \o b)[l + m] = b[m]
  BY ONLY <1>2, ConcatenationAt
<1> QED
  BY <1>1, <1>3

(* The pages of a long string, put behind others, are read as one row. *)
LEMMA PartsBehind ==
    ASSUME NEW pages, PagesOK(pages), NEW value \in Seq(Char), NEW parts, NEW n,
           PartsOf(value, parts, n)
    PROVE  PagesOK(pages \o parts)
<1>1. PICK L \in Nat : L = Len(pages)
  BY DEF PagesOK
<1>2. PICK more : more = pages \o parts
  OBVIOUS
<1>3. n \in Nat /\ parts \in Seq(Page) /\ Len(parts) = n /\ pages \in Seq(Page)
  BY DEF PartsOf, PagesOK
<1>4. /\ more \in Seq(Page) /\ Len(more) = L + n
      /\ \A m \in 1 .. L : more[m] = pages[m]
      /\ \A c \in 1 .. n : more[L + c] = parts[c]
  <2>1. /\ pages \in Seq(Page) /\ parts \in Seq(Page) /\ L = Len(pages) /\ n = Len(parts)
        /\ more = pages \o parts
    BY <1>1, <1>2, <1>3
  <2> QED
    BY ONLY <2>1, PutBehind
<1>5. \A c \in 1 .. n : parts[c].kind = IF c = 1 THEN "first" ELSE "more"
  BY DEF PartsOf
<1>6. ASSUME NEW m \in 1 .. L + n
      PROVE  /\ more[m].kind = "short" => IsPage(more[m])
             /\ more[m].kind = "more" => 1 < m /\ more[m - 1].kind # "short"
  <2>1. CASE m \in 1 .. L
    <3>1. 1 < m => m - 1 \in 1 .. L
      BY <2>1
    <3>2. /\ pages[m].kind = "short" => IsPage(pages[m])
          /\ pages[m].kind = "more" => 1 < m /\ pages[m - 1].kind # "short"
      BY <1>1, <2>1 DEF PagesOK
    <3> QED
      BY <1>4, <2>1, <3>1, <3>2
  <2>2. CASE m \notin 1 .. L
    <3>1. PICK c \in 1 .. n : m = L + c
      <4>1. m - L \in 1 .. n /\ m = L + (m - L)
        BY <1>3, <2>2
      <4> QED
        BY <4>1
    <3>2. more[m].kind = IF c = 1 THEN "first" ELSE "more"
      BY <1>4, <1>5, <3>1
    <3>3. CASE c = 1
      BY <3>2, <3>3
    <3>4. CASE c # 1
      <4>1. PICK d \in 1 .. n : d = c - 1
        BY <1>3, <3>4
      <4>2. m - 1 = L + d /\ 1 < m
        BY <3>1, <4>1
      <4>3. more[m - 1].kind = IF d = 1 THEN "first" ELSE "more"
        BY <1>4, <1>5, <4>2
      <4> QED
        BY <3>2, <3>4, <4>2, <4>3
    <3> QED
      BY <3>3, <3>4
  <2> QED
    BY <2>1, <2>2
<1> QED
  BY <1>2, <1>4, <1>6 DEF PagesOK

LEMMA PartsRead ==
    ASSUME NEW pages, PagesOK(pages), NEW value \in Seq(Char), NEW parts, NEW n,
           PartsOf(value, parts, n)
    PROVE  copy_scan(pages \o parts) = Append(copy_scan(pages), value)
<1>1. PICK L \in Nat : L = Len(pages)
  BY DEF PagesOK
<1>2. PICK more : more = pages \o parts
  OBVIOUS
<1>3. /\ n \in Nat \ {0} /\ parts \in Seq(Page) /\ Len(parts) = n /\ pages \in Seq(Page)
  BY DEF PartsOf, PagesOK
<1>4. /\ more \in Seq(Page) /\ Len(more) = L + n
      /\ \A m \in 1 .. L : more[m] = pages[m]
      /\ \A c \in 1 .. n : more[L + c] = parts[c]
  <2>1. /\ pages \in Seq(Page) /\ parts \in Seq(Page) /\ L = Len(pages) /\ n = Len(parts)
        /\ more = pages \o parts
    BY <1>1, <1>2, <1>3
  <2> QED
    BY ONLY <2>1, PutBehind
<1>5. PICK g : IsRead(g, pages) /\ copy_scan(pages) = g[L]
  BY <1>1, ReadSteps
<1>6. PICK h : IsRead(h, more) /\ copy_scan(more) = h[L + n]
  <2>1. Len(more) \in Nat
    BY <1>3, <1>4
  <2> QED
    BY <1>4, <2>1, ReadSteps
<1>7. PICK R : R = copy_scan(pages)
  OBVIOUS
<1>8. R \in Seq(Row)
  BY <1>7, ScanType
<1>9. h[L] = R
  <2>1. L <= L + n /\ L + n \in Nat /\ L \in 0 .. L
    BY <1>3
  <2>2. \A m \in 1 .. L : pages[m] = more[m]
    BY <1>4
  <2>3. \A m \in 0 .. L : g[m] = h[m]
    <3>1. /\ Len(pages) = L /\ Len(more) \in Nat /\ Len(pages) <= Len(more)
          /\ IsRead(g, pages) /\ IsRead(h, more)
      BY <1>1, <1>4, <1>5, <1>6, <2>1
    <3>2. \A m \in 1 .. Len(pages) : pages[m] = more[m]
      BY <2>2, <3>1
    <3>3. Len(pages) \in Nat
      BY <3>1
    <3> QED
      BY ONLY SMTT(30), <3>1, <3>2, <3>3, ReadPrefix
  <2> QED
    BY <1>5, <1>7, <2>1, <2>3
<1> DEFINE Begun(m) == SubSeq(value, 1, EndOf(value, m))
           T == {m \in Nat : h[L + m] = IF m = 0 THEN R ELSE Append(R, Begun(m))}
<1>10. 0 \in T
  <2>1. L + 0 = L
    OBVIOUS
  <2> QED
    BY <1>9, <2>1
<1>11. ASSUME NEW m \in 0 .. n - 1, m \in T PROVE m + 1 \in T
  <2>1. PICK c \in 1 .. n : c = m + 1 /\ c - 1 = m
    BY <1>3
  <2>2. PICK page : page = parts[c]
    OBVIOUS
  <2>3. PICK k \in 1 .. L + n : k = L + c /\ k - 1 = L + m
    BY <1>3, <2>1
  <2>4. h[k] = read_page(h[L + m], page)
    <3>1. h[k] = read_page(h[k - 1], more[k])
      BY <1>4, <1>6 DEF IsRead
    <3> QED
      BY <1>4, <2>2, <2>3, <3>1
  <2>5. /\ page.kind = IF c = 1 THEN "first" ELSE "more"
        /\ page.data = SubSeq(value, EndOf(value, m) + 1, EndOf(value, c))
    BY <2>1, <2>2 DEF PartsOf
  <2>6. page.data \in Seq(Char)
    <3>1. page \in Page
      BY <1>3, <2>2
    <3> QED
      BY <3>1, PageKinds
  <2>7. PICK a \in 0 .. Len(value) : a = EndOf(value, m)
    BY SMTT(30) DEF PartsOf
  <2>8. PICK b \in 0 .. Len(value) : b = EndOf(value, c)
    BY DEF PartsOf
  <2>9. a <= b
    BY <2>1, <2>7, <2>8 DEF PartsOf
  <2>10. /\ SubSeq(value, 1, a) \o SubSeq(value, a + 1, b) = SubSeq(value, 1, b)
         /\ SubSeq(value, 1, 0) = <<>>
    BY <2>9, SubSeqParts
  <2>11. page.data = SubSeq(value, a + 1, b) /\ Begun(m) = SubSeq(value, 1, a)
         /\ Begun(c) = SubSeq(value, 1, b)
    BY <2>5, <2>7, <2>8
  <2> HIDE DEF Begun
  <2>12. h[k] = Append(R, Begun(c))
    <3>1. CASE m = 0
      <4>1. a = 0
        BY <2>7, <3>1 DEF PartsOf
      <4>2. page.kind = "first" /\ page.data = Begun(c)
        <5>1. page.kind = "first"
          BY <2>1, <2>5, <3>1
        <5>2. PICK z : z = SubSeq(value, 1, b)
          OBVIOUS
        <5>3. page.data = z /\ Begun(c) = z
          BY <2>11, <4>1, <5>2
        <5> QED
          BY <5>1, <5>3
      <4>3. h[L + m] = R
        BY <1>11, <3>1
      <4>4. h[k] = Append(R, page.data)
        BY <1>8, <2>4, <2>6, <4>2, <4>3, ReadFirst
      <4> QED
        BY <4>2, <4>4
    <3>2. CASE m # 0
      <4>1. page.kind = "more"
        BY <2>1, <2>5, <3>2
      <4>2. PICK x : x = Begun(m)
        OBVIOUS
      <4>3. x \in Seq(Char)
        <5>1. SubSeq(value, 0 + 1, a) \in Seq(Char)
          BY PartIsString
        <5> QED
          BY <2>11, <4>2, <5>1
      <4>4. PICK r : r = h[L + m]
        OBVIOUS
      <4>5. r = Append(R, x)
        BY <1>11, <3>2, <4>2, <4>4
      <4>6. PICK l \in Nat : l = Len(R) + 1
        BY <1>8
      <4>7. /\ r \in Seq(Row) /\ Len(r) = l /\ r[l] = x
            /\ \A i \in 1 .. l - 1 : r[i] = R[i]
        <5>1. x \in Row
          BY <4>3 DEF Row
        <5> QED
          BY <1>8, <4>5, <4>6, <5>1
      <4>8. PICK q : q = h[k]
        OBVIOUS
      <4>9. PICK d : d = page.data
        OBVIOUS
      <4>10. q = read_page(r, page)
        BY <2>4, <4>4, <4>8
      <4>11. 0 < l /\ r[l] \in Seq(Char) /\ l = Len(r)
        BY <1>8, <4>3, <4>6, <4>7
      <4>12. /\ q \in Seq(Row) /\ Len(q) = l
             /\ \A i \in 1 .. l : q[i] = IF i = l THEN r[l] \o d ELSE r[i]
        <5>1. /\ r \in Seq(Row) /\ page.kind = "more" /\ page.data \in Seq(Char)
              /\ l = Len(r) /\ 0 < l /\ r[l] \in Seq(Char) /\ q = read_page(r, page)
          BY <2>6, <4>1, <4>7, <4>10, <4>11
        <5>2. PICK j : j = l
          OBVIOUS
        <5>3. j = Len(r) /\ 0 < j /\ r[j] \in Seq(Char)
          BY <5>1, <5>2
        <5>4. /\ q \in Seq(Row) /\ Len(q) = j
              /\ \A i \in 1 .. j : q[i] = IF i = j THEN r[j] \o page.data ELSE r[i]
          BY ONLY SMTT(30), <5>1, <5>3, ReadMore
        <5> QED
          BY <4>9, <5>2, <5>4
      <4>13. PICK y : y = Begun(c)
        OBVIOUS
      <4>14. x \o d = y /\ y \in Row
        <5>1. x \o d = y
          BY <2>10, <2>11, <4>2, <4>9, <4>13
        <5>2. SubSeq(value, 0 + 1, b) \in Seq(Char)
          BY PartIsString
        <5>3. y \in Seq(Char)
          BY <2>11, <4>13, <5>2
        <5> QED
          BY <5>1, <5>3 DEF Row
      <4>15. /\ Append(R, y) \in Seq(Row) /\ Len(Append(R, y)) = l
             /\ Append(R, y)[l] = y
             /\ \A i \in 1 .. l - 1 : Append(R, y)[i] = R[i]
        BY <1>8, <4>6, <4>14
      <4>16. ASSUME NEW i \in 1 .. l PROVE q[i] = Append(R, y)[i]
        <5>1. CASE i = l
          BY <4>7, <4>12, <4>14, <4>15, <5>1
        <5>2. CASE i # l
          <6>1. i \in 1 .. l - 1
            BY <5>2
          <6> QED
            BY <4>7, <4>12, <4>15, <5>2, <6>1
        <5> QED
          BY <5>1, <5>2
      <4>17. q = Append(R, y)
        BY <4>12, <4>15, <4>16, EqualSeqs
      <4> QED
        BY <4>8, <4>13, <4>17
    <3> QED
      BY <3>1, <3>2
  <2>13. c \in Nat /\ c # 0 /\ h[L + c] = Append(R, Begun(c))
    BY <1>3, <2>1, <2>3, <2>12
  <2>14. c \in T
    BY <2>13
  <2> HIDE DEF T
  <2> QED
    BY <2>1, <2>14
<1>12. \A m \in 0 .. n : m \in T
  <2>1. n \in Nat
    BY <1>3
  <2> HIDE DEF T
  <2> QED
    BY <1>10, <1>11, <2>1, UpTo
<1>13. h[L + n] = Append(R, Begun(n))
  <2>1. n \in 0 .. n /\ n # 0
    BY <1>3
  <2> HIDE DEF Begun
  <2> QED
    BY <1>12, <2>1
<1>14. Begun(n) = value
  <2>1. EndOf(value, n) = Len(value)
    BY DEF PartsOf
  <2>2. SubSeq(value, 1, Len(value)) = value
    OBVIOUS
  <2> QED
    BY <2>1, <2>2
<1> QED
  BY <1>2, <1>6, <1>7, <1>13, <1>14

LEMMA LongAddsRow ==
    ASSUME NEW ins, Whole(ins), ins.num_rows = 0, NEW value \in Seq(Char), is_long(value)
    PROVE  /\ Whole(save_long_string(ins, value))
           /\ RowsOf(save_long_string(ins, value)) = Append(RowsOf(ins), value)
<1>1. PICK saved : saved = save_long_string(ins, value)
  OBVIOUS
<1>2. Sound(ins) /\ ins \in Inserter /\ IsPage(ins) /\ PagesOK(ins.pages)
  BY DEF Whole, Sound
<1>3. PICK parts, n :
         /\ PartsOf(value, parts, n)
         /\ saved = [ins EXCEPT !.pages = ins.pages \o parts]
  BY <1>1, <1>2, LongParts
<1>4. saved = [pages |-> ins.pages \o parts, num_rows |-> ins.num_rows,
               offsets |-> ins.offsets, data |-> ins.data, bitmap |-> ins.bitmap]
  BY <1>2, <1>3 DEF Inserter
<1>5. /\ saved.pages = ins.pages \o parts /\ saved.num_rows = ins.num_rows
      /\ saved.offsets = ins.offsets /\ saved.data = ins.data
      /\ saved.bitmap = ins.bitmap
  BY <1>4
<1>6. PagesOK(saved.pages) /\ copy_scan(saved.pages) = Append(copy_scan(ins.pages), value)
  BY <1>2, <1>3, <1>5, PartsBehind, PartsRead
<1>7. IsPage(saved)
  <2>1. ins.bitmap \in SUBSET Nat
    BY <1>2 DEF IsPage
  <2> QED
    BY <1>2, <1>5, <2>1, SameCells
<1>8. Sound(saved)
  BY <1>1, <1>2, SaveLongString
<1>9. page_rows(saved) = <<>> /\ page_rows(ins) = <<>>
  BY <1>5 DEF page_rows
<1>10. RowsOf(saved) = copy_scan(saved.pages) \o <<>> /\ RowsOf(ins) = copy_scan(ins.pages) \o <<>>
  BY <1>9 DEF RowsOf
<1>11. Whole(saved)
  BY <1>6, <1>7, <1>8 DEF Whole
<1>12. copy_scan(saved.pages) \in Seq(Row) /\ copy_scan(ins.pages) \in Seq(Row)
  BY <1>11, RowsType
<1>13. RowsOf(saved) = copy_scan(saved.pages) /\ RowsOf(ins) = copy_scan(ins.pages)
  BY <1>10, <1>12, ConcatEmptySeq
<1> QED
  BY <1>1, <1>6, <1>11, <1>13

(* A string inserted is read after the rows before it. *)
LEMMA InsertAddsRow ==
    ASSUME NEW ins, Whole(ins), NEW value \in Seq(Char)
    PROVE  Whole(insert(ins, value)) /\ RowsOf(insert(ins, value)) = Append(RowsOf(ins), value)
<1>1. CASE is_long(value)
  <2>1. insert(ins, value) = save_long_string(finalize(ins), value)
    BY <1>1 DEF insert
  <2>2. Whole(finalize(ins)) /\ RowsOf(finalize(ins)) = RowsOf(ins) /\ finalize(ins).num_rows = 0
    BY FinalizeKeepsRows
  <2> QED
    BY <1>1, <2>1, <2>2, LongAddsRow
<1>2. CASE ~is_long(value)
  <2>1. insert(ins, value) = insert_short(ins, value)
    BY <1>2 DEF insert
  <2> QED
    BY <1>2, <2>1, InsertShortAddsRow
<1> QED
  BY <1>1, <1>2

LEMMA NoRowsIsWhole == Whole(NoRows) /\ RowsOf(NoRows) = <<>>
<1>1. PICK e : e = <<>>
  OBVIOUS
<1>2. PICK z : z = NoRows
  OBVIOUS
<1>3. z.pages = e /\ z.num_rows = 0 /\ z.offsets = e /\ z.data = e /\ z.bitmap = {}
  BY <1>1, <1>2 DEF NoRows
<1>4. /\ e \in Seq(Nat) /\ e \in Seq(Char) /\ e \in Seq(Page) /\ e \in Seq(Row) /\ Len(e) = 0
      /\ \A i \in 1 .. 0 : FALSE
  BY <1>1
<1>5. IsPage(z)
  <2>1. {b \in z.bitmap : b < z.num_rows} = {}
    BY <1>3
  <2>2. Cardinality({b \in z.bitmap : b < z.num_rows}) = 0
    BY <2>1, FS_EmptySet
  <2>3. prev_offset(z, 0) = 0
    BY DEF prev_offset
  <2> QED
    BY <1>3, <1>4, <2>2, <2>3 DEF IsPage
<1>6. PagesOK(z.pages)
  BY <1>3, <1>4 DEF PagesOK
<1>7. RowsOf(z) = <<>>
  <2>1. PICK h : IsRead(h, z.pages) /\ copy_scan(z.pages) = h[Len(z.pages)]
    BY <1>3, <1>4, ReadSteps
  <2>2. copy_scan(z.pages) = e
    BY <1>1, <1>3, <1>4, <2>1 DEF IsRead
  <2>3. page_rows(z) = <<>>
    BY <1>3 DEF page_rows
  <2>4. RowsOf(z) = e \o <<>>
    BY <2>2, <2>3 DEF RowsOf
  <2>5. e \o <<>> = e
    BY <1>4, ConcatEmptySeq
  <2> QED
    BY <1>1, <2>4, <2>5
<1>8. Sound(z)
  BY <1>2, EmptyIsSound
<1> QED
  BY <1>2, <1>5, <1>6, <1>7, <1>8 DEF Whole

-----------------------------------------------------------------------------
(* Scanning: which rows are complete after some of the pages.              *)

(* What is known of page m and of the rows before it. *)
AtPage(pages, h, m, page, r, q, l) ==
    /\ r = h[m - 1] /\ q = h[m] /\ page = pages[m]
    /\ r \in Seq(Row) /\ q \in Seq(Row) /\ l \in Nat /\ l = Len(r)
    /\ page \in Page /\ page.data \in Seq(Char)
    /\ page.kind \in {"short", "first", "more"}
    /\ q = read_page(r, page)
    /\ page.kind = "short" => IsPage(page)
    /\ page.kind = "more" => 0 < l /\ r[l] \in Seq(Char) /\ 1 < m /\ pages[m - 1].kind # "short"

LEMMA ReadStep ==
    ASSUME NEW pages, PagesOK(pages), NEW h, IsRead(h, pages), NEW m \in 1 .. Len(pages)
    PROVE  \E page, r, q, l : AtPage(pages, h, m, page, r, q, l)
<1>1. PICK n \in Nat : n = Len(pages)
  BY DEF PagesOK
<1>2. PICK j \in 0 .. n : j = m - 1
  BY <1>1
<1>3. PICK page : page = pages[m]
  OBVIOUS
<1>4. PICK r : r = h[j]
  OBVIOUS
<1>5. PICK q : q = h[m]
  OBVIOUS
<1>6. Reading(h, pages, j) /\ Reading(h, pages, m)
  <2>1. m \in 0 .. n
    BY <1>1
  <2>2. \A k \in 0 .. Len(pages) : Reading(h, pages, k)
    BY ReadsType
  <2> QED
    BY <1>1, <1>2, <2>1, <2>2
<1>7. r \in Seq(Row) /\ q \in Seq(Row)
  BY <1>4, <1>5, <1>6 DEF Reading
<1>8. PICK l \in Nat : l = Len(r)
  BY <1>7
<1>9. page \in Page
  BY <1>1, <1>3 DEF PagesOK
<1>10. page.kind \in {"short", "first", "more"} /\ page.data \in Seq(Char)
  BY <1>9, PageKinds
<1>11. q = read_page(r, page)
  BY <1>2, <1>3, <1>4, <1>5 DEF IsRead
<1>12. page.kind = "short" => IsPage(page)
  BY <1>3 DEF PagesOK
<1>13. page.kind = "more" => 1 < m /\ pages[m - 1].kind # "short"
  BY <1>3 DEF PagesOK
<1>14. ASSUME page.kind = "more" PROVE 0 < l /\ r[l] \in Seq(Char)
  <2>1. 0 < j /\ pages[j].kind # "short"
    BY <1>2, <1>13, <1>14
  <2>2. 0 < Len(h[j]) /\ h[j][Len(h[j])] \in Seq(Char)
    BY <1>6, <2>1 DEF Reading
  <2> QED
    BY <1>4, <1>8, <2>2
<1>15. AtPage(pages, h, m, page, r, q, l)
  BY <1>2, <1>3, <1>4, <1>5, <1>7, <1>8, <1>9, <1>10, <1>11, <1>12, <1>13, <1>14 DEF AtPage
<1> QED
  BY <1>15

(* How many rows a page adds, and that only a page that continues a string *)
(* changes a row before it, the last one.                                  *)
LEMMA PageAdds ==
    ASSUME NEW pages, NEW h, NEW m, NEW page, NEW r, NEW q, NEW l,
           AtPage(pages, h, m, page, r, q, l)
    PROVE  /\ page.kind = "short" => Len(q) = l + page.num_rows
           /\ page.kind = "first" => Len(q) = l + 1
           /\ page.kind = "more" => Len(q) = l
           /\ \A i \in 1 .. l : (page.kind = "more" /\ i = l) \/ q[i] = r[i]
<1>1. /\ r \in Seq(Row) /\ l \in Nat /\ l = Len(r)
      /\ page.data \in Seq(Char) /\ page.kind \in {"short", "first", "more"}
      /\ q = read_page(r, page)
  BY DEF AtPage
<1>2. CASE page.kind = "short"
  <2>1. IsPage(page)
    BY <1>2 DEF AtPage
  <2>2. Len(q) = Len(r) + page.num_rows /\ \A i \in 1 .. Len(r) : q[i] = r[i]
    BY SMTT(30), <1>1, <1>2, <2>1, ReadShort
  <2> QED
    BY <1>1, <1>2, <2>2
<1>3. CASE page.kind = "first"
  <2>1. Len(q) = Len(r) + 1 /\ \A i \in 1 .. Len(r) : q[i] = r[i]
    BY <1>1, <1>3, ReadFirst
  <2> QED
    BY <1>1, <1>3, <2>1
<1>4. CASE page.kind = "more"
  <2>1. 0 < l /\ r[l] \in Seq(Char)
    BY <1>4 DEF AtPage
  <2>2. PICK k : k = l
    OBVIOUS
  <2>3. k = Len(r) /\ 0 < k /\ r[k] \in Seq(Char)
    BY <1>1, <2>1, <2>2
  <2>4. Len(q) = k /\ \A i \in 1 .. k : q[i] = IF i = k THEN r[k] \o page.data ELSE r[i]
    BY <1>1, <1>4, <2>3, ReadMore
  <2> QED
    BY <1>4, <2>2, <2>4
<1> QED
  BY <1>1, <1>2, <1>3, <1>4

(* The rows after page m are still there after page b. *)
Kept(h, pages, m, b) ==
    /\ Len(h[m]) <= Len(h[b])
    /\ \A k \in 1 .. Len(h[m]) : h[b][k] = h[m][k]
    /\ b = m \/ pages[b].kind = "short" \/ Len(h[m]) < Len(h[b])

(* Once the next page does not continue a string, the rows stay. *)
LEMMA Settled ==
    ASSUME NEW pages, PagesOK(pages), NEW h, IsRead(h, pages),
           NEW m \in 0 .. Len(pages), m < Len(pages) => pages[m + 1].kind # "more"
    PROVE  \A b \in 0 .. Len(pages) : m <= b => Kept(h, pages, m, b)
<1>1. PICK n \in Nat : n = Len(pages)
  BY DEF PagesOK
<1>2. PICK a : a = h[m]
  OBVIOUS
<1>3. a \in Seq(Row)
  <2>1. Reading(h, pages, m)
    BY ReadsType
  <2> QED
    BY <1>2, <2>1 DEF Reading
<1>4. PICK x \in Nat : x = Len(a)
  BY <1>3
<1> DEFINE T == {b \in Nat : m <= b => Kept(h, pages, m, b)}
<1>5. Kept(h, pages, m, m)
  BY <1>2, <1>3, <1>4 DEF Kept
<1>6. 0 \in T
  BY <1>1, <1>5
<1>7. ASSUME NEW j \in 0 .. n - 1, j \in T PROVE j + 1 \in T
  <2>1. PICK b \in 1 .. n : b = j + 1 /\ b - 1 = j
    OBVIOUS
  <2>2. CASE b < m
    BY <1>1, <2>1, <2>2
  <2>3. CASE b = m
    BY <1>5, <2>1, <2>3
  <2>4. CASE m < b
    <3>1. m <= j /\ Kept(h, pages, m, j)
      BY <1>1, <1>7, <2>1, <2>4
    <3>2. PICK page, r, q, l : AtPage(pages, h, b, page, r, q, l)
      BY <1>1, ReadStep
    <3>3. r = h[j] /\ q = h[b] /\ page = pages[b] /\ l \in Nat /\ l = Len(r)
      BY <2>1, <3>2 DEF AtPage
    <3>4. /\ x <= l /\ \A k \in 1 .. x : r[k] = a[k]
          /\ j = m \/ pages[j].kind = "short" \/ x < l
      BY <1>2, <1>4, <3>1, <3>3 DEF Kept
    <3>5. /\ page.kind = "short" => Len(q) = l + page.num_rows
          /\ page.kind = "first" => Len(q) = l + 1
          /\ page.kind = "more" => Len(q) = l
          /\ \A i \in 1 .. l : (page.kind = "more" /\ i = l) \/ q[i] = r[i]
      BY <3>2, PageAdds
    <3>6. page.kind = "short" => page.num_rows \in Nat
      BY <3>2 DEF AtPage, IsPage
    <3>7. page.kind = "more" => x < l
      <4>1. page.kind = "more" => 1 < b /\ pages[b - 1].kind # "short"
        BY <3>2 DEF AtPage
      <4>2. page.kind = "more" => j # m
        BY <1>1, <2>1, <3>3
      <4> QED
        BY <2>1, <3>4, <4>1, <4>2
    <3>8. ASSUME NEW k \in 1 .. x PROVE q[k] = a[k]
      <4>1. k \in 1 .. l /\ r[k] = a[k]
        BY <3>3, <3>4
      <4>2. ~ (page.kind = "more" /\ k = l)
        BY <3>7
      <4> QED
        BY <3>5, <4>1, <4>2
    <3>9. page.kind \in {"short", "first", "more"}
      BY <3>2 DEF AtPage
    <3>10. x <= Len(q) /\ (page.kind = "short" \/ x < Len(q))
      BY SMTT(30), <3>3, <3>4, <3>5, <3>6, <3>7, <3>9
    <3>11. Kept(h, pages, m, b)
      BY <1>2, <1>4, <3>3, <3>8, <3>10 DEF Kept
    <3> QED
      BY <2>1, <3>11
  <2>5. b < m \/ b = m \/ m < b
    BY <1>1
  <2> QED
    BY <2>2, <2>3, <2>4, <2>5
<1>8. \A b \in 0 .. n : b \in T
  <2> HIDE DEF T
  <2> QED
    BY <1>6, <1>7, UpTo
<1> QED
  BY <1>1, <1>8

-----------------------------------------------------------------------------
(* References.                                                             *)

(* A reference to a row leads to its string.  That of an empty string may  *)
(* lead to another string.                                                 *)
RefRight(pages, ref, value) ==
    \/ ref = Null /\ value = Null
    \/ /\ ref \in [page : Nat, pos : Nat] /\ value \in Seq(Char)
       /\ StringOf(pages, ref) \in Seq(Char)
       /\ value # <<>> => StringOf(pages, ref) = value

(* The first offset beyond the start of a string that is not empty is its  *)
(* end.                                                                    *)
LEMMA ShortString ==
    ASSUME NEW page, IsPage(page), NEW i \in Nat, i < page.num_rows, i \in page.bitmap,
           NEW pos, pos = prev_offset(page, data_idx(page, i)), NEW v, v = cell(page, i)
    PROVE  /\ pos \in Nat /\ v \in Seq(Char)
           /\ short_string(page, pos) \in Seq(Char)
           /\ v # <<>> => short_string(page, pos) = v
<1>1. PICK d : d = data_idx(page, i)
  OBVIOUS
<1>2. /\ d \in Nat /\ d + 1 \in 1 .. Len(page.offsets)
      /\ prev_offset(page, d) \in Nat
      /\ prev_offset(page, d) <= page.offsets[d + 1]
      /\ page.offsets[d + 1] \in 0 .. Len(page.data)
  BY <1>1, CellInData
<1>3. PICK o : o = page.offsets
  OBVIOUS
<1>4. PICK s : s = page.data
  OBVIOUS
<1>5. PICK n \in Nat : n = Len(s)
  BY <1>4 DEF IsPage
<1>6. PICK k \in 1 .. Len(o) : k = d + 1
  BY <1>2, <1>3
<1>7. PICK e \in 0 .. n : e = o[k]
  BY <1>2, <1>3, <1>4, <1>5, <1>6
<1>8. pos \in Nat /\ pos <= e
  BY <1>1, <1>2, <1>3, <1>6, <1>7
<1>9. v = SubSeq(s, pos + 1, e)
  BY <1>1, <1>3, <1>4, <1>6, <1>7 DEF cell
<1>10. s \in Seq(Char) /\ o \in Seq(Nat) /\ \A x \in 1 .. Len(o) : o[x] <= n
  BY <1>3, <1>4, <1>5 DEF IsPage
<1>11. PICK longer : longer = {x \in Range(o) : x > pos}
  OBVIOUS
<1>12. short_string(page, pos) = SubSeq(s, pos + 1, IF longer = {} THEN pos ELSE Min(longer))
  BY <1>3, <1>4, <1>11 DEF short_string
<1>13. ASSUME NEW x \in longer
       PROVE  x \in 0 .. n /\ pos < x /\ \E y \in 1 .. Len(o) : x = o[y]
  <2>1. x \in Range(o) /\ x > pos
    BY <1>11
  <2>2. DOMAIN o = 1 .. Len(o)
    BY <1>10
  <2>3. PICK y \in 1 .. Len(o) : x = o[y]
    BY <2>1, <2>2 DEF Range
  <2>4. o[y] \in Nat /\ o[y] <= n
    <3>1. o \in Seq(Nat) /\ y \in 1 .. Len(o)
      BY <1>10
    <3>2. o[y] \in Nat
      BY ONLY <3>1
    <3> QED
      BY <1>10, <3>2
  <2> QED
    BY <1>8, <2>1, <2>3, <2>4
<1>14. longer \in SUBSET Nat
  BY <1>13
<1>15. v \in Seq(Char)
  BY <1>5, <1>7, <1>8, <1>9, <1>10, PartIsString
<1>16. short_string(page, pos) \in Seq(Char)
  <2>1. PICK b : b = IF longer = {} THEN pos ELSE Min(longer)
    OBVIOUS
  <2>2. b \in 0 .. n
    <3>1. CASE longer = {}
      BY <1>7, <1>8, <2>1, <3>1
    <3>2. CASE longer # {}
      <4>1. Min(longer) \in longer
        BY <1>14, <3>2, MinOfSet
      <4> QED
        BY <1>13, <2>1, <3>2, <4>1
    <3> QED
      BY <3>1, <3>2
  <2>3. SubSeq(s, pos + 1, b) \in Seq(Char)
    BY <1>5, <1>8, <1>10, <2>2, PartIsString
  <2> QED
    BY <1>12, <2>1, <2>3
<1>17. ASSUME v # <<>> PROVE short_string(page, pos) = v
  <2>1. pos < e
    <3>1. CASE pos = e
      <4>1. SubSeq(s, pos + 1, pos) = <<>>
        BY <1>8
      <4> QED
        BY <1>9, <1>17, <3>1, <4>1
    <3> QED
      BY <1>8, <3>1
  <2>2. e \in longer
    <3>1. DOMAIN o = 1 .. Len(o)
      BY <1>10
    <3>2. e \in Range(o)
      BY <1>7, <3>1 DEF Range
    <3> QED
      BY <1>11, <2>1, <3>2
  <2>3. PICK x : x = Min(longer)
    OBVIOUS
  <2>4. x \in longer /\ x <= e
    BY <1>14, <2>2, <2>3, MinOfSet
  <2>5. pos < x
    BY <1>13, <2>4
  <2>6. PICK y \in 1 .. Len(o) : x = o[y]
    BY <1>13, <2>4
  <2>7. \A a, b \in 1 .. Len(o) : a <= b => o[a] <= o[b]
    BY <1>3 DEF IsPage
  <2>8. k <= y
    <3>1. SUFFICES ASSUME y < k PROVE FALSE
      BY <1>10
    <3>2. d \in 1 .. Len(o) /\ y <= d /\ d # 0
      <4>1. PICK c \in Nat : c = Len(o)
        BY <1>10
      <4>2. d \in Nat /\ k = d + 1 /\ k \in 1 .. c /\ y \in 1 .. c
        BY <1>2, <1>6, <2>6, <4>1
      <4> QED
        BY ONLY <3>1, <4>1, <4>2
    <3>3. o[y] <= o[d]
      BY <2>7, <3>2
    <3>4. pos = o[d]
      BY <1>1, <1>3, <3>2 DEF prev_offset
    <3> QED
      <4>1. x \in Int /\ pos \in Int
        BY <1>8, <1>13, <2>4
      <4>2. x <= pos
        BY <2>6, <3>3, <3>4
      <4> QED
        BY ONLY <2>5, <4>1, <4>2
  <2>9. e <= x
    BY <1>7, <2>6, <2>7, <2>8
  <2>10. x = e
    BY <1>13, <2>4, <2>9
  <2> QED
    BY <1>9, <1>12, <2>2, <2>3, <2>10
<1> QED
  BY <1>8, <1>15, <1>16, <1>17

(* The reference that column_t_copy_scan makes to row i of page p. *)
LEMMA ShortRefRight ==
    ASSUME NEW pages, NEW p \in Nat, NEW page, page = pages[p + 1],
           page.kind = "short", IsPage(page), NEW i \in Nat, i < page.num_rows,
           NEW ref, ref = IF i \in page.bitmap
                          THEN [page |-> p, pos |-> prev_offset(page, data_idx(page, i))]
                          ELSE Null
    PROVE  RefRight(pages, ref, cell(page, i))
<1>1. CASE i \in page.bitmap
  <2>1. PICK pos : pos = prev_offset(page, data_idx(page, i))
    OBVIOUS
  <2>2. PICK v : v = cell(page, i)
    OBVIOUS
  <2>3. /\ pos \in Nat /\ v \in Seq(Char)
        /\ short_string(page, pos) \in Seq(Char)
        /\ v # <<>> => short_string(page, pos) = v
    BY <1>1, <2>1, <2>2, ShortString
  <2>4. ref = [page |-> p, pos |-> pos]
    BY <1>1, <2>1
  <2>5. ref \in [page : Nat, pos : Nat] /\ ref.page = p /\ ref.pos = pos
    BY <2>3, <2>4
  <2>6. StringOf(pages, ref) = short_string(page, pos)
    BY <2>5 DEF StringOf
  <2> QED
    BY <2>2, <2>3, <2>5, <2>6 DEF RefRight
<1>2. CASE i \notin page.bitmap
  BY <1>2 DEF RefRight, cell
<1> QED
  BY <1>1, <1>2

(* The pages that continue a long string, and its characters on them. *)
Continues(pages, m, e) ==
    /\ e \in m .. Len(pages)
    /\ \A b \in m + 1 .. e : pages[b].kind = "more"
    /\ e < Len(pages) => pages[e + 1].kind # "more"

Rest(pages, m, e) == [k \in 1 .. e - m |-> pages[m + k].data]

LEMMA ContinuedPages ==
    ASSUME NEW pages, PagesOK(pages), NEW m \in 1 .. Len(pages), NEW p, p = m - 1
    PROVE  \E e : /\ Continues(pages, m, e)
                  /\ continued(pages, p) = FlattenSeq(Rest(pages, m, e))
                  /\ Rest(pages, m, e) \in Seq(Seq(Char))
<1>1. PICK n \in Nat : n = Len(pages)
  BY DEF PagesOK
<1>2. p + 1 = m /\ m \in 1 .. n
  BY <1>1
<1>3. PICK E : E = {q \in p + 1 .. Len(pages) : ~IsMore(pages, q)}
  OBVIOUS
<1>4. E = {q \in m .. n : ~IsMore(pages, q)}
  BY <1>1, <1>2, <1>3
<1>5. E \in SUBSET Nat /\ n \in E
  <2>1. ~IsMore(pages, n)
    BY <1>1 DEF IsMore
  <2>2. n \in m .. n /\ m .. n \subseteq Nat
    BY <1>1, <1>2
  <2> QED
    BY <1>4, <2>1, <2>2
<1>6. PICK e : e = Min(E)
  OBVIOUS
<1>7. e \in E /\ \A x \in E : e <= x
  <2>1. E # {}
    BY <1>5
  <2> QED
    BY <1>5, <1>6, <2>1, MinOfSet
<1>8. e \in m .. n /\ ~IsMore(pages, e)
  BY <1>4, <1>7
<1>9. ASSUME NEW b \in m + 1 .. e PROVE pages[b].kind = "more"
  <2>1. PICK q \in m .. n : q = b - 1 /\ q + 1 = b /\ q < e
    BY <1>1, <1>2, <1>8
  <2>2. q \notin E
    BY <1>2, <1>7, <1>8, <2>1
  <2>3. IsMore(pages, q)
    BY <1>4, <2>1, <2>2
  <2> QED
    BY <2>1, <2>3 DEF IsMore
<1>10. e < n => pages[e + 1].kind # "more"
  BY <1>1, <1>8 DEF IsMore
<1>11. Continues(pages, m, e)
  BY <1>1, <1>8, <1>9, <1>10 DEF Continues
<1>12. continued(pages, p) = FlattenSeq(Rest(pages, m, e))
  <2>1. continued(pages, p) = FlattenSeq([k \in 1 .. e - p - 1 |-> pages[p + 1 + k].data])
    BY <1>3, <1>6 DEF continued
  <2>2. [k \in 1 .. e - p - 1 |-> pages[p + 1 + k].data] = Rest(pages, m, e)
    <3>1. e - p - 1 = e - m
      BY <1>2, <1>8
    <3>2. \A k \in 1 .. e - m : p + 1 + k = m + k
      BY <1>2
    <3> QED
      BY <3>1, <3>2 DEF Rest
  <2> QED
    BY <2>1, <2>2
<1>13. Rest(pages, m, e) \in Seq(Seq(Char))
  <2>1. PICK x \in Nat : x = e - m
    BY <1>2, <1>8
  <2>2. ASSUME NEW k \in 1 .. x PROVE pages[m + k].data \in Seq(Char)
    <3>1. m + k \in 1 .. n
      BY <1>2, <1>8, <2>1
    <3>2. pages[m + k] \in Page
      BY <1>1, <3>1 DEF PagesOK
    <3> QED
      BY <3>2, PageKinds
  <2>3. PICK W : W = Seq(Char)
    OBVIOUS
  <2>4. Rest(pages, m, e) = [k \in 1 .. x |-> pages[m + k].data]
    BY <2>1 DEF Rest
  <2>5. [k \in 1 .. x |-> pages[m + k].data] \in Seq(W)
    <3>1. PICK f : f = [k \in 1 .. x |-> pages[m + k].data]
      OBVIOUS
    <3>2. f = [k \in 1 .. x |-> f[k]] /\ \A k \in 1 .. x : f[k] \in W
      BY <2>2, <2>3, <3>1
    <3> QED
      BY SMTT(30), <3>1, <3>2, IsSeq
  <2> QED
    BY <2>3, <2>4, <2>5
<1> QED
  BY <1>11, <1>12, <1>13

(* A long string w begins on page m, with d; it is row l. *)
Begins(pages, h, m, p, l, d, w) ==
    /\ PagesOK(pages) /\ IsRead(h, pages)
    /\ m \in 1 .. Len(pages) /\ pages[m].kind = "first"
    /\ p = m - 1 /\ l = Len(h[m]) /\ d = pages[m].data /\ w = h[Len(pages)][l]

(* It is read from its pages as its reference finds it. *)
LEMMA LongRow ==
    ASSUME NEW pages, NEW h, NEW m, NEW p, NEW l, NEW d, NEW w,
           Begins(pages, h, m, p, l, d, w)
    PROVE  w = d \o continued(pages, p) /\ w \in Seq(Char)
<1>0. /\ PagesOK(pages) /\ IsRead(h, pages)
      /\ m \in 1 .. Len(pages) /\ pages[m].kind = "first"
      /\ p = m - 1 /\ l = Len(h[m]) /\ d = pages[m].data /\ w = h[Len(pages)][l]
  BY DEF Begins
<1> USE <1>0
<1>1. PICK n \in Nat : n = Len(pages)
  BY DEF PagesOK
<1>2. PICK e : /\ Continues(pages, m, e)
               /\ continued(pages, p) = FlattenSeq(Rest(pages, m, e))
               /\ Rest(pages, m, e) \in Seq(Seq(Char))
  BY ContinuedPages
<1>3. PICK s : s = Rest(pages, m, e)
  OBVIOUS
<1>4. e \in m .. n /\ m \in 1 .. n
  BY <1>1, <1>2 DEF Continues
<1>5. PICK x \in Nat : x = e - m
  BY <1>4
<1>6. /\ s \in Seq(Seq(Char)) /\ Len(s) = x
      /\ \A k \in 1 .. x : s[k] = pages[m + k].data
  <2>1. s = [k \in 1 .. x |-> pages[m + k].data]
    BY <1>3, <1>5 DEF Rest
  <2>2. s \in Seq(Seq(Char))
    BY <1>2, <1>3
  <2>3. DOMAIN s = 1 .. x
    BY <2>1
  <2>4. Len(s) = x
    BY <1>5, <2>2, <2>3
  <2> QED
    BY <2>1, <2>2, <2>4
<1>7. PICK g : /\ g[0] = <<>>
               /\ \A k \in 1 .. Len(s) : g[k] = g[k - 1] \o s[k]
               /\ FlattenSeq(s) = g[Len(s)]
  BY <1>6, FlattenSteps
<1>8. d \in Seq(Char)
  <2>1. pages[m] \in Page
    BY DEF PagesOK
  <2> QED
    BY <2>1, PageKinds
<1>9. l \in Nat /\ 0 < l /\ h[m][l] = d
  <2>1. PICK page, r, q, y : AtPage(pages, h, m, page, r, q, y)
    BY ReadStep
  <2>2. /\ page = pages[m] /\ r \in Seq(Row) /\ q = h[m] /\ q = read_page(r, page)
    BY <2>1 DEF AtPage
  <2>3. Len(q) = Len(r) + 1 /\ q[Len(r) + 1] = d
    BY <1>8, <2>2, ReadFirst
  <2>4. Len(r) \in Nat
    BY <2>2
  <2> QED
    BY <2>2, <2>3, <2>4
<1> DEFINE T == {k \in Nat : /\ g[k] \in Seq(Char) /\ Len(h[m + k]) = l
                             /\ h[m + k][l] = d \o g[k]}
<1>10. 0 \in T
  <2>1. PICK z : z = <<>>
    OBVIOUS
  <2>2. z \in Seq(Char) /\ d \o z = d
    BY <1>8, <2>1, ConcatEmptySeq
  <2>3. m + 0 = m
    BY <1>4
  <2> QED
    BY <1>7, <1>9, <2>1, <2>2, <2>3
<1>11. ASSUME NEW j \in 0 .. x - 1, j \in T PROVE j + 1 \in T
  <2>1. PICK k \in 1 .. x : k = j + 1 /\ k - 1 = j
    BY <1>5
  <2>2. PICK b \in 1 .. n : b = m + k /\ b - 1 = m + j /\ b \in m + 1 .. e
    BY <1>4, <1>5, <2>1
  <2>3. PICK page, r, q, y : AtPage(pages, h, b, page, r, q, y)
    BY <1>1, ReadStep
  <2>4. /\ page = pages[b] /\ r = h[m + j] /\ q = h[b] /\ r \in Seq(Row)
        /\ q = read_page(r, page) /\ y = Len(r) /\ page.data \in Seq(Char)
    BY <2>2, <2>3 DEF AtPage
  <2>5. page.kind = "more"
    BY <1>2, <2>2, <2>4 DEF Continues
  <2>6. PICK u : u = g[j]
    OBVIOUS
  <2>7. u \in Seq(Char) /\ Len(r) = l /\ r[l] = d \o u
    BY <1>11, <2>4, <2>6
  <2>8. PICK i : i = l
    OBVIOUS
  <2>9. i = Len(r) /\ 0 < i /\ r[i] \in Seq(Char)
    <3>1. d \o u \in Seq(Char)
      BY <1>8, <2>7, ConcatProperties
    <3> QED
      BY <1>9, <2>7, <2>8, <3>1
  <2>10. Len(q) = i /\ \A z \in 1 .. i : q[z] = IF z = i THEN r[i] \o page.data ELSE r[z]
    <3>1. /\ r \in Seq(Row) /\ page.kind = "more" /\ page.data \in Seq(Char)
          /\ i = Len(r) /\ 0 < i /\ r[i] \in Seq(Char) /\ q = read_page(r, page)
      BY <2>4, <2>5, <2>9
    <3> QED
      BY ONLY <3>1, ReadMore
  <2>11. PICK t : t = page.data
    OBVIOUS
  <2>12. Len(q) = l /\ q[l] = (d \o u) \o t
    <3>1. l \in 1 .. l
      BY <1>9
    <3> QED
      BY <2>7, <2>8, <2>10, <2>11, <3>1
  <2>13. g[k] = u \o t
    <3>1. s[k] = t
      BY <1>6, <2>1, <2>2, <2>4, <2>11
    <3>2. g[k] = g[k - 1] \o s[k]
      BY <1>6, <1>7, <2>1
    <3> QED
      BY <2>1, <2>6, <3>1, <3>2
  <2>14. u \o t \in Seq(Char) /\ (d \o u) \o t = d \o (u \o t)
    <3>1. t \in Seq(Char)
      BY <2>4, <2>11
    <3>2. u \o t \in Seq(Char)
      BY <2>7, <3>1, ConcatProperties
    <3>3. (d \o u) \o t = d \o (u \o t)
      <4>1. d \in Seq(Char) /\ u \in Seq(Char) /\ t \in Seq(Char)
        BY <1>8, <2>7, <3>1
      <4> QED
        BY ONLY <4>1, ConcatAssociative
    <3> QED
      BY <3>2, <3>3
  <2>15. /\ g[k] \in Seq(Char) /\ Len(h[m + k]) = l /\ h[m + k][l] = d \o g[k]
    BY <2>2, <2>4, <2>12, <2>13, <2>14
  <2>16. k \in T
    <3>1. k \in Nat
      BY <1>5
    <3> QED
      BY <2>15, <3>1
  <2> HIDE DEF T
  <2> QED
    BY <2>1, <2>16
<1>12. x \in T
  <2>1. x \in 0 .. x
    BY <1>5
  <2> HIDE DEF T
  <2> QED
    BY <1>10, <1>11, <2>1, UpTo
<1>13. PICK c : c = g[x]
  OBVIOUS
<1>14. c \in Seq(Char) /\ Len(h[e]) = l /\ h[e][l] = d \o c
  <2>1. m + x = e
    BY <1>4, <1>5
  <2> QED
    BY <1>12, <1>13, <2>1
<1>15. continued(pages, p) = c
  BY <1>2, <1>3, <1>6, <1>7, <1>13
<1>16. w = h[e][l]
  <2>1. e \in 0 .. Len(pages) /\ n \in 0 .. Len(pages) /\ e <= n
    BY <1>1, <1>4
  <2>2. e < Len(pages) => pages[e + 1].kind # "more"
    BY <1>2 DEF Continues
  <2>3. Kept(h, pages, e, n)
    BY <2>1, <2>2, Settled
  <2>4. l \in 1 .. Len(h[e])
    BY <1>9, <1>14
  <2> QED
    BY <1>1, <2>3, <2>4 DEF Kept
<1>17. d \o c \in Seq(Char)
  BY <1>8, <1>14, ConcatProperties
<1> QED
  BY <1>8, <1>9, <1>14, <1>15, <1>16, <1>17

LEMMA LongRefRight ==
    ASSUME NEW pages, NEW h, NEW m, NEW p, NEW l, NEW d, NEW w,
           Begins(pages, h, m, p, l, d, w),
           NEW pos \in Nat, NEW ref, ref = [page |-> p, pos |-> pos]
    PROVE  RefRight(pages, ref, w)
<1>1. w = d \o continued(pages, p) /\ w \in Seq(Char)
  BY LongRow
<1>2. /\ PagesOK(pages) /\ m \in 1 .. Len(pages) /\ pages[m].kind = "first"
      /\ p = m - 1 /\ d = pages[m].data
  BY DEF Begins
<1>3. Len(pages) \in Nat
  BY <1>2 DEF PagesOK
<1>4. p \in Nat /\ p + 1 = m
  BY <1>2, <1>3
<1>5. ref \in [page : Nat, pos : Nat] /\ ref.page = p
  BY <1>4
<1>6. StringOf(pages, ref) = print_varchar(pages, ref)
  BY <1>2, <1>4, <1>5 DEF StringOf
<1>7. print_varchar(pages, ref) = d \o continued(pages, p)
  BY <1>2, <1>4, <1>5 DEF print_varchar
<1> QED
  BY <1>1, <1>5, <1>6, <1>7 DEF RefRight

(* The references made so far, on n pages: one for each row on these, and  *)
(* each leads to its row.                                                  *)
Reference == [page : Nat, pos : Nat] \cup {Null}

RefsRight(pages, n, rs) ==
    /\ PagesOK(pages) /\ n \in 0 .. Len(pages) /\ rs \in Seq(Reference)
    /\ \A h : IsRead(h, pages) => Len(rs) = Len(h[n])
    /\ \A k \in 1 .. Len(rs) : RefRight(pages, rs[k], copy_scan(pages)[k])

LEMMA NoRefs ==
    ASSUME NEW pages, PagesOK(pages)
    PROVE  RefsRight(pages, 0, <<>>)
<1>1. PICK e : e = <<>>
  OBVIOUS
<1>2. e \in Seq(Reference) /\ Len(e) = 0
  BY <1>1
<1>3. 0 \in 0 .. Len(pages)
  BY DEF PagesOK
<1>4. \A h : IsRead(h, pages) => h[0] = e
  BY <1>1 DEF IsRead
<1>5. 1 .. 0 = {}
  OBVIOUS
<1> QED
  BY <1>1, <1>2, <1>3, <1>4, <1>5 DEF RefsRight

(* What has to be shown of a page more. *)
LEMMA MoreRefs ==
    ASSUME NEW pages, NEW n, NEW rs, RefsRight(pages, n, rs),
           NEW m, m = n + 1, n < Len(pages),
           NEW more \in Seq(Reference), NEW h, IsRead(h, pages),
           Len(more) = Len(h[m]), Len(rs) <= Len(more),
           \A k \in 1 .. Len(rs) : more[k] = rs[k],
           \A k \in 1 .. Len(more) : k > Len(rs) => RefRight(pages, more[k], h[Len(pages)][k])
    PROVE  RefsRight(pages, m, more)
<1>1. PagesOK(pages) /\ n \in 0 .. Len(pages) /\ rs \in Seq(Reference)
  BY DEF RefsRight
<1>2. PICK N \in Nat : N = Len(pages)
  BY <1>1 DEF PagesOK
<1>3. m \in 0 .. Len(pages)
  BY <1>1, <1>2
<1>4. ASSUME NEW g, IsRead(g, pages) PROVE Len(more) = Len(g[m])
  <2>1. \A k \in 0 .. Len(pages) : g[k] = h[k]
    <3>1. Len(pages) \in Nat /\ Len(pages) <= Len(pages)
      BY <1>2
    <3>2. \A k \in 1 .. Len(pages) : pages[k] = pages[k]
      OBVIOUS
    <3> QED
      BY <1>4, <3>1, <3>2, ReadPrefix
  <2> QED
    BY <1>3, <2>1
<1>5. copy_scan(pages) = h[Len(pages)]
  BY <1>2, ReadsAre
<1>6. ASSUME NEW k \in 1 .. Len(more)
      PROVE  RefRight(pages, more[k], copy_scan(pages)[k])
  <2>1. CASE k > Len(rs)
    BY <1>5, <2>1
  <2>2. CASE ~(k > Len(rs))
    <3>1. k \in 1 .. Len(rs)
      BY <1>1, <2>2
    <3>2. RefRight(pages, rs[k], copy_scan(pages)[k])
      BY <3>1 DEF RefsRight
    <3>3. more[k] = rs[k]
      BY <3>1
    <3> QED
      BY <3>2, <3>3
  <2> QED
    BY <2>1, <2>2
<1> QED
  BY <1>1, <1>3, <1>4, <1>6 DEF RefsRight

(* The references to the rows of a page of short strings. *)
LEMMA ShortPageRefs ==
    ASSUME NEW pages, NEW n, NEW rs, RefsRight(pages, n, rs), n < Len(pages),
           NEW m, m = n + 1, pages[m].kind = "short",
           NEW more, more = rs \o ShortRefs(pages[m], n)
    PROVE  RefsRight(pages, m, more)
<1>1. PagesOK(pages) /\ n \in 0 .. Len(pages) /\ rs \in Seq(Reference)
  BY DEF RefsRight
<1>2. PICK N \in Nat : N = Len(pages)
  BY <1>1 DEF PagesOK
<1>3. n \in Nat /\ m \in 1 .. N /\ m - 1 = n /\ m \in 0 .. N
  BY <1>1, <1>2
<1>4. PICK h : IsRead(h, pages) /\ copy_scan(pages) = h[N]
  BY <1>2, ReadSteps
<1>5. PICK page, r, q, l : AtPage(pages, h, m, page, r, q, l)
  BY <1>1, <1>2, <1>3, <1>4, ReadStep
<1>6. /\ page = pages[m] /\ r = h[n] /\ q = h[m] /\ l \in Nat /\ l = Len(r)
      /\ r \in Seq(Row) /\ q = read_page(r, page) /\ IsPage(page)
  BY <1>3, <1>5 DEF AtPage
<1>7. PICK x \in Nat : x = page.num_rows
  BY <1>6 DEF IsPage
<1>8. /\ Len(q) = l + x
      /\ \A i \in 1 .. x : q[l + i] = cell(page, i - 1)
  <2>1. page.kind = "short"
    BY <1>6
  <2>2. /\ Len(q) = Len(r) + page.num_rows
        /\ \A i \in 1 .. page.num_rows : q[Len(r) + i] = cell(page, i - 1)
    <3>1. r \in Seq(Row) /\ page.kind = "short" /\ IsPage(page) /\ q = read_page(r, page)
      BY <1>6, <2>1
    <3> QED
      BY ONLY SMTT(30), <3>1, ReadShort
  <2> QED
    BY <1>6, <1>7, <2>2
<1>9. Len(rs) = l
  BY <1>4, <1>6 DEF RefsRight
<1>10. PICK s : s = ShortRefs(page, n)
  OBVIOUS
<1>11. ASSUME NEW i \in 1 .. x
       PROVE  /\ RefRight(pages, s[i], cell(page, i - 1))
              /\ s[i] \in Reference
  <2>1. PICK j \in Nat : j = i - 1 /\ j < x
    BY <1>7
  <2>2. PICK ref : ref = s[i]
    OBVIOUS
  <2>3. ref = IF j \in page.bitmap
              THEN [page |-> n, pos |-> prev_offset(page, data_idx(page, j))]
              ELSE Null
    BY <1>7, <1>10, <2>1, <2>2 DEF ShortRefs
  <2>4. RefRight(pages, ref, cell(page, j))
    <3>1. n \in Nat /\ page = pages[n + 1] /\ page.kind = "short" /\ IsPage(page)
      BY <1>3, <1>6
    <3>2. j < page.num_rows
      BY <1>7, <2>1
    <3> QED
      BY <2>3, <3>1, <3>2, ShortRefRight
  <2>5. ref \in Reference
    BY <2>4 DEF RefRight, Reference
  <2> QED
    BY <2>1, <2>2, <2>4, <2>5
<1>12. s \in Seq(Reference) /\ Len(s) = x
  <2>1. s = [i \in 1 .. x |-> s[i]]
    BY <1>7, <1>10 DEF ShortRefs
  <2>2. \A i \in 1 .. x : s[i] \in Reference
    BY <1>11
  <2> QED
    BY <1>7, <2>1, <2>2, IsSeq
<1>13. /\ more \in Seq(Reference) /\ Len(more) = l + x
       /\ \A k \in 1 .. l : more[k] = rs[k]
       /\ \A i \in 1 .. x : more[l + i] = s[i]
  <2>1. PICK V : V = Reference
    OBVIOUS
  <2>2. rs \in Seq(V) /\ s \in Seq(V) /\ l = Len(rs) /\ x = Len(s)
    BY <1>1, <1>9, <1>12, <2>1
  <2>3. /\ rs \o s \in Seq(V) /\ Len(rs \o s) = l + x
        /\ \A k \in 1 .. l : (rs \o s)[k] = rs[k]
        /\ \A i \in 1 .. x : (rs \o s)[l + i] = s[i]
    BY ONLY <2>2, ConcatenationAt
  <2>4. more = rs \o s
    BY <1>6, <1>10
  <2> QED
    BY <2>1, <2>3, <2>4
<1>14. Kept(h, pages, m, N)
  <2>1. m < Len(pages) => pages[m + 1].kind # "more"
    <3>1. m < Len(pages) => m + 1 \in 1 .. Len(pages) /\ (m + 1) - 1 = m
      BY <1>2, <1>3
    <3> QED
      BY <1>1, <3>1 DEF PagesOK
  <2>2. m \in 0 .. Len(pages) /\ N \in 0 .. Len(pages) /\ m <= N
    BY <1>2, <1>3
  <2> QED
    BY <1>1, <1>4, <2>1, <2>2, Settled
<1>15. ASSUME NEW k \in 1 .. Len(more), k > Len(rs)
       PROVE  RefRight(pages, more[k], h[Len(pages)][k])
  <2>1. PICK i \in 1 .. x : i = k - l /\ l + i = k
    <3>1. k \in 1 .. l + x /\ k > l
      BY <1>9, <1>13, <1>15
    <3>2. k - l \in 1 .. x /\ l + (k - l) = k
      BY <1>6, <3>1
    <3> QED
      BY <3>2
  <2>2. more[k] = s[i] /\ q[k] = cell(page, i - 1)
    BY <1>8, <1>13, <2>1
  <2>3. h[N][k] = q[k]
    BY <1>6, <1>8, <1>13, <1>14 DEF Kept
  <2> QED
    BY <1>2, <1>11, <2>1, <2>2, <2>3
<1>16. Len(more) = Len(h[m]) /\ Len(rs) <= Len(more)
  BY <1>6, <1>8, <1>9, <1>13
<1>17. \A k \in 1 .. Len(rs) : more[k] = rs[k]
  BY <1>9, <1>13
<1> QED
  BY <1>4, <1>13, <1>15, <1>16, <1>17, MoreRefs

(* The reference to a long string. *)
LEMMA LongPageRefs ==
    ASSUME NEW pages, NEW n, NEW rs, RefsRight(pages, n, rs), n < Len(pages),
           NEW m, m = n + 1, pages[m].kind = "first", NEW pos \in Nat,
           NEW more, more = Append(rs, [page |-> n, pos |-> pos])
    PROVE  RefsRight(pages, m, more)
<1>1. PagesOK(pages) /\ n \in 0 .. Len(pages) /\ rs \in Seq(Reference)
  BY DEF RefsRight
<1>2. PICK N \in Nat : N = Len(pages)
  BY <1>1 DEF PagesOK
<1>3. n \in Nat /\ m \in 1 .. N /\ m - 1 = n /\ m \in 0 .. N
  BY <1>1, <1>2
<1>4. PICK h : IsRead(h, pages) /\ copy_scan(pages) = h[N]
  BY <1>2, ReadSteps
<1>5. PICK page, r, q, l : AtPage(pages, h, m, page, r, q, l)
  BY <1>1, <1>2, <1>3, <1>4, ReadStep
<1>6. page = pages[m] /\ r = h[n] /\ q = h[m] /\ l \in Nat /\ l = Len(r)
  BY <1>3, <1>5 DEF AtPage
<1>7. Len(q) = l + 1
  <2>1. page.kind = "first"
    BY <1>6
  <2>2. page.kind = "first" => Len(q) = l + 1
    BY <1>5, PageAdds
  <2> QED
    BY <2>1, <2>2
<1>8. Len(rs) = l
  BY <1>4, <1>6 DEF RefsRight
<1>9. PICK ref : ref = [page |-> n, pos |-> pos]
  OBVIOUS
<1>10. ref \in Reference
  BY <1>3, <1>9 DEF Reference
<1>11. /\ more \in Seq(Reference) /\ Len(more) = l + 1 /\ more[l + 1] = ref
       /\ \A k \in 1 .. l : more[k] = rs[k]
  BY <1>1, <1>8, <1>9, <1>10
<1>12. PICK d : d = page.data
  OBVIOUS
<1>13. PICK j : j = l + 1
  OBVIOUS
<1>14. PICK w : w = h[N][j]
  OBVIOUS
<1>15. Begins(pages, h, m, n, j, d, w)
  BY <1>1, <1>2, <1>3, <1>4, <1>6, <1>7, <1>12, <1>13, <1>14 DEF Begins
<1>16. RefRight(pages, ref, w)
  BY <1>9, <1>15, LongRefRight
<1>17. ASSUME NEW k \in 1 .. Len(more), k > Len(rs)
       PROVE  RefRight(pages, more[k], h[Len(pages)][k])
  <2>1. k = j
    BY <1>6, <1>8, <1>11, <1>13, <1>17
  <2> QED
    BY <1>2, <1>11, <1>13, <1>14, <1>16, <2>1
<1>18. Len(more) = Len(h[m]) /\ Len(rs) <= Len(more)
  BY <1>6, <1>7, <1>8, <1>11
<1>19. \A k \in 1 .. Len(rs) : more[k] = rs[k]
  BY <1>8, <1>11
<1> QED
  BY <1>4, <1>11, <1>17, <1>18, <1>19, MoreRefs

(* A page that continues a string adds no row. *)
LEMMA MorePageRefs ==
    ASSUME NEW pages, NEW n, NEW rs, RefsRight(pages, n, rs), n < Len(pages),
           NEW m, m = n + 1, pages[m].kind = "more"
    PROVE  RefsRight(pages, m, rs)
<1>1. PagesOK(pages) /\ n \in 0 .. Len(pages) /\ rs \in Seq(Reference)
  BY DEF RefsRight
<1>2. PICK N \in Nat : N = Len(pages)
  BY <1>1 DEF PagesOK
<1>3. n \in Nat /\ m \in 1 .. N /\ m - 1 = n
  BY <1>1, <1>2
<1>4. PICK h : IsRead(h, pages) /\ copy_scan(pages) = h[N]
  BY <1>2, ReadSteps
<1>5. PICK page, r, q, l : AtPage(pages, h, m, page, r, q, l)
  BY <1>1, <1>2, <1>3, <1>4, ReadStep
<1>6. page = pages[m] /\ r = h[n] /\ q = h[m] /\ l \in Nat /\ l = Len(r)
  BY <1>3, <1>5 DEF AtPage
<1>7. Len(q) = l
  <2>1. page.kind = "more"
    BY <1>6
  <2>2. page.kind = "more" => Len(q) = l
    BY <1>5, PageAdds
  <2> QED
    BY <2>1, <2>2
<1>8. Len(rs) = l
  BY <1>4, <1>6 DEF RefsRight
<1>9. \A k \in 1 .. Len(rs) : k > Len(rs) => RefRight(pages, rs[k], h[Len(pages)][k])
  BY <1>6, <1>8
<1>10. Len(rs) = Len(h[m]) /\ Len(rs) <= Len(rs) /\ \A k \in 1 .. Len(rs) : rs[k] = rs[k]
  BY <1>6, <1>7, <1>8
<1> QED
  BY <1>1, <1>4, <1>9, <1>10, MoreRefs

-----------------------------------------------------------------------------
(* The rows on the pages are the rows inserted.                            *)

RowsFor(rs) ==
    [r \in DOMAIN rs |-> IF rs[r] = Null THEN Null ELSE String(r, rs[r])]

(* The inductive invariant, about the column inserted. *)
InsertInv ==
    /\ rows \in Seq(Lengths \cup {Null})
    /\ Whole(inserter) /\ RowsOf(inserter) = RowsFor(rows)

LEMMA RowsForType ==
    ASSUME NEW rs \in Seq(Lengths \cup {Null})
    PROVE  RowsFor(rs) \in Seq(Row) /\ Len(RowsFor(rs)) = Len(rs)
<1>1. PICK n \in Nat : n = Len(rs)
  OBVIOUS
<1>2. PICK f : f = RowsFor(rs)
  OBVIOUS
<1>3. DOMAIN rs = 1 .. n /\ \A r \in 1 .. n : rs[r] \in Lengths \cup {Null}
  BY <1>1
<1>4. /\ f = [r \in 1 .. n |-> f[r]]
      /\ \A r \in 1 .. n : f[r] = IF rs[r] = Null THEN Null ELSE String(r, rs[r])
  BY <1>2, <1>3 DEF RowsFor
<1>5. ASSUME NEW r \in 1 .. n PROVE f[r] \in Row
  <2>1. CASE rs[r] = Null
    BY <1>4, <2>1 DEF Row
  <2>2. CASE rs[r] # Null
    <3>1. rs[r] \in Nat /\ r \in Nat
      <4>1. rs[r] \in Lengths
        BY <1>3, <2>2
      <4>2. Lengths \subseteq Nat
        BY VarcharAssumption
      <4>3. rs[r] \in Nat
        BY ONLY <4>1, <4>2
      <4>4. r \in Nat
        OBVIOUS
      <4> QED
        BY <4>3, <4>4
    <3>2. String(r, rs[r]) \in Seq(Char)
      BY <3>1, StringsAreSequences
    <3> QED
      BY <1>4, <2>2, <3>2 DEF Row
  <2> QED
    BY <2>1, <2>2
<1> QED
  BY <1>1, <1>2, <1>4, <1>5, IsSeq

LEMMA RowsForAppend ==
    ASSUME NEW rs \in Seq(Lengths \cup {Null}), NEW v \in Lengths \cup {Null},
           NEW k, k = Len(rs) + 1
    PROVE  RowsFor(Append(rs, v)) =
               Append(RowsFor(rs), IF v = Null THEN Null ELSE String(k, v))
<1>1. PICK n \in Nat : n = Len(rs)
  OBVIOUS
<1>2. PICK more : more = Append(rs, v)
  OBVIOUS
<1>3. /\ more \in Seq(Lengths \cup {Null}) /\ Len(more) = n + 1 /\ more[n + 1] = v
      /\ \A r \in 1 .. n : more[r] = rs[r]
      /\ DOMAIN more = 1 .. n + 1 /\ DOMAIN rs = 1 .. n
  BY <1>1, <1>2
<1>4. PICK f : f = RowsFor(rs)
  OBVIOUS
<1>5. PICK g : g = RowsFor(more)
  OBVIOUS
<1>6. PICK x : x = IF v = Null THEN Null ELSE String(k, v)
  OBVIOUS
<1>7. f \in Seq(Row) /\ Len(f) = n
  BY <1>1, <1>4, RowsForType
<1>8. g \in Seq(Row) /\ Len(g) = n + 1
  BY <1>3, <1>5, RowsForType
<1>9. g[n + 1] = x
  <2>1. n + 1 \in DOMAIN more /\ k = n + 1
    BY <1>1, <1>3
  <2>2. g[n + 1] = IF more[n + 1] = Null THEN Null ELSE String(n + 1, more[n + 1])
    BY <1>5, <2>1 DEF RowsFor
  <2> QED
    BY <1>3, <1>6, <2>1, <2>2
<1>10. ASSUME NEW r \in 1 .. n PROVE g[r] = f[r]
  <2>1. r \in DOMAIN more /\ r \in DOMAIN rs
    BY <1>3
  <2>2. g[r] = IF more[r] = Null THEN Null ELSE String(r, more[r])
    BY <1>5, <2>1 DEF RowsFor
  <2>3. f[r] = IF rs[r] = Null THEN Null ELSE String(r, rs[r])
    BY <1>4, <2>1 DEF RowsFor
  <2> QED
    BY <1>3, <2>2, <2>3
<1>11. x \in Row
  <2>1. n + 1 \in 1 .. n + 1
    BY <1>1
  <2> QED
    BY <1>8, <1>9, <2>1
<1>12. /\ Append(f, x) \in Seq(Row) /\ Len(Append(f, x)) = n + 1
       /\ Append(f, x)[n + 1] = x
       /\ \A r \in 1 .. n : Append(f, x)[r] = f[r]
  BY <1>7, <1>11
<1>13. ASSUME NEW r \in 1 .. n + 1 PROVE g[r] = Append(f, x)[r]
  <2>1. CASE r = n + 1
    BY <1>9, <1>12, <2>1
  <2>2. CASE r # n + 1
    <3>1. r \in 1 .. n
      BY <1>1, <2>2
    <3> QED
      BY <1>10, <1>12, <3>1
  <2> QED
    BY <2>1, <2>2
<1>14. g = Append(f, x)
  BY <1>8, <1>12, <1>13, EqualSeqs
<1> QED
  BY <1>2, <1>4, <1>5, <1>6, <1>14

LEMMA InsertKeeps ==
    ASSUME NEW v \in Lengths \cup {Null}, InsertInv, Insert(v)
    PROVE  InsertInv'
<1>1. rows' = Append(rows, v)
  BY DEF Insert
<1>2. rows \in Seq(Lengths \cup {Null}) /\ Whole(inserter) /\ RowsOf(inserter) = RowsFor(rows)
  BY DEF InsertInv
<1>3. rows' \in Seq(Lengths \cup {Null}) /\ Len(rows') = Len(rows) + 1 /\ Len(rows) \in Nat
  BY <1>1, <1>2
<1>4. PICK k \in Nat : k = Len(rows) + 1
  BY <1>3
<1>5. RowsFor(rows') = Append(RowsFor(rows), IF v = Null THEN Null ELSE String(k, v))
  BY <1>1, <1>2, <1>4, RowsForAppend
<1>6. CASE v = Null
  <2>1. inserter' = insert_null(inserter)
    BY <1>6 DEF Insert
  <2>2. Whole(inserter') /\ RowsOf(inserter') = Append(RowsOf(inserter), Null)
    BY <1>2, <2>1, InsertNullAddsRow
  <2> QED
    BY <1>2, <1>3, <1>5, <1>6, <2>2 DEF InsertInv
<1>7. CASE v # Null
  <2>1. PICK s : s = String(k, v)
    OBVIOUS
  <2>2. s \in Seq(Char)
    BY <1>7, <2>1, StringsAreSequences, VarcharAssumption
  <2>3. inserter' = insert(inserter, s)
    BY <1>3, <1>4, <1>7, <2>1 DEF Insert
  <2>4. Whole(inserter') /\ RowsOf(inserter') = Append(RowsOf(inserter), s)
    BY <1>2, <2>2, <2>3, InsertAddsRow
  <2> QED
    BY <1>2, <1>3, <1>5, <1>7, <2>1, <2>4 DEF InsertInv
<1> QED
  BY <1>6, <1>7

LEMMA InsertInvIsInductive == Spec => []InsertInv
<1>1. Init => InsertInv
  <2> SUFFICES ASSUME Init PROVE InsertInv
    OBVIOUS
  <2>1. rows = <<>> /\ inserter = NoRows
    BY DEF Init
  <2>2. rows \in Seq(Lengths \cup {Null}) /\ RowsFor(rows) = <<>>
    BY <2>1 DEF RowsFor
  <2> QED
    BY <2>1, <2>2, NoRowsIsWhole DEF InsertInv
<1>2. InsertInv /\ [Next]_vars => InsertInv'
  <2> SUFFICES ASSUME InsertInv, [Next]_vars PROVE InsertInv'
    OBVIOUS
  <2>1. ASSUME NEW v \in Lengths \cup {Null}, Insert(v) PROVE InsertInv'
    BY <2>1, InsertKeeps
  <2>2. CASE Finalize
    BY <2>2, FinalizeKeepsRows DEF Finalize, InsertInv
  <2>3. CASE UNCHANGED <<rows, inserter>>
    BY <2>3 DEF InsertInv
  <2>4. ASSUME \/ ScanShort \/ ScanLong \/ ScanLongCrash \/ ScanMore \/ ScanEnd
               \/ Materialise \/ FinalizeResult \/ Done \/ UNCHANGED vars
        PROVE  UNCHANGED <<rows, inserter>>
    BY <2>4 DEF ScanPage, ScanShort, ScanLong, ScanLongCrash, ScanMore, ScanEnd,
                Materialise, FinalizeResult, Done, vars
  <2> QED
    BY <2>1, <2>2, <2>3, <2>4 DEF Next
<1> QED
  BY <1>1, <1>2, PTL DEF Spec

(* Whatever was inserted is read back, in order, from the pages that are   *)
(* complete after finalize: copy_scan undoes insert.                       *)
THEOREM PagesReadBack == Spec => []PagesHoldRows
<1>1. InsertInv => PagesHoldRows
  <2> SUFFICES ASSUME InsertInv PROVE PagesHoldRows
    OBVIOUS
  <2>1. copy_scan(finalize(inserter).pages) = RowsFor(rows)
    BY FinalizeKeepsRows DEF InsertInv
  <2>2. RowsFor(rows) = [r \in DOMAIN rows |-> Expected(r)]
    BY DEF RowsFor, Expected
  <2> QED
    BY <2>1, <2>2 DEF PagesHoldRows
<1> QED
  BY <1>1, InsertInvIsInductive, PTL

-----------------------------------------------------------------------------
(* References and the result.                                              *)

(* The inductive invariant, about the scan: until the column is finalized  *)
(* nothing is scanned, and from then on all of its rows are on its pages.  *)
ScanInv ==
    /\ phase \in {"insert", "scan", "materialise", "done", "crashed"}
    /\ phase = "insert" => page_idx = 0 /\ refs = <<>>
    /\ phase # "insert" => /\ inserter.num_rows = 0
                           /\ RefsRight(inserter.pages, page_idx, refs)
    /\ phase \in {"materialise", "done"} => page_idx = Len(inserter.pages)

(* And about the result. *)
OutInv ==
    /\ Whole(out) /\ next \in Nat /\ Len(RowsOf(out)) = next
    /\ \A k \in 1 .. next : RowsFor(rows)[k] # <<>> => RowsOf(out)[k] = RowsFor(rows)[k]
    /\ phase \in {"insert", "scan"} => next = 0
    /\ phase = "materialise" => next <= Len(refs)
    /\ phase = "done" => next = Len(refs) /\ copy_scan(out.pages) = RowsOf(out)

(* The walk over a long string ends. *)
LEMMA WalkEnds ==
    ASSUME NEW pages, Len(pages) \in Nat, NEW p \in Nat, p < Len(pages)
    PROVE  walk(pages, p) \in Nat
<1>1. PICK n \in Nat : n = Len(pages)
  OBVIOUS
<1>2. PICK E : E = {k \in 0 .. n : ~IsMore(pages, looked_at(p, k))}
  OBVIOUS
<1>3. walk(pages, p) = Min(E)
  BY <1>1, <1>2 DEF walk
<1>4. looked_at(p, n) = n + 1
  BY <1>1 DEF looked_at
<1>5. n \in E
  BY <1>1, <1>2, <1>4 DEF IsMore
<1>6. E \in SUBSET Nat
  BY <1>2
<1> QED
  BY <1>3, <1>5, <1>6, MinOfSet

LEMMA ScanInvIsInductive == Spec => []ScanInv
<1>1. Init => ScanInv
  BY DEF Init, ScanInv
<1>2. InsertInv /\ ScanInv /\ [Next]_vars => ScanInv'
  <2> SUFFICES ASSUME InsertInv, ScanInv, [Next]_vars PROVE ScanInv'
    OBVIOUS
  <2>1. ASSUME NEW v \in Lengths \cup {Null}, Insert(v) PROVE ScanInv'
    BY <2>1 DEF Insert, ScanInv
  <2>2. CASE Finalize
    <3>1. phase = "insert" /\ inserter' = finalize(inserter) /\ phase' = "scan"
          /\ page_idx' = page_idx /\ refs' = refs
      BY <2>2 DEF Finalize
    <3>2. Whole(inserter') /\ inserter'.num_rows = 0
      BY <3>1, FinalizeKeepsRows DEF InsertInv
    <3>3. RefsRight(inserter'.pages, 0, <<>>)
      BY <3>2, NoRefs DEF Whole
    <3>4. page_idx' = 0 /\ refs' = <<>>
      BY <3>1 DEF ScanInv
    <3> QED
      BY <3>1, <3>2, <3>3, <3>4 DEF ScanInv
  <2>3. ASSUME NEW kind, ScanPage(kind)
        PROVE  \E pages, n, m :
                 /\ pages = inserter.pages /\ n = page_idx /\ m = n + 1
                 /\ n \in Nat /\ n < Len(pages) /\ Len(pages) \in Nat
                 /\ pages[m].kind = kind
                 /\ RefsRight(pages, n, refs)
                 /\ (RefsRight(pages, m, refs') => ScanInv')
    <3>1. /\ phase = "scan" /\ phase' = phase /\ page_idx' = page_idx + 1
          /\ page_idx < Len(inserter.pages) /\ inserter.pages[page_idx + 1].kind = kind
          /\ inserter' = inserter
      BY <2>3 DEF ScanPage
    <3>2. inserter.num_rows = 0 /\ RefsRight(inserter.pages, page_idx, refs)
      BY <3>1 DEF ScanInv
    <3>3. page_idx \in 0 .. Len(inserter.pages) /\ PagesOK(inserter.pages)
      BY <3>2 DEF RefsRight
    <3>4. Len(inserter.pages) \in Nat
      BY <3>3 DEF PagesOK
    <3>5. PICK pages : pages = inserter.pages
      OBVIOUS
    <3>6. PICK n \in Nat : n = page_idx
      BY <3>3, <3>4
    <3>7. PICK m : m = n + 1
      OBVIOUS
    <3>8. RefsRight(pages, m, refs') => ScanInv'
      BY <3>1, <3>2, <3>5, <3>6, <3>7 DEF ScanInv
    <3> QED
      BY <3>1, <3>2, <3>4, <3>5, <3>6, <3>7, <3>8
  <2>4. CASE ScanShort
    <3>1. ScanPage("short") /\ refs' = refs \o ShortRefs(inserter.pages[page_idx + 1], page_idx)
      BY <2>4 DEF ScanShort
    <3>2. PICK pages, n, m :
                 /\ pages = inserter.pages /\ n = page_idx /\ m = n + 1
                 /\ n \in Nat /\ n < Len(pages) /\ Len(pages) \in Nat
                 /\ pages[m].kind = "short"
                 /\ RefsRight(pages, n, refs)
                 /\ (RefsRight(pages, m, refs') => ScanInv')
      BY <2>3, <3>1
    <3>3. refs' = refs \o ShortRefs(pages[m], n)
      BY <3>1, <3>2
    <3>4. RefsRight(pages, m, refs')
      BY <3>2, <3>3, ShortPageRefs
    <3> QED
      BY <3>2, <3>4
  <2>5. CASE ScanLong
    <3>1. ScanPage("first")
      BY <2>5 DEF ScanLong
    <3>2. PICK pages, n, m :
                 /\ pages = inserter.pages /\ n = page_idx /\ m = n + 1
                 /\ n \in Nat /\ n < Len(pages) /\ Len(pages) \in Nat
                 /\ pages[m].kind = "first"
                 /\ RefsRight(pages, n, refs)
                 /\ (RefsRight(pages, m, refs') => ScanInv')
      BY <2>3, <3>1
    <3>3. PICK w : w = walk(pages, n)
      OBVIOUS
    <3>4. w \in Nat
      BY <3>2, <3>3, WalkEnds
    <3>5. PICK pos \in w .. IF LeavesColumn(w) THEN w + MaxStray ELSE w :
            refs' = Append(refs, [page |-> n, pos |-> pos])
      BY <2>5, <3>2, <3>3 DEF ScanLong
    <3>6. pos \in Nat
      BY <3>4, <3>5
    <3>7. RefsRight(pages, m, refs')
      BY <3>2, <3>5, <3>6, LongPageRefs
    <3> QED
      BY <3>2, <3>7
  <2>6. CASE ScanLongCrash
    BY <2>6 DEF ScanLongCrash, ScanInv
  <2>7. CASE ScanMore
    <3>1. ScanPage("more") /\ refs' = refs
      BY <2>7 DEF ScanMore
    <3>2. PICK pages, n, m :
                 /\ pages = inserter.pages /\ n = page_idx /\ m = n + 1
                 /\ n \in Nat /\ n < Len(pages) /\ Len(pages) \in Nat
                 /\ pages[m].kind = "more"
                 /\ RefsRight(pages, n, refs)
                 /\ (RefsRight(pages, m, refs') => ScanInv')
      BY <2>3, <3>1
    <3>3. RefsRight(pages, m, refs)
      BY <3>2, MorePageRefs
    <3> QED
      BY <3>1, <3>2, <3>3
  <2>8. CASE ScanEnd
    BY <2>8 DEF ScanEnd, ScanInv
  <2>9. CASE Materialise
    BY <2>9 DEF Materialise, ScanInv
  <2>10. CASE FinalizeResult
    BY <2>10 DEF FinalizeResult, ScanInv
  <2>11. CASE Done \/ UNCHANGED vars
    BY <2>11 DEF Done, vars, ScanInv
  <2> QED
    BY <2>1, <2>2, <2>4, <2>5, <2>6, <2>7, <2>8, <2>9, <2>10, <2>11 DEF Next
<1> QED
  BY <1>1, <1>2, InsertInvIsInductive, PTL DEF Spec

(* Once the column is finalized, its pages hold the rows inserted. *)
LEMMA PagesAreRows ==
    ASSUME InsertInv, ScanInv, phase # "insert"
    PROVE  copy_scan(inserter.pages) = RowsFor(rows)
<1>1. Whole(inserter) /\ RowsOf(inserter) = RowsFor(rows) /\ inserter.num_rows = 0
  BY DEF InsertInv, ScanInv
<1>2. finalize(inserter) = inserter
  BY <1>1 DEF finalize
<1> QED
  BY <1>1, <1>2, FinalizeKeepsRows

(* One reference more is materialised: the row it stands for comes behind  *)
(* those of the result.                                                    *)
LEMMA MaterialiseAddsRow ==
    ASSUME InsertInv, ScanInv, OutInv, Materialise, NEW k, k = next + 1
    PROVE  \E v : /\ Whole(out') /\ RowsOf(out') = Append(RowsOf(out), v) /\ v \in Row
                  /\ RowsFor(rows)[k] # <<>> => v = RowsFor(rows)[k]
<1>1. /\ phase = "materialise" /\ next < Len(refs)
      /\ out' = IF refs[next + 1] = Null THEN insert_null(out)
                ELSE insert(out, StringOf(inserter.pages, refs[next + 1]))
  BY DEF Materialise
<1>2. PICK pages : pages = inserter.pages
  OBVIOUS
<1>3. PICK ref : ref = refs[k]
  OBVIOUS
<1>4. PICK w : w = RowsFor(rows)[k]
  OBVIOUS
<1>5. RefsRight(pages, page_idx, refs) /\ next \in Nat /\ Whole(out)
  BY <1>1, <1>2 DEF ScanInv, OutInv
<1>6. k \in 1 .. Len(refs)
  <2>1. Len(refs) \in Nat
    BY <1>5 DEF RefsRight
  <2> QED
    BY <1>1, <1>5, <2>1
<1>7. RefRight(pages, ref, copy_scan(pages)[k])
  BY <1>3, <1>5, <1>6 DEF RefsRight
<1>8. RefRight(pages, ref, w)
  <2>1. copy_scan(pages) = RowsFor(rows)
    BY <1>1, <1>2, PagesAreRows
  <2> QED
    BY <1>4, <1>7, <2>1
<1>9. CASE ref = Null
  <2>1. w = Null
    <3>1. Null \notin [page : Nat, pos : Nat]
      BY VarcharAssumption
    <3> QED
      BY <1>8, <1>9, <3>1 DEF RefRight
  <2>2. out' = insert_null(out)
    BY <1>1, <1>3, <1>9
  <2>3. Whole(out') /\ RowsOf(out') = Append(RowsOf(out), Null)
    BY <1>5, <2>2, InsertNullAddsRow
  <2>4. Null \in Row
    BY DEF Row
  <2> QED
    BY <1>4, <2>1, <2>3, <2>4
<1>10. CASE ref # Null
  <2>1. PICK s : s = StringOf(pages, ref)
    OBVIOUS
  <2>2. s \in Seq(Char) /\ (w # <<>> => s = w)
    BY <1>8, <1>10, <2>1 DEF RefRight
  <2>3. out' = insert(out, s)
    BY <1>1, <1>2, <1>3, <1>10, <2>1
  <2>4. Whole(out') /\ RowsOf(out') = Append(RowsOf(out), s)
    BY <1>5, <2>2, <2>3, InsertAddsRow
  <2>5. s \in Row
    BY <2>2 DEF Row
  <2> QED
    BY <1>4, <2>2, <2>4, <2>5
<1> QED
  BY <1>9, <1>10

LEMMA MaterialiseKeeps ==
    ASSUME InsertInv, ScanInv, OutInv, Materialise
    PROVE  OutInv'
<1>1. PICK k : k = next + 1
  OBVIOUS
<1>2. PICK v : /\ Whole(out') /\ RowsOf(out') = Append(RowsOf(out), v) /\ v \in Row
               /\ RowsFor(rows)[k] # <<>> => v = RowsFor(rows)[k]
  BY <1>1, MaterialiseAddsRow
<1>3. /\ phase = "materialise" /\ phase' = phase /\ next' = next + 1 /\ next < Len(refs)
      /\ refs' = refs /\ rows' = rows
  BY DEF Materialise
<1>4. next \in Nat /\ Whole(out) /\ Len(RowsOf(out)) = next
  BY DEF OutInv
<1>5. PICK a : a = RowsOf(out)
  OBVIOUS
<1>6. PICK b : b = RowsOf(out')
  OBVIOUS
<1>7. a \in Seq(Row) /\ Len(a) = next /\ b = Append(a, v)
  BY <1>2, <1>4, <1>5, <1>6, RowsType
<1>8. Len(b) = k /\ b[k] = v /\ \A i \in 1 .. next : b[i] = a[i]
  BY <1>1, <1>2, <1>4, <1>7
<1>9. PICK f : f = RowsFor(rows)
  OBVIOUS
<1>10. RowsFor(rows') = f
  BY <1>3, <1>9
<1>11. ASSUME NEW i \in 1 .. next', f[i] # <<>> PROVE b[i] = f[i]
  <2>1. CASE i = k
    BY <1>2, <1>8, <1>9, <1>11, <2>1
  <2>2. CASE i # k
    <3>1. i \in 1 .. next
      BY <1>1, <1>3, <1>4, <2>2
    <3>2. a[i] = f[i]
      BY <1>5, <1>9, <1>11, <3>1 DEF OutInv
    <3> QED
      BY <1>8, <3>1, <3>2
  <2> QED
    BY <2>1, <2>2
<1>12. next' \in Nat /\ Len(b) = next' /\ next' <= Len(refs')
  <2>1. Len(refs) \in Nat
    BY <1>3 DEF ScanInv, RefsRight
  <2> QED
    BY <1>1, <1>3, <1>4, <1>8, <2>1
<1> QED
  BY <1>2, <1>3, <1>6, <1>10, <1>11, <1>12 DEF OutInv

LEMMA OutInvIsInductive == Spec => []OutInv
<1>1. Init => OutInv
  <2> SUFFICES ASSUME Init PROVE OutInv
    OBVIOUS
  <2>1. phase = "insert" /\ next = 0 /\ out = NoRows
    BY DEF Init
  <2>2. Whole(out) /\ RowsOf(out) = <<>>
    BY <2>1, NoRowsIsWhole
  <2>3. Len(RowsOf(out)) = 0
    BY <2>2
  <2> QED
    BY <2>1, <2>2, <2>3 DEF OutInv
<1>2. InsertInv /\ ScanInv /\ OutInv /\ [Next]_vars => OutInv'
  <2> SUFFICES ASSUME InsertInv, ScanInv, OutInv, [Next]_vars PROVE OutInv'
    OBVIOUS
  <2>1. ASSUME NEW v \in Lengths \cup {Null}, Insert(v) PROVE OutInv'
    <3>1. phase = "insert" /\ phase' = phase /\ next' = next /\ out' = out
      BY <2>1 DEF Insert
    <3>2. next = 0
      BY <3>1 DEF OutInv
    <3> QED
      BY <3>1, <3>2 DEF OutInv
  <2>2. CASE Finalize
    <3>1. phase = "insert" /\ phase' = "scan" /\ next' = next /\ out' = out
      BY <2>2 DEF Finalize
    <3>2. next = 0
      BY <3>1 DEF OutInv
    <3> QED
      BY <3>1, <3>2 DEF OutInv
  <2>3. ASSUME NEW kind, ScanPage(kind) PROVE OutInv'
    <3>1. phase = "scan" /\ phase' = phase /\ next' = next /\ out' = out /\ rows' = rows
      BY <2>3 DEF ScanPage
    <3> QED
      BY <3>1 DEF OutInv
  <2>4. CASE ScanShort \/ ScanLong \/ ScanMore
    BY <2>3, <2>4 DEF ScanShort, ScanLong, ScanMore
  <2>5. CASE ScanLongCrash
    BY <2>5 DEF ScanLongCrash, OutInv
  <2>6. CASE ScanEnd
    <3>1. /\ phase = "scan" /\ phase' = "materialise"
          /\ next' = next /\ out' = out /\ rows' = rows /\ refs' = refs
      BY <2>6 DEF ScanEnd
    <3>2. next = 0 /\ Len(refs) \in Nat
      BY <3>1 DEF OutInv, ScanInv, RefsRight
    <3> QED
      BY <3>1, <3>2 DEF OutInv
  <2>7. CASE Materialise
    BY <2>7, MaterialiseKeeps
  <2>8. CASE FinalizeResult
    <3>1. /\ phase = "materialise" /\ phase' = "done" /\ next = Len(refs)
          /\ next' = next /\ rows' = rows /\ refs' = refs /\ out' = finalize(out)
      BY <2>8 DEF FinalizeResult
    <3>2. /\ Whole(out') /\ RowsOf(out') = RowsOf(out)
          /\ copy_scan(out'.pages) = RowsOf(out)
      BY <3>1, FinalizeKeepsRows DEF OutInv
    <3> QED
      BY <3>1, <3>2 DEF OutInv
  <2>9. CASE Done \/ UNCHANGED vars
    BY <2>9 DEF Done, vars, OutInv
  <2> QED
    BY <2>1, <2>2, <2>4, <2>5, <2>6, <2>7, <2>8, <2>9 DEF Next
<1> QED
  BY <1>1, <1>2, InsertInvIsInductive, ScanInvIsInductive, PTL DEF Spec

(* Every reference leads to the string it was made for, and the result has *)
(* a row for every row inserted: NULLs and strings of at least one         *)
(* character survive the way through the engine, however short and long    *)
(* strings follow each other and wherever their pages are cut.             *)
THEOREM RowsReachTheResult == Spec => []RowsSurvive
<1>1. InsertInv /\ ScanInv /\ OutInv => RowsSurvive
  <2> SUFFICES ASSUME InsertInv, ScanInv, OutInv, phase = "done"
               PROVE  LET result == copy_scan(out.pages)
                      IN  /\ Len(result) = Len(rows)
                          /\ \A r \in DOMAIN rows : rows[r] # 0 => result[r] = Expected(r)
    BY DEF RowsSurvive
  <2>1. PICK result : result = copy_scan(out.pages)
    OBVIOUS
  <2>2. PICK f : f = RowsFor(rows)
    OBVIOUS
  <2>3. PICK n \in Nat : n = Len(rows)
    BY DEF InsertInv
  <2>4. /\ rows \in Seq(Lengths \cup {Null}) /\ DOMAIN rows = 1 .. n
        /\ f \in Seq(Row) /\ Len(f) = n
    BY <2>2, <2>3, RowsForType DEF InsertInv
  <2>5. /\ result = RowsOf(out) /\ Len(RowsOf(out)) = next /\ next = Len(refs)
        /\ \A k \in 1 .. next : f[k] # <<>> => RowsOf(out)[k] = f[k]
    BY <2>1, <2>2 DEF OutInv
  <2>6. PICK pages : pages = inserter.pages
    OBVIOUS
  <2>7. RefsRight(pages, page_idx, refs) /\ page_idx = Len(pages) /\ copy_scan(pages) = f
    BY <2>2, <2>6, PagesAreRows DEF ScanInv
  <2>8. Len(refs) = n
    <3>1. Len(pages) \in Nat
      BY <2>7 DEF RefsRight, PagesOK
    <3>2. PICK h : IsRead(h, pages) /\ copy_scan(pages) = h[Len(pages)]
      BY <3>1, ReadSteps
    <3>3. Len(refs) = Len(h[Len(pages)])
      BY <2>7, <3>2 DEF RefsRight
    <3> QED
      BY <2>4, <2>7, <3>2, <3>3
  <2>9. ASSUME NEW r \in DOMAIN rows, rows[r] # 0 PROVE result[r] = Expected(r)
    <3>1. r \in 1 .. n /\ rows[r] \in Lengths \cup {Null}
      BY <2>4
    <3>2. f[r] = IF rows[r] = Null THEN Null ELSE String(r, rows[r])
      BY <2>2 DEF RowsFor
    <3>3. f[r] # <<>>
      <4>1. CASE rows[r] = Null
        <5>1. PICK e : e = <<>>
          OBVIOUS
        <5>2. e \in Seq(Nat \X Nat)
          BY <5>1
        <5>3. Null # e
          BY <5>2, VarcharAssumption
        <5> QED
          BY <3>2, <4>1, <5>1, <5>3
      <4>2. CASE rows[r] # Null
        <5>1. PICK l : l = rows[r]
          OBVIOUS
        <5>2. l \in Nat \ {0}
          <6>1. l \in Lengths
            BY <3>1, <4>2, <5>1
          <6>2. Lengths \subseteq Nat
            BY VarcharAssumption
          <6> QED
            BY <2>9, <5>1, <6>1, <6>2
        <5>3. f[r] = [k \in 1 .. l |-> <<r, k>>]
          BY <3>2, <4>2, <5>1 DEF String
        <5>4. 1 \in DOMAIN f[r]
          BY <5>2, <5>3
        <5> QED
          BY <5>4
      <4> QED
        BY <4>1, <4>2
    <3>4. result[r] = f[r]
      BY <2>5, <2>8, <3>1, <3>3
    <3>5. f[r] = Expected(r)
      BY <3>2 DEF Expected
    <3> QED
      BY <3>4, <3>5
  <2> QED
    BY <2>1, <2>3, <2>5, <2>8, <2>9
<1> QED
  BY <1>1, InsertInvIsInductive, ScanInvIsInductive, OutInvIsInductive, PTL

(* save_page and save_long_string write within their page and nothing over *)
(* anything else, whatever is inserted: on no page, of the column or of    *)
(* the result, do offsets and characters reach the bitmap.                 *)
THEOREM StringsAndBitmapApart == Spec => []NoOverlap
<1>1. ASSUME NEW ins, Sound(ins) PROVE NoOverlapIn(ins)
  <2>1. ASSUME NEW p \in DOMAIN ins.pages
        PROVE  IF ins.pages[p].kind = "short"
               THEN used(ins.pages[p]) + bytes(ins.pages[p].num_rows) <= PageSize
               ELSE 4 + Len(ins.pages[p].data) <= PageSize
    <3>1. ins.pages[p] \in Page
      BY <1>1, <2>1 DEF Sound, Inserter
    <3>2. QED
      BY <3>1 DEF Page, ShortPage, LongPage, used
  <2>2. QED
    BY <1>1, <2>1 DEF Sound, NoOverlapIn
<1>2. InsertInv /\ OutInv => NoOverlap
  BY <1>1 DEF InsertInv, OutInv, Whole, NoOverlap
<1> QED
  BY <1>2, InsertInvIsInductive, OutInvIsInductive, PTL
=============================================================================
