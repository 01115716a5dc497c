------------------------- MODULE TableLoaderProofs -------------------------
(***************************************************************************)
(* For any number of workers, any width of a byte, any rows per page and   *)
(* any tables and filters: two workers of a filter never come to the same  *)
(* byte of the result, which they update without a lock; the bits they     *)
(* leave are what the filter says of each row of the file; these are what  *)
(* SQL keeps, as far as comparisons with NULL let them be; from_csv gives  *)
(* a scan the table of just these rows; and a scan of a file that a killed *)
(* process left does not silently miss rows.                               *)
(*                                                                         *)
(* LoaderInv and SizesInv give the shapes of columns and bitmaps, DataInv  *)
(* what they hold: the columns hold the rows of the file, the bit of a     *)
(* node follows from those below it, and during a pass that holds of the   *)
(* rows and bytes a worker has been at.  TableInv says it of what comes    *)
(* after: the columns copied so far are those of the right table, the      *)
(* result cache holds the right table, and every cache file is that of the *)
(* right table as far as it goes.                                          *)
(***************************************************************************)
EXTENDS TableLoader, Lemmas

Sequence(s) == \E S : s \in Seq(S)

ColumnOK(c) ==
    /\ c = [type |-> c.type, data |-> c.data, offsets |-> c.offsets, bitmap |-> c.bitmap]
    /\ Sequence(c.bitmap)
    /\ Sequence(IF c.type = "VARCHAR" THEN c.offsets ELSE c.data)

ColumnsOK(cs) == DOMAIN cs = DOMAIN types /\ \A c \in DOMAIN cs : ColumnOK(cs[c])

ValuesOK == Sequence(values) /\ \A k \in DOMAIN values : Sequence(values[k])

(* No worker is before its slice. *)
PassOK ==
    /\ pc = "eval"
    /\ Sequence(ret)
    /\ node.op \notin LogicalOps => node.column \in DOMAIN columns
    /\ at \in [Threads -> Nat]
    /\ \A t \in Threads : SliceOf(t).from <= at[t]

LoaderInv ==
    /\ world \in Worlds /\ types = world.types
    /\ filter \in world.filters \cup {<<>>}
    /\ ValuesOK
    /\ table_cache # NoTable => ColumnsOK(table_cache)
    /\ pc \in {"read", "eval"} => ColumnsOK(columns)
    /\ node # NoNode => PassOK

-----------------------------------------------------------------------------
(* Sequences of anything.                                                  *)

LEMMA EmptySequence == Sequence(<<>>)
<1>1. <<>> \in Seq({})
  OBVIOUS
<1>2. QED
  BY <1>1 DEF Sequence

LEMMA SequenceLen ==
    ASSUME NEW s, Sequence(s)
    PROVE  Len(s) \in Nat /\ DOMAIN s = 1 .. Len(s)
<1>1. PICK S : s \in Seq(S)
  BY DEF Sequence
<1>2. QED
  BY <1>1

LEMMA SequenceOfFunction ==
    ASSUME NEW s, NEW n \in Nat, DOMAIN s = 1 .. n, s = [i \in 1 .. n |-> s[i]]
    PROVE  Sequence(s)
<1> DEFINE S == {s[i] : i \in 1 .. n}
<1>1. s \in [1 .. n -> S]
  OBVIOUS
<1>2. s \in Seq(S)
  BY <1>1
<1>3. QED
  BY <1>2 DEF Sequence

LEMMA SequenceAppend ==
    ASSUME NEW s, Sequence(s), NEW v
    PROVE  /\ Sequence(Append(s, v))
           /\ DOMAIN Append(s, v) = 1 .. Len(s) + 1
           /\ Append(s, v)[Len(s) + 1] = v
           /\ \A k \in DOMAIN s : Append(s, v)[k] = s[k]
<1>1. PICK S : s \in Seq(S)
  BY DEF Sequence
<1> DEFINE R == S \cup {v}
<1>2. s \in Seq(R) /\ v \in R
  BY <1>1
<1> HIDE DEF R
<1>3. Append(s, v) \in Seq(R)
  BY <1>2
<1>4. Sequence(Append(s, v))
  BY <1>3 DEF Sequence
<1>5. QED
  BY <1>2, <1>4

LEMMA LongerByOne ==
    ASSUME NEW s, Sequence(s), NEW v
    PROVE  Sequence(Append(s, v)) /\ Len(Append(s, v)) = Len(s) + 1
<1> DEFINE r == Append(s, v)
<1>1. Sequence(r) /\ DOMAIN r = 1 .. Len(s) + 1
  BY SequenceAppend
<1> HIDE DEF r
<1>2. Len(s) \in Nat /\ Len(r) \in Nat /\ DOMAIN r = 1 .. Len(r)
  BY <1>1, SequenceLen
<1>3. Len(r) = Len(s) + 1
  BY <1>1, <1>2
<1>4. QED
  BY <1>1, <1>3 DEF r

LEMMA SequenceExcept ==
    ASSUME NEW s, Sequence(s), NEW i, NEW v
    PROVE  Sequence([s EXCEPT ![i] = v]) /\ Len([s EXCEPT ![i] = v]) = Len(s)
<1>1. PICK S : s \in Seq(S)
  BY DEF Sequence
<1>2. PICK n \in Nat : s \in [1 .. n -> S] /\ n = Len(s)
  BY <1>1
<1> DEFINE r == [s EXCEPT ![i] = v]
           R == S \cup {v}
<1>3. r \in [1 .. n -> R]
  BY <1>2
<1>4. r \in Seq(R) /\ DOMAIN r = 1 .. n
  BY <1>2, <1>3
<1> HIDE DEF r, R
<1>5. Len(r) = n
  BY <1>2, <1>4
<1>6. QED
  BY <1>2, <1>4, <1>5 DEF r, Sequence

-----------------------------------------------------------------------------
(* Columns and slices.                                                     *)

(* The bytes of a bitmap for n rows. *)
BytesFor(n) == (n + BitsPerByte - 1) \div BitsPerByte

LEMMA RowsAreNat ==
    ASSUME NEW c, ColumnOK(c)
    PROVE  RowsOf(c) \in Nat
BY SequenceLen DEF ColumnOK, RowsOf

(* A number between two multiples of B, divided by B. *)
LEMMA DivBetween ==
    ASSUME NEW B \in Nat \ {0}, NEW a \in Nat, NEW b \in Nat, NEW x \in Nat,
           a * B <= x, x < b * B
    PROVE  x \div B \in Nat /\ a <= x \div B /\ x \div B < b
<1> DEFINE q == x \div B
<1>1. q \in Nat /\ x % B \in 0 .. B - 1 /\ x = B * q + (x % B)
  BY DivMod
<1> HIDE DEF q
<1>2. q * B <= x /\ x < q * B + B /\ q * B \in Nat
  BY <1>1
<1>3. ASSUME q < a PROVE FALSE
  <2>1. q * B + B <= a * B /\ a * B \in Nat
    BY <1>1, <1>3, MulStep
  <2>2. QED
    BY <1>2, <2>1
<1>4. ASSUME b <= q PROVE FALSE
  <2>1. b * B <= q * B
    <3>1. CASE b = q
      BY <3>1, <1>2
    <3>2. CASE b < q
      <4>1. (b + 1) * B = b * B + B /\ (b + 1) * B <= q * B /\ b * B \in Nat
        BY <1>1, <3>2, MulStep
      <4>2. QED
        BY <4>1, <1>2
    <3>3. QED
      BY <1>1, <1>4, <3>1, <3>2
  <2>2. b * B \in Nat
    BY <2>1
  <2>3. QED
    BY <1>2, <2>1, <2>2
<1>5. q \in Nat /\ a <= q /\ q < b
  BY <1>1, <1>3, <1>4
<1>6. QED
  BY <1>5 DEF q

(* The next row takes a new byte or none. *)
LEMMA BytesGrow ==
    ASSUME NEW n \in Nat
    PROVE  /\ BytesFor(n + 1) = n \div BitsPerByte + 1
           /\ BytesFor(n) \in Nat
           /\ BytesFor(n + 1) \in {BytesFor(n), BytesFor(n) + 1}
<1> DEFINE B == BitsPerByte
           q == n \div B
<1>1. B \in Nat \ {0}
  BY FiltersAssumption
<1>2. q \in Nat /\ n % B \in 0 .. B - 1 /\ n = B * q + (n % B)
  BY <1>1, DivMod
<1>3. BytesFor(n) = (n + B - 1) \div B /\ BytesFor(n + 1) = (n + 1 + B - 1) \div B
  BY DEF BytesFor
<1> HIDE DEF B, q
<1>4. /\ q * B \in Nat /\ (q + 1) * B = q * B + B /\ (q + 2) * B = q * B + B + B
      /\ q * B <= n /\ n < q * B + B
  BY <1>1, <1>2
<1>5. (n + 1 + B - 1) \div B = q + 1
  <2>1. n + 1 + B - 1 \in Nat /\ q + 1 \in Nat /\ q + 2 \in Nat
    BY <1>1, <1>2
  <2>2. (q + 1) * B <= n + 1 + B - 1 /\ n + 1 + B - 1 < (q + 2) * B
    BY <1>1, <1>2, <1>4
  <2> DEFINE x == n + 1 + B - 1
  <2> HIDE DEF x
  <2>3. x \div B \in Nat /\ q + 1 <= x \div B /\ x \div B < q + 2
    BY <1>1, <2>1, <2>2, DivBetween DEF x
  <2>4. x \div B = q + 1
    BY <1>2, <2>3
  <2>5. QED
    BY <2>4 DEF x
<1>6. (n + B - 1) \div B \in {q, q + 1}
  <2>1. n + B - 1 \in Nat /\ q + 2 \in Nat
    BY <1>1, <1>2
  <2>2. q * B <= n + B - 1 /\ n + B - 1 < (q + 2) * B
    BY <1>1, <1>2, <1>4
  <2> DEFINE x == n + B - 1
  <2> HIDE DEF x
  <2>3. x \div B \in Nat /\ q <= x \div B /\ x \div B < q + 2
    BY <1>1, <1>2, <2>1, <2>2, DivBetween DEF x
  <2>4. x \div B \in {q, q + 1}
    BY <1>2, <2>3
  <2>5. QED
    BY <2>4 DEF x
<1>7. QED
  BY <1>2, <1>3, <1>5, <1>6 DEF B, q

LEMMA NoBytes == BytesFor(0) = 0
<1>1. 0 * BitsPerByte = 0 /\ 1 * BitsPerByte = BitsPerByte
  BY FiltersAssumption
<1>2. BitsPerByte - 1 \in Nat /\ 0 * BitsPerByte <= BitsPerByte - 1
      /\ BitsPerByte - 1 < 1 * BitsPerByte
  BY <1>1, FiltersAssumption
<1>3. /\ (BitsPerByte - 1) \div BitsPerByte \in Nat
      /\ (BitsPerByte - 1) \div BitsPerByte < 1
  BY <1>2, FiltersAssumption, DivBetween
<1>4. 0 + BitsPerByte - 1 = BitsPerByte - 1
  BY FiltersAssumption
<1> QED
  BY <1>3, <1>4 DEF BytesFor

LEMMA EmptyIsOK == ASSUME NEW t PROVE ColumnOK(EmptyColumn(t))
BY EmptySequence DEF ColumnOK, EmptyColumn

LEMMA BitmapPushBackIsOK ==
    ASSUME NEW c, ColumnOK(c), NEW b
    PROVE  /\ ColumnOK(bitmap_push_back(c, b))
           /\ RowsOf(bitmap_push_back(c, b)) = RowsOf(c)
           /\ Len(bitmap_push_back(c, b).bitmap) =
                 IF NeedsByte(c) THEN Len(c.bitmap) + 1 ELSE Len(c.bitmap)
<1> DEFINE r == bitmap_push_back(c, b)
           i == (RowsOf(c) - 1) \div BitsPerByte + 1
           bit == (RowsOf(c) - 1) % BitsPerByte
           m == IF NeedsByte(c) THEN Append(c.bitmap, IF b THEN {0} ELSE {})
                ELSE [c.bitmap EXCEPT ![i] =
                        IF b THEN c.bitmap[i] \cup {bit} ELSE c.bitmap[i] \ {bit}]
<1>1. r = [c EXCEPT !.bitmap = m]
  BY DEF bitmap_push_back
<1> HIDE DEF i, bit
<1>2. Sequence(m) /\ Len(m) = IF NeedsByte(c) THEN Len(c.bitmap) + 1 ELSE Len(c.bitmap)
  <2>1. CASE NeedsByte(c)
    <3> DEFINE w == IF b THEN {0} ELSE {}
    <3>1. m = Append(c.bitmap, w)
      BY <2>1
    <3> HIDE DEF w, m
    <3>2. QED
      BY <2>1, <3>1, LongerByOne DEF ColumnOK
  <2>2. CASE ~NeedsByte(c)
    <3> DEFINE v == IF b THEN c.bitmap[i] \cup {bit} ELSE c.bitmap[i] \ {bit}
    <3>1. m = [c.bitmap EXCEPT ![i] = v]
      BY <2>2
    <3> HIDE DEF v, m
    <3>2. QED
      BY <2>2, <3>1, SequenceExcept DEF ColumnOK
  <2>3. QED
    BY <2>1, <2>2
<1> HIDE DEF r, m
<1>3. r = [type |-> c.type, data |-> c.data, offsets |-> c.offsets, bitmap |-> m]
  BY <1>1 DEF ColumnOK
<1>4. ColumnOK(r) /\ RowsOf(r) = RowsOf(c)
  BY <1>2, <1>3 DEF ColumnOK, RowsOf
<1>5. QED
  BY <1>2, <1>3, <1>4 DEF r

LEMMA PushBackIsOK ==
    ASSUME NEW c, ColumnOK(c), NEW v
    PROVE  /\ ColumnOK(push_back(c, v))
           /\ Len(c.bitmap) = BytesFor(RowsOf(c)) =>
                /\ RowsOf(push_back(c, v)) = RowsOf(c) + 1
                /\ Len(push_back(c, v).bitmap) = BytesFor(RowsOf(c) + 1)
<1>1. PICK g : /\ push_back(c, v) = bitmap_push_back(g, v # Null)
               /\ ColumnOK(g) /\ RowsOf(g) = RowsOf(c) + 1
               /\ g.type = c.type /\ g.bitmap = c.bitmap
  <2>1. CASE c.type = "VARCHAR"
    <3> DEFINE data == IF v = Null THEN c.data ELSE c.data \o v
               offsets == Append(c.offsets, Len(data))
               g == [c EXCEPT !.data = data, !.offsets = offsets]
    <3>1. push_back(c, v) = bitmap_push_back(g, v # Null)
      BY <2>1 DEF push_back
    <3>2. Sequence(offsets) /\ Len(offsets) = Len(c.offsets) + 1
      BY <2>1, LongerByOne DEF ColumnOK
    <3> HIDE DEF data, offsets
    <3>3. g = [c EXCEPT !.data = data, !.offsets = offsets]
      OBVIOUS
    <3> HIDE DEF g
    <3>4. g = [type |-> c.type, data |-> data, offsets |-> offsets, bitmap |-> c.bitmap]
      BY <3>3 DEF ColumnOK
    <3>5. ColumnOK(g) /\ RowsOf(g) = RowsOf(c) + 1
      BY <2>1, <3>2, <3>4 DEF ColumnOK, RowsOf
    <3>6. QED
      BY <3>1, <3>4, <3>5
  <2>2. CASE c.type # "VARCHAR"
    <3> DEFINE data == Append(c.data, IF v = Null THEN <<0>> ELSE v)
               g == [c EXCEPT !.data = data]
    <3>1. push_back(c, v) = bitmap_push_back(g, v # Null)
      BY <2>2 DEF push_back
    <3>2. Sequence(data) /\ Len(data) = Len(c.data) + 1
      BY <2>2, LongerByOne DEF ColumnOK
    <3> HIDE DEF data
    <3>3. g = [c EXCEPT !.data = data]
      OBVIOUS
    <3> HIDE DEF g
    <3>4. g = [type |-> c.type, data |-> data, offsets |-> c.offsets, bitmap |-> c.bitmap]
      BY <3>3 DEF ColumnOK
    <3>5. ColumnOK(g) /\ RowsOf(g) = RowsOf(c) + 1
      BY <2>2, <3>2, <3>4 DEF ColumnOK, RowsOf
    <3>6. QED
      BY <3>1, <3>4, <3>5
  <2>3. QED
    BY <2>1, <2>2
<1> DEFINE r == push_back(c, v)
           n == RowsOf(c)
<1>2. /\ ColumnOK(r) /\ RowsOf(r) = n + 1
      /\ Len(r.bitmap) = IF NeedsByte(g) THEN Len(c.bitmap) + 1 ELSE Len(c.bitmap)
  BY <1>1, BitmapPushBackIsOK
<1>3. n \in Nat
  BY RowsAreNat
<1>4. ASSUME Len(c.bitmap) = BytesFor(n) PROVE Len(r.bitmap) = BytesFor(n + 1)
  <2>1. /\ BytesFor(n + 1) = n \div BitsPerByte + 1
        /\ BytesFor(n) \in Nat
        /\ BytesFor(n + 1) \in {BytesFor(n), BytesFor(n) + 1}
    BY <1>3, BytesGrow
  <2>2. RowsOf(g) = n + 1 /\ Len(g.bitmap) = BytesFor(n)
    BY <1>1, <1>4
  <2> HIDE DEF n, r
  <2>3. NeedsByte(g) <=> BytesFor(n + 1) > BytesFor(n)
    <3>1. RowsOf(g) - 1 = n
      BY <1>3, <2>2
    <3>2. NeedsByte(g) <=> IF g.type = "VARCHAR" THEN n \div BitsPerByte + 1 > BytesFor(n)
                           ELSE BytesFor(n + 1) > BytesFor(n)
      BY <2>2, <3>1 DEF NeedsByte, BytesFor
    <3>3. QED
      BY <2>1, <3>2
  <2>4. QED
    BY <1>2, <1>4, <2>1, <2>3
<1>5. QED
  BY <1>2, <1>4

LEMMA MinOfTwo == \A a, b \in Int : Min({a, b}) = IF a < b THEN a ELSE b
BY DEF Min

(* begin_idx is where the lemmas on slices say it is. *)
LEMMA BeginIdx ==
    ASSUME NEW t \in Nat, NEW n \in Nat
    PROVE  begin_idx(t, n) = Bound(t, n, NumThreads) /\ begin_idx(t, n) \in Nat
<1> DEFINE r == n % NumThreads
<1>1. r \in Int
  BY FiltersAssumption, DivMod
<1> HIDE DEF r
<1>2. Min({t, r}) = Lesser(t, r)
  BY <1>1, MinOfTwo DEF Lesser
<1>3. begin_idx(t, n) = Bound(t, n, NumThreads)
  BY <1>2 DEF begin_idx, Bound, r
<1>4. Bound(t, n, NumThreads) \in Nat
  <2>1. t + 1 \in Nat /\ t < t + 1
    OBVIOUS
  <2>2. QED
    BY <2>1, FiltersAssumption, BoundMonotone
<1>5. QED
  BY <1>3, <1>4

(* Where a slice of a comparison, or of a logical operation, begins. *)
LEMMA SliceFrom ==
    ASSUME NEW n, NEW rows \in Nat, NEW bytes \in Nat, NEW t \in Threads
    PROVE  slice(n, rows, bytes, t).from \in Nat
<1>1. t \in Nat
  BY FiltersAssumption DEF Threads
<1>2. CASE n.op \in LogicalOps
  BY <1>1, <1>2, BeginIdx DEF slice
<1>3. CASE n.op \notin LogicalOps
  <2> DEFINE tasks == (rows + BitsPerByte - 1) \div BitsPerByte
             b == begin_idx(t, tasks)
  <2>1. tasks \in Nat
    <3>1. rows + BitsPerByte - 1 \in Nat
      BY FiltersAssumption
    <3>2. QED
      BY <3>1, FiltersAssumption, DivMod
  <2>2. b \in Nat
    <3> HIDE DEF tasks
    <3>1. QED
      BY <1>1, <2>1, BeginIdx
  <2>3. slice(n, rows, bytes, t).from = b * BitsPerByte
    BY <1>3 DEF slice
  <2> HIDE DEF b
  <2>4. b * BitsPerByte \in Nat
    BY <2>2, FiltersAssumption
  <2>5. QED
    BY <2>3, <2>4
<1>4. QED
  BY <1>2, <1>3

-----------------------------------------------------------------------------
(* Why two workers of a pass are apart.                                    *)

LEMMA NodeRowsAreNat ==
    ASSUME LoaderInv, node # NoNode
    PROVE  /\ node.op \notin LogicalOps => NodeRows \in Nat
           /\ Len(ret) \in Nat
BY RowsAreNat, SequenceLen DEF LoaderInv, PassOK, ColumnsOK, NodeRows

(* The byte that a working worker comes to is one of its slice of bytes.   *)
LEMMA ByteInSlice ==
    ASSUME LoaderInv, NEW t \in Threads, Working(t), NEW n,
           n = IF node.op \in LogicalOps THEN Len(ret)
               ELSE (NodeRows + BitsPerByte - 1) \div BitsPerByte
    PROVE  n \in Nat /\ ByteOf(t) \in Slice(t, n, NumThreads)
<1>1. node # NoNode /\ PassOK /\ at[t] \in Nat /\ at[t] < SliceOf(t).to
      /\ SliceOf(t).from <= at[t]
  BY DEF Working, LoaderInv, PassOK
<1>2. t \in Nat /\ t + 1 \in Nat
  BY FiltersAssumption DEF Threads
<1>3. CASE node.op \in LogicalOps
  <2>1. n = Len(ret) /\ n \in Nat
    BY <1>1, <1>3, NodeRowsAreNat
  <2>2. /\ SliceOf(t).from = begin_idx(t, n) /\ SliceOf(t).to = begin_idx(t + 1, n)
        /\ ByteOf(t) = at[t]
    BY <1>3, <2>1 DEF SliceOf, slice, ByteOf
  <2>3. /\ begin_idx(t, n) = Bound(t, n, NumThreads)
        /\ begin_idx(t + 1, n) = Bound(t + 1, n, NumThreads)
    BY <1>2, <2>1, BeginIdx
  <2>4. QED
    BY <1>1, <2>1, <2>2, <2>3 DEF Slice
<1>4. CASE node.op \notin LogicalOps
  <2>1. NodeRows \in Nat
    BY <1>1, <1>4, NodeRowsAreNat
  <2>2. n = (NodeRows + BitsPerByte - 1) \div BitsPerByte /\ n \in Nat
    <3>1. n = (NodeRows + BitsPerByte - 1) \div BitsPerByte
      BY <1>4
    <3>2. NodeRows + BitsPerByte - 1 \in Nat
      BY <2>1, FiltersAssumption
    <3>3. QED
      BY <3>1, <3>2, FiltersAssumption, DivMod
  <2> DEFINE a == begin_idx(t, n)
             b == begin_idx(t + 1, n)
  <2>3. /\ a = Bound(t, n, NumThreads) /\ a \in Nat
        /\ b = Bound(t + 1, n, NumThreads) /\ b \in Nat
    BY <1>2, <2>2, BeginIdx
  <2>4. /\ SliceOf(t).from = a * BitsPerByte
        /\ SliceOf(t).to = Min({b * BitsPerByte, NodeRows})
        /\ ByteOf(t) = at[t] \div BitsPerByte
    BY <1>4, <2>2 DEF SliceOf, slice, ByteOf
  <2> HIDE DEF a, b
  <2>5. at[t] < b * BitsPerByte
    <3> DEFINE x == b * BitsPerByte
    <3>1. x \in Nat
      BY <2>3, FiltersAssumption
    <3>2. SliceOf(t).to = Min({x, NodeRows})
      BY <2>4
    <3> HIDE DEF x
    <3>3. SliceOf(t).to = IF x < NodeRows THEN x ELSE NodeRows
      BY <2>1, <3>1, <3>2, MinOfTwo
    <3>4. at[t] < x
      BY <1>1, <2>1, <3>1, <3>3
    <3>5. QED
      BY <3>4 DEF x
  <2>6. /\ at[t] \div BitsPerByte \in Nat
        /\ a <= at[t] \div BitsPerByte /\ at[t] \div BitsPerByte < b
    BY ZenonT(60), <1>1, <2>3, <2>4, <2>5, FiltersAssumption, DivBetween
  <2>7. QED
    BY <2>2, <2>3, <2>4, <2>6 DEF Slice
<1>5. QED
  BY <1>3, <1>4

LEMMA InvKeepsBytesApart == LoaderInv => BytesApart
<1> SUFFICES ASSUME LoaderInv, NEW t \in Threads, NEW u \in Threads, t # u,
                    Working(t), Working(u), ByteOf(t) = ByteOf(u)
             PROVE  FALSE
  BY DEF BytesApart
<1> DEFINE n == IF node.op \in LogicalOps THEN Len(ret)
                ELSE (NodeRows + BitsPerByte - 1) \div BitsPerByte
<1>1. /\ n \in Nat
      /\ ByteOf(t) \in Slice(t, n, NumThreads)
      /\ ByteOf(u) \in Slice(u, n, NumThreads)
  BY ByteInSlice
<1> HIDE DEF n
<1>2. QED
  BY <1>1, FiltersAssumption, SlicesDisjoint DEF Threads

-----------------------------------------------------------------------------
(* The invariant through the steps of a filter.                            *)

LEMMA NextNodeOK ==
    ASSUME LoaderInv, Evaluating
    PROVE  IF NextNode.op \in LogicalOps
           THEN /\ 1 \in DOMAIN NextNode.children
                /\ \A c \in DOMAIN NextNode.children :
                     NextNode.children[c] \in DOMAIN values
           ELSE NextNode.column \in DOMAIN types
<1> DEFINE k == Len(values) + 1
<1>1. k \in Nat /\ k - 1 = Len(values) /\ DOMAIN values = 1 .. Len(values)
  BY SequenceLen DEF LoaderInv, ValuesOK
<1>2. Len(values) < Len(filter) /\ NextNode = filter[k]
  BY DEF Evaluating, NextNode
<1>3. filter \in world.filters
  <2>1. Len(<<>>) = 0
    OBVIOUS
  <2>2. QED
    BY <1>1, <1>2, <2>1 DEF LoaderInv
<1>4. world \in Worlds /\ types = world.types
  BY DEF LoaderInv
<1>5. /\ filter \in Seq(Range(filter))
      /\ \A j \in DOMAIN filter :
           IF filter[j].op \in LogicalOps
           THEN /\ 1 \in DOMAIN filter[j].children
                /\ \A c \in DOMAIN filter[j].children : filter[j].children[c] \in 1 .. j - 1
           ELSE filter[j].column \in DOMAIN types
  BY <1>3, <1>4, WorldsAssumption
<1>6. Len(filter) \in Nat /\ DOMAIN filter = 1 .. Len(filter)
  BY <1>5, SequenceLen DEF Sequence
<1>7. k \in DOMAIN filter
  BY <1>1, <1>2, <1>6
<1> HIDE DEF k
<1>8. IF filter[k].op \in LogicalOps
      THEN /\ 1 \in DOMAIN filter[k].children
           /\ \A c \in DOMAIN filter[k].children : filter[k].children[c] \in 1 .. k - 1
      ELSE filter[k].column \in DOMAIN types
  BY <1>5, <1>7
<1>9. QED
  BY <1>1, <1>2, <1>8

LEMMA StartPassIsOK ==
    ASSUME LoaderInv, pc = "eval", NEW n, NEW read, NEW written,
           StartPass(n, read, written), UNCHANGED <<columns, pc>>,
           Sequence(written), n.op \notin LogicalOps => n.column \in DOMAIN columns
    PROVE  PassOK'
<1> DEFINE rows == IF n.op \in LogicalOps THEN 0 ELSE RowsOf(columns[n.column])
<1>1. /\ node' = n /\ ret' = written
      /\ at' = [t \in Threads |-> slice(n, rows, Len(written), t).from]
  BY DEF StartPass
<1>2. rows \in Nat /\ Len(written) \in Nat
  BY RowsAreNat, SequenceLen DEF LoaderInv, ColumnsOK
<1>3. \A t \in Threads : SliceOf(t)' = slice(n, rows, Len(written), t)
  BY <1>1 DEF SliceOf, NodeRows
<1> HIDE DEF rows
<1>4. \A t \in Threads : slice(n, rows, Len(written), t).from \in Nat
  BY <1>2, SliceFrom
<1>5. \A t \in Threads : SliceOf(t)'.from = at'[t] /\ at'[t] \in Nat
  BY <1>1, <1>3, <1>4
<1>6. at' \in [Threads -> Nat]
  BY <1>1, <1>5
<1>7. \A t \in Threads : SliceOf(t)'.from <= at'[t]
  BY <1>5
<1>8. QED
  BY <1>1, <1>6, <1>7 DEF PassOK

LEMMA EvalStepKeeps ==
    ASSUME LoaderInv, Filter
    PROVE  LoaderInv'
<1>1. /\ pc = "eval" /\ EvalStep
      /\ UNCHANGED <<world, types, filter, table_cache, pc, columns>>
  BY DEF Filter, EvalStep, StartComparison, StartIsNull, EvalIsNotNull, StartLogical,
         ApplyTask, FinishNode, loaderVars, cacheVars
<1>2. ColumnsOK(columns) /\ ValuesOK
  BY <1>1 DEF LoaderInv
<1>3. SUFFICES ValuesOK' /\ (node' # NoNode => PassOK')
  BY <1>1 DEF LoaderInv, ColumnsOK
<1>4. CASE StartComparison
  <2>1. NextNode.column \in DOMAIN columns
    BY <1>2, <1>4, NextNodeOK DEF StartComparison, ColumnsOK
  <2> DEFINE bytes == Len(columns[NextNode.column].bitmap)
             written == [b \in 1 .. bytes |-> {}]
  <2>2. bytes \in Nat
    BY <1>2, <2>1, SequenceLen DEF ColumnsOK, ColumnOK
  <2>3. Sequence(written)
    <3> HIDE DEF bytes
    <3>1. DOMAIN written = 1 .. bytes /\ written = [b \in 1 .. bytes |-> written[b]]
      OBVIOUS
    <3> HIDE DEF written
    <3>2. QED
      BY <2>2, <3>1, SequenceOfFunction
  <2>4. StartPass(NextNode, <<>>, written) /\ UNCHANGED values
    BY <1>4 DEF StartComparison
  <2> HIDE DEF written
  <2>5. PassOK'
    BY <1>1, <2>1, <2>3, <2>4, StartPassIsOK
  <2>6. QED
    BY <1>2, <2>4, <2>5 DEF ValuesOK
<1>5. CASE StartIsNull
  <2>1. NextNode.column \in DOMAIN columns
    BY <1>2, <1>5, NextNodeOK DEF StartIsNull, ColumnsOK, LogicalOps
  <2> DEFINE bitmap == columns[NextNode.column].bitmap
             n == [op |-> "NOT"]
  <2>2. Sequence(bitmap)
    BY <1>2, <2>1 DEF ColumnsOK, ColumnOK
  <2>3. StartPass(n, <<bitmap>>, bitmap) /\ UNCHANGED values
    BY <1>5 DEF StartIsNull
  <2>4. n.op \in LogicalOps
    BY DEF LogicalOps
  <2> HIDE DEF bitmap, n
  <2>5. PassOK'
    BY <1>1, <2>2, <2>3, <2>4, StartPassIsOK
  <2>6. QED
    BY <1>2, <2>3, <2>5 DEF ValuesOK
<1>6. CASE EvalIsNotNull
  <2>1. NextNode.column \in DOMAIN columns
    BY <1>2, <1>6, NextNodeOK DEF EvalIsNotNull, ColumnsOK, LogicalOps
  <2>2. Sequence(columns[NextNode.column].bitmap)
    BY <1>2, <2>1 DEF ColumnsOK, ColumnOK
  <2>3. node' = NoNode /\ values' = Append(values, columns[NextNode.column].bitmap)
    BY <1>6 DEF EvalIsNotNull, Evaluating
  <2>4. ValuesOK'
    BY <1>2, <2>2, <2>3, SequenceAppend, SequenceLen DEF ValuesOK
  <2>5. QED
    BY <2>3, <2>4
<1>7. CASE StartLogical
  <2>1. /\ NextNode.op \in LogicalOps
        /\ 1 \in DOMAIN NextNode.children /\ NextNode.children[1] \in DOMAIN values
    BY <1>7, NextNodeOK DEF StartLogical
  <2> DEFINE read == [k \in DOMAIN NextNode.children |-> values[NextNode.children[k]]]
  <2>2. StartPass(NextNode, read, read[1]) /\ UNCHANGED values
    BY <1>7 DEF StartLogical
  <2>3. Sequence(read[1])
    BY <1>2, <2>1 DEF ValuesOK
  <2> HIDE DEF read
  <2>4. PassOK'
    BY <1>1, <2>1, <2>2, <2>3, StartPassIsOK
  <2>5. QED
    BY <1>2, <2>2, <2>4 DEF ValuesOK
<1>8. ASSUME NEW t \in Threads, ApplyTask(t)
      PROVE  ValuesOK' /\ (node' # NoNode => PassOK')
  <2>1. node # NoNode /\ PassOK /\ UNCHANGED <<values, node>>
    BY <1>8 DEF ApplyTask, Working, LoaderInv
  <2>2. PICK b, v : ret' = [ret EXCEPT ![b] = v]
    BY <1>8 DEF ApplyTask
  <2>3. Sequence(ret') /\ Len(ret') = Len(ret)
    BY <2>1, <2>2, SequenceExcept DEF PassOK
  <2>4. at' = [at EXCEPT ![t] = at[t] + 1] /\ at \in [Threads -> Nat]
    BY <1>8, <2>1 DEF ApplyTask, PassOK
  <2>5. at' \in [Threads -> Nat] /\ \A u \in Threads : at[u] <= at'[u]
    BY <2>4
  <2>6. \A u \in Threads : SliceOf(u)' = SliceOf(u)
    BY <1>1, <2>1, <2>3 DEF SliceOf, NodeRows
  <2>7. \A u \in Threads : SliceOf(u).from \in Nat
    <3>1. Len(ret) \in Nat /\ (node.op \notin LogicalOps => NodeRows \in Nat)
      BY <2>1, NodeRowsAreNat
    <3>2. QED
      BY <3>1, SliceFrom DEF SliceOf
  <2>8. \A u \in Threads : SliceOf(u)'.from <= at'[u]
    BY <2>1, <2>4, <2>5, <2>6, <2>7 DEF PassOK
  <2>9. QED
    BY <1>1, <1>2, <2>1, <2>3, <2>5, <2>8 DEF PassOK, ValuesOK
<1>9. CASE FinishNode
  <2>1. Sequence(ret) /\ values' = Append(values, ret) /\ node' = NoNode
    BY <1>9 DEF FinishNode, LoaderInv, PassOK
  <2>2. ValuesOK'
    BY <1>2, <2>1, SequenceAppend, SequenceLen DEF ValuesOK
  <2>3. QED
    BY <2>1, <2>2
<1>10. QED
  BY <1>1, <1>4, <1>5, <1>6, <1>7, <1>8, <1>9 DEF EvalStep

-----------------------------------------------------------------------------
(* The other steps, and the theorem.                                       *)

(* No pass is under way unless a filter is being evaluated. *)
LEMMA NoPass == ASSUME LoaderInv, pc # "eval" PROVE node = NoNode
BY DEF LoaderInv, PassOK

LEMMA InitIsOK == Init => LoaderInv
<1> SUFFICES ASSUME Init PROVE LoaderInv
  OBVIOUS
<1>1. values = <<>> /\ Len(<<>>) = 0 /\ Sequence(<<>>)
  BY EmptySequence DEF Init
<1>2. ValuesOK
  BY <1>1, SequenceLen DEF ValuesOK
<1>3. QED
  BY <1>2 DEF Init, LoaderInv

LEMMA CallsKeep ==
    ASSUME LoaderInv, NEW f \in world.filters, Calls(f)
    PROVE  filter' \in world.filters \cup {<<>>} /\ ValuesOK' /\ node = NoNode
<1>1. values' = <<>> /\ Len(<<>>) = 0 /\ Sequence(<<>>) /\ filter' = f
  BY EmptySequence DEF Calls
<1>2. ValuesOK'
  BY <1>1, SequenceLen DEF ValuesOK
<1>3. QED
  BY <1>1, <1>2, NoPass DEF Calls

LEMMA InvIsInductive == Spec => []LoaderInv
<1>1. LoaderInv /\ [Next]_vars => LoaderInv'
  <2> SUFFICES ASSUME LoaderInv, [Next]_vars PROVE LoaderInv'
    OBVIOUS
  <2>1. ASSUME NEW f \in world.filters,
               ResultCacheHit(f) \/ SkipFile(f) \/ from_cache(f) \/ FromCacheThrows(f)
        PROVE  LoaderInv'
    <3>1. Calls(f) /\ UNCHANGED <<world, types, node, table_cache>>
          /\ pc' \notin {"read", "eval"}
      BY <2>1 DEF ResultCacheHit, SkipFile, from_cache, FromCacheThrows, cacheVars,
                  AfterCsv, Calls
    <3>2. QED
      BY <3>1, CallsKeep DEF LoaderInv, ColumnsOK
  <2>2. ASSUME NEW f \in world.filters, TableCacheHit(f) PROVE LoaderInv'
    <3>1. /\ Calls(f) /\ UNCHANGED <<world, types, node, table_cache>>
          /\ columns' = table_cache /\ table_cache # NoTable
      BY <2>2 DEF TableCacheHit, cacheVars
    <3>2. QED
      BY <3>1, CallsKeep DEF LoaderInv, ColumnsOK
  <2>3. ASSUME NEW f \in world.filters, CacheMiss(f) PROVE LoaderInv'
    <3>1. /\ Calls(f) /\ UNCHANGED <<world, types, node, table_cache>>
          /\ columns' = [c \in DOMAIN types |-> EmptyColumn(types[c])]
      BY <2>3 DEF CacheMiss, cacheVars
    <3>2. \A c \in DOMAIN types : ColumnOK(columns'[c])
      BY <3>1, EmptyIsOK
    <3>3. QED
      BY <3>1, <3>2, CallsKeep DEF LoaderInv, ColumnsOK
  <2>4. CASE AddRecord
    <3>1. /\ pc = "read" /\ UNCHANGED <<world, types, filter, values, node, pc, table_cache>>
          /\ node = NoNode /\ ColumnsOK(columns)
      BY <2>4, NoPass DEF AddRecord, evalVars, loaderVars, cacheVars, LoaderInv
    <3> DEFINE record == world.rows[RowsOf(columns[1]) + 1]
    <3>2. columns' = [c \in DOMAIN columns |-> push_back(columns[c], record[c])]
      BY <2>4 DEF AddRecord
    <3> HIDE DEF record
    <3>3. \A c \in DOMAIN columns : ColumnOK(columns'[c])
      BY <3>1, <3>2, PushBackIsOK DEF ColumnsOK
    <3>4. QED
      BY <3>1, <3>2, <3>3 DEF LoaderInv, ColumnsOK, ValuesOK
  <2>5. CASE EndOfFile
    <3>1. /\ pc = "read" /\ UNCHANGED <<world, types, filter, values, node, columns>>
          /\ node = NoNode /\ table_cache' = columns
      BY <2>5, NoPass DEF EndOfFile, evalVars, loaderVars
    <3>2. QED
      BY <3>1 DEF LoaderInv, ColumnsOK, ValuesOK
  <2>6. CASE Filter
    BY <2>6, EvalStepKeeps
  <2>7. CASE FromCsvThrows \/ StartCopy \/ FinishCopy \/ CreateFile \/ WritePage
             \/ CloseFile \/ UseTable \/ NextScan \/ \E t \in Threads : CopyColumn(t)
    <3>1. /\ UNCHANGED <<world, types, filter, values, node, table_cache>>
          /\ node = NoNode /\ pc' \notin {"read", "eval"}
      BY <2>7, NoPass DEF FromCsvThrows, Mismatched, Evaluating, StartCopy, FinishCopy,
              CreateFile, WritePage, CloseFile, UseTable, NextScan, CopyColumn, evalVars,
              loaderVars, cacheVars, Evaluated, AfterCsv
    <3>2. QED
      BY <3>1 DEF LoaderInv, ColumnsOK, ValuesOK
  <2>8. ASSUME NEW m, NextProcess(m) \/ Kill(m) PROVE LoaderInv'
    <3>1. NewProcess(m)
      BY <2>8 DEF NextProcess, Kill
    <3>2. /\ UNCHANGED <<world, types>> /\ filter' = <<>> /\ values' = <<>>
          /\ node' = NoNode /\ table_cache' = NoTable /\ pc' = "idle"
      BY <3>1 DEF NewProcess
    <3>3. ValuesOK'
      <4>1. Len(<<>>) = 0 /\ Sequence(<<>>)
        BY EmptySequence
      <4>2. QED
        BY <3>2, <4>1, SequenceLen DEF ValuesOK
    <3>4. QED
      BY <3>2, <3>3 DEF LoaderInv
  <2>9. CASE UNCHANGED vars
    <3>1. UNCHANGED <<types, columns, filter, values, node, ret, at, world, pc, table_cache>>
      BY <2>9 DEF vars, evalVars, loaderVars, cacheVars
    <3>2. QED
      BY <3>1 DEF LoaderInv, ColumnsOK, ValuesOK, PassOK, SliceOf, NodeRows
  <2>10. QED
    BY <2>1, <2>2, <2>3, <2>4, <2>5, <2>6, <2>7, <2>8, <2>9 DEF Next
<1>2. QED
  BY <1>1, InitIsOK, PTL DEF Spec

(* No two workers of the pool update the same byte of a bitmap, which they *)
(* do without a lock: the slices of a comparison end between two bytes,    *)
(* those of a logical operation are bytes.                                 *)
THEOREM BytesStayApart == Spec => []BytesApart
BY InvIsInductive, InvKeepsBytesApart, PTL

-----------------------------------------------------------------------------
(* All bitmaps of a filter have one length.                                *)

SameRows(cs) ==
    \E n \in Nat : \A c \in DOMAIN cs :
        RowsOf(cs[c]) = n /\ Len(cs[c].bitmap) = BytesFor(n)

SameLength(nb) ==
    /\ \A c \in DOMAIN columns : Len(columns[c].bitmap) = nb
    /\ \A k \in DOMAIN values : Len(values[k]) = nb
    /\ node # NoNode =>
         Len(ret) = nb /\ \A k \in DOMAIN operands : Len(operands[k]) = nb

SizesInv ==
    /\ table_cache # NoTable => SameRows(table_cache)
    /\ pc \in {"read", "eval"} => SameRows(columns)
    /\ pc = "read" => values = <<>>
    /\ pc = "eval" => \E nb \in Nat : SameLength(nb)

OperandsFit ==
    node # NoNode => \A k \in DOMAIN operands : Len(operands[k]) = Len(ret)

(* The bitmaps of columns with as many rows have as many bytes. *)
LEMMA StartsWithSameLength ==
    ASSUME NEW cs, SameRows(cs), columns' = cs, values' = <<>>, node' = NoNode
    PROVE  \E nb \in Nat : SameLength(nb)'
<1>1. PICK n \in Nat : \A c \in DOMAIN cs : Len(cs[c].bitmap) = BytesFor(n)
  BY DEF SameRows
<1>2. BytesFor(n) \in Nat
  BY BytesGrow
<1>3. DOMAIN values' = {}
  <2>1. DOMAIN <<>> = {}
    OBVIOUS
  <2>2. QED
    BY <2>1
<1>4. SameLength(BytesFor(n))'
  BY <1>1, <1>3 DEF SameLength
<1>5. QED
  BY <1>2, <1>4

LEMMA EvalStepKeepsLength ==
    ASSUME LoaderInv, Filter, NEW nb \in Nat, SameLength(nb)
    PROVE  SameLength(nb)'
<1>1. pc = "eval" /\ EvalStep /\ UNCHANGED <<types, columns>>
  BY DEF Filter, EvalStep, StartComparison, StartIsNull, EvalIsNotNull, StartLogical,
         ApplyTask, FinishNode
<1>2. /\ DOMAIN columns = DOMAIN types /\ \A c \in DOMAIN columns : Len(columns[c].bitmap) = nb
      /\ \A k \in DOMAIN values : Len(values[k]) = nb
  BY <1>1 DEF LoaderInv, ColumnsOK, SameLength
<1>3. CASE StartComparison
  <2>1. NextNode.column \in DOMAIN columns
    BY <1>2, <1>3, NextNodeOK DEF StartComparison
  <2> DEFINE bytes == Len(columns[NextNode.column].bitmap)
             written == [b \in 1 .. bytes |-> {}]
  <2>2. bytes = nb
    BY <1>2, <2>1
  <2>3. ret' = written /\ operands' = <<>> /\ UNCHANGED values
    BY <1>3 DEF StartComparison, StartPass
  <2> HIDE DEF bytes
  <2>4. Len(ret') = nb
    BY <2>2, <2>3
  <2>5. DOMAIN operands' = {}
    <3>1. DOMAIN <<>> = {}
      OBVIOUS
    <3>2. QED
      BY <2>3, <3>1
  <2>6. QED
    BY <1>1, <1>2, <2>3, <2>4, <2>5 DEF SameLength
<1>4. CASE StartIsNull
  <2>1. NextNode.column \in DOMAIN columns
    BY <1>2, <1>4, NextNodeOK DEF StartIsNull, LogicalOps
  <2> DEFINE bitmap == columns[NextNode.column].bitmap
  <2>2. ret' = bitmap /\ operands' = <<bitmap>> /\ UNCHANGED values
    BY <1>4 DEF StartIsNull, StartPass
  <2>3. Len(bitmap) = nb
    BY <1>2, <2>1
  <2> HIDE DEF bitmap
  <2>4. \A k \in DOMAIN operands' : operands'[k] = bitmap
    BY <2>2
  <2>5. QED
    BY <1>1, <1>2, <2>2, <2>3, <2>4 DEF SameLength
<1>5. CASE EvalIsNotNull
  <2>1. NextNode.column \in DOMAIN columns
    BY <1>2, <1>5, NextNodeOK DEF EvalIsNotNull, LogicalOps
  <2> DEFINE bitmap == columns[NextNode.column].bitmap
  <2>2. node' = NoNode /\ values' = Append(values, bitmap)
    BY <1>5 DEF EvalIsNotNull, Evaluating
  <2>3. Len(bitmap) = nb
    BY <1>2, <2>1
  <2> HIDE DEF bitmap
  <2>4. \A k \in DOMAIN values' : Len(values'[k]) = nb
    BY <1>2, <2>2, <2>3, SequenceAppend, SequenceLen DEF LoaderInv, ValuesOK
  <2>5. QED
    BY <1>1, <1>2, <2>2, <2>4 DEF SameLength
<1>6. CASE StartLogical
  <2>1. /\ 1 \in DOMAIN NextNode.children
        /\ \A c \in DOMAIN NextNode.children : NextNode.children[c] \in DOMAIN values
    BY <1>6, NextNodeOK DEF StartLogical
  <2> DEFINE read == [k \in DOMAIN NextNode.children |-> values[NextNode.children[k]]]
  <2>2. ret' = read[1] /\ operands' = read /\ UNCHANGED values
    BY <1>6 DEF StartLogical, StartPass
  <2>3. 1 \in DOMAIN read /\ \A k \in DOMAIN read : Len(read[k]) = nb
    BY <1>2, <2>1
  <2> HIDE DEF read
  <2>4. QED
    BY <1>1, <1>2, <2>2, <2>3 DEF SameLength
<1>7. ASSUME NEW t \in Threads, ApplyTask(t) PROVE SameLength(nb)'
  <2>1. node # NoNode /\ Sequence(ret) /\ UNCHANGED <<values, node, operands>>
    BY <1>7 DEF ApplyTask, Working, LoaderInv, PassOK
  <2>2. PICK b, v : ret' = [ret EXCEPT ![b] = v]
    BY <1>7 DEF ApplyTask
  <2>3. Len(ret') = Len(ret)
    BY <2>1, <2>2, SequenceExcept
  <2>4. QED
    BY <1>1, <2>1, <2>3 DEF SameLength
<1>8. CASE FinishNode
  <2>1. /\ node # NoNode /\ node' = NoNode /\ values' = Append(values, ret)
        /\ Sequence(values) /\ Len(ret) = nb
    BY <1>8 DEF FinishNode, LoaderInv, ValuesOK, SameLength
  <2>2. \A k \in DOMAIN values' : Len(values'[k]) = nb
    BY <1>2, <2>1, SequenceAppend, SequenceLen
  <2>3. QED
    BY <1>1, <1>2, <2>1, <2>2 DEF SameLength
<1>9. QED
  BY <1>1, <1>3, <1>4, <1>5, <1>6, <1>7, <1>8 DEF EvalStep

LEMMA SizesStep ==
    ASSUME LoaderInv, SizesInv, [Next]_vars
    PROVE  SizesInv'
<1>1. ASSUME NEW f \in world.filters,
             ResultCacheHit(f) \/ SkipFile(f) \/ from_cache(f) \/ FromCacheThrows(f)
      PROVE  SizesInv'
  <2>1. UNCHANGED table_cache /\ pc' \notin {"read", "eval"}
    BY <1>1 DEF ResultCacheHit, SkipFile, from_cache, FromCacheThrows, cacheVars,
                AfterCsv, Calls
  <2>2. QED
    BY <2>1 DEF SizesInv
<1>2. ASSUME NEW f \in world.filters, TableCacheHit(f) PROVE SizesInv'
  <2>1. /\ UNCHANGED table_cache /\ columns' = table_cache /\ pc' = "eval"
        /\ values' = <<>> /\ node' = NoNode /\ SameRows(table_cache)
    BY <1>2, NoPass DEF TableCacheHit, cacheVars, Calls, SizesInv
  <2>2. \E nb \in Nat : SameLength(nb)'
    BY <2>1, StartsWithSameLength
  <2>3. QED
    BY <2>1, <2>2 DEF SizesInv
<1>3. ASSUME NEW f \in world.filters, CacheMiss(f) PROVE SizesInv'
  <2>1. /\ UNCHANGED table_cache /\ pc' = "read" /\ values' = <<>>
        /\ columns' = [c \in DOMAIN types |-> EmptyColumn(types[c])]
    BY <1>3 DEF CacheMiss, cacheVars, Calls
  <2>2. \A c \in DOMAIN types : RowsOf(columns'[c]) = 0 /\ Len(columns'[c].bitmap) = 0
    BY <2>1 DEF RowsOf, EmptyColumn
  <2>3. BytesFor(0) = 0
    BY NoBytes
  <2>4. SameRows(columns')
    BY <2>1, <2>2, <2>3 DEF SameRows
  <2>5. QED
    BY <2>1, <2>4 DEF SizesInv, SameRows
<1>4. CASE AddRecord
  <2>1. /\ pc = "read" /\ UNCHANGED <<values, pc, table_cache>>
        /\ ColumnsOK(columns) /\ SameRows(columns)
    BY <1>4 DEF AddRecord, evalVars, loaderVars, cacheVars, LoaderInv, SizesInv
  <2> DEFINE record == world.rows[RowsOf(columns[1]) + 1]
  <2>2. columns' = [c \in DOMAIN columns |-> push_back(columns[c], record[c])]
    BY <1>4 DEF AddRecord
  <2> HIDE DEF record
  <2>3. PICK n \in Nat : \A c \in DOMAIN columns :
          RowsOf(columns[c]) = n /\ Len(columns[c].bitmap) = BytesFor(n)
    BY <2>1 DEF SameRows
  <2>4. \A c \in DOMAIN columns :
          RowsOf(columns'[c]) = n + 1 /\ Len(columns'[c].bitmap) = BytesFor(n + 1)
    BY <2>1, <2>2, <2>3, PushBackIsOK DEF ColumnsOK
  <2>5. SameRows(columns')
    <3>1. DOMAIN columns' = DOMAIN columns /\ n + 1 \in Nat
      BY <2>2
    <3> DEFINE m == n + 1
    <3>2. m \in Nat /\ \A c \in DOMAIN columns' :
            RowsOf(columns'[c]) = m /\ Len(columns'[c].bitmap) = BytesFor(m)
      BY <2>4, <3>1
    <3> HIDE DEF m
    <3>3. QED
      BY <3>2 DEF SameRows
  <2>6. QED
    BY <2>1, <2>5 DEF SizesInv, SameRows
<1>5. CASE EndOfFile
  <2>1. /\ pc = "read" /\ UNCHANGED <<columns, values, node>> /\ table_cache' = columns
        /\ pc' = "eval" /\ node = NoNode /\ values = <<>> /\ SameRows(columns)
    BY <1>5, NoPass DEF EndOfFile, evalVars, SizesInv
  <2>2. \E nb \in Nat : SameLength(nb)'
    BY <2>1, StartsWithSameLength
  <2>3. QED
    BY <2>1, <2>2 DEF SizesInv
<1>6. CASE Filter
  <2>1. /\ pc = "eval" /\ UNCHANGED <<pc, columns, table_cache>>
    BY <1>6 DEF Filter, EvalStep, StartComparison, StartIsNull, EvalIsNotNull,
            StartLogical, ApplyTask, FinishNode, cacheVars
  <2>2. \E nb \in Nat : SameLength(nb)'
    <3>1. PICK nb \in Nat : SameLength(nb)
      BY <2>1 DEF SizesInv
    <3>2. SameLength(nb)'
      BY <1>6, <3>1, EvalStepKeepsLength
    <3>3. QED
      BY <3>2
  <2>3. QED
    BY <2>1, <2>2 DEF SizesInv, SameRows
<1>7. CASE FromCsvThrows \/ StartCopy \/ FinishCopy \/ CreateFile \/ WritePage
           \/ CloseFile \/ UseTable \/ NextScan \/ \E t \in Threads : CopyColumn(t)
  <2>1. UNCHANGED table_cache /\ pc' \notin {"read", "eval"}
    BY <1>7 DEF FromCsvThrows, StartCopy, FinishCopy, CreateFile, WritePage, CloseFile, UseTable,
            NextScan, CopyColumn, cacheVars, loaderVars, AfterCsv
  <2>2. QED
    BY <2>1 DEF SizesInv
<1>8. ASSUME NEW m, NextProcess(m) \/ Kill(m) PROVE SizesInv'
  BY <1>8 DEF NextProcess, Kill, NewProcess, SizesInv
<1>9. CASE UNCHANGED vars
  BY <1>9 DEF vars, evalVars, loaderVars, cacheVars, SizesInv, SameRows, SameLength
<1>10. QED
  BY <1>1, <1>2, <1>3, <1>4, <1>5, <1>6, <1>7, <1>8, <1>9 DEF Next

(* The bitmaps that AND, OR and NOT combine have the length of the result: *)
(* the assertions of bitmap_and and bitmap_or hold, and nothing is read    *)
(* behind the end.  Columns of numbers and of strings decide differently   *)
(* when a bitmap grows, and yet alike.                                     *)
THEOREM OperandsHaveOneLength == Spec => []OperandsFit
<1>1. Init => SizesInv
  BY DEF Init, SizesInv
<1>2. LoaderInv /\ SizesInv /\ [Next]_vars => SizesInv'
  BY SizesStep
<1>3. LoaderInv /\ SizesInv => OperandsFit
  BY NoPass DEF SizesInv, SameLength, OperandsFit
<1>4. QED
  BY <1>1, <1>2, <1>3, InvIsInductive, PTL DEF Spec

-----------------------------------------------------------------------------
(* What the columns hold and what the bitmaps of a filter say.             *)

NumRows == Len(world.rows)

(* Where the strings of a column lie. *)
TextOK(c, n) ==
    /\ c.data \in Seq(Int) /\ c.offsets \in Seq(Nat)
    /\ n = 0 => c.data = <<>>
    /\ n > 0 => c.offsets[n] = Len(c.data)
    /\ \A i, j \in 1 .. n : i <= j => c.offsets[i] <= c.offsets[j]

(* The column holds attribute k of the first n rows of the file. *)
Holds(c, k, n) ==
    /\ ColumnOK(c) /\ c.type = types[k]
    /\ RowsOf(c) = n /\ Len(c.bitmap) = BytesFor(n)
    /\ c.type = "VARCHAR" => TextOK(c, n)
    /\ \A i \in 0 .. n - 1 :
         /\ is_not_null(c, i) <=> world.rows[i + 1][k] # Null
         /\ world.rows[i + 1][k] # Null => get(c, i) = world.rows[i + 1][k]

AllHold(cs, n) == DOMAIN cs = DOMAIN types /\ \A k \in DOMAIN cs : Holds(cs[k], k, n)

(* The bit of a node for row i from those of the nodes below it. *)
NodeBit(k, i) ==
    LET n == filter[k]
        Child(j) == BitAt(values[n.children[j]], i)
    IN  CASE n.op = "NOT" -> ~Child(1)
          [] n.op = "AND" -> Child(1) /\ Child(2)
          [] n.op = "OR"  -> Child(1) \/ Child(2)
          [] n.op = "IS_NULL"     -> ~is_not_null(columns[n.column], i)
          [] n.op = "IS_NOT_NULL" -> is_not_null(columns[n.column], i)
          [] OTHER -> selects(n, i)

(* A worker has been at this row, or this byte. *)
Done(i) == \E t \in Threads : SliceOf(t).from <= i /\ i < at[t]

PassRight ==
    IF node.op \in LogicalOps
    THEN /\ \/ /\ node = NextNode
               /\ \A j \in DOMAIN node.children : operands[j] = values[node.children[j]]
            \/ /\ NextNode.op = "IS_NULL" /\ node.op = "NOT"
               /\ operands[1] = columns[NextNode.column].bitmap
         /\ \A m \in 0 .. Len(ret) - 1 : Done(m) => ret[m + 1] = combined(m + 1)
    ELSE /\ node = NextNode /\ node.op \notin NullOps
         /\ \A i \in 0 .. NumRows - 1 : BitAt(ret, i) <=> Done(i) /\ selects(node, i)

BitsRight == \A k \in DOMAIN values : \A i \in 0 .. NumRows - 1 : BitAt(values[k], i) <=> NodeBit(k, i)

DataInv ==
    /\ table_cache # NoTable => AllHold(table_cache, NumRows)
    /\ pc = "read" => \E n \in 0 .. NumRows : AllHold(columns, n)
    /\ pc \in {"eval", "copy"} \/ values # <<>> => AllHold(columns, NumRows)
    /\ Len(values) <= Len(filter)
    /\ pc \notin {"eval"} => node = NoNode
    /\ node # NoNode => Len(values) < Len(filter) /\ PassRight
    /\ BitsRight

(* Where the bit of a row lies, and when a row takes a new byte.           *)
LEMMA RowParts ==
    ASSUME NEW n \in Nat
    PROVE  /\ n \div BitsPerByte \in Nat /\ n % BitsPerByte \in Bits
           /\ BytesFor(n + 1) # BytesFor(n) =>
                BytesFor(n) = n \div BitsPerByte /\ n % BitsPerByte = 0
           /\ \A i \in 0 .. n - 1 :
                /\ i \div BitsPerByte \in 0 .. BytesFor(n) - 1
                /\ i % BitsPerByte \in Bits
                /\ i \div BitsPerByte = n \div BitsPerByte =>
                     i % BitsPerByte # n % BitsPerByte
<1>1. PICK B \in Nat \ {0} : B = BitsPerByte
  BY FiltersAssumption
<1>2. Bits = 0 .. B - 1
  BY <1>1 DEF Bits
<1>3. PICK q \in Nat, r \in 0 .. B - 1 : q = n \div B /\ r = n % B /\ n = B * q + r
  BY DivMod
<1>4. PICK h : h = BytesFor(n)
  OBVIOUS
<1>5. h \in Nat /\ BytesFor(n + 1) = q + 1 /\ BytesFor(n + 1) \in {h, h + 1}
  BY <1>1, <1>3, <1>4, BytesGrow
<1>6. n <= h * B /\ h * B < n + B
  <2>1. PICK m \in Nat : m = n + B - 1
    OBVIOUS
  <2>2. PICK s \in 0 .. B - 1 : m = B * h + s
    <3>1. h = m \div B
      BY <1>1, <1>4, <2>1 DEF BytesFor
    <3> QED
      BY <2>1, <3>1, DivMod
  <2>3. B * h = h * B /\ h * B \in Nat
    BY <1>5
  <2> QED
    BY <2>1, <2>2, <2>3
<1>7. ASSUME h # q + 1 PROVE h = q /\ r = 0
  <2>1. h = q
    BY <1>3, <1>5, <1>7
  <2>2. B * q = h * B /\ h * B \in Nat
    BY <2>1, <1>5
  <2> QED
    BY <1>3, <1>6, <2>1, <2>2
<1>8. ASSUME NEW i \in 0 .. n - 1
      PROVE  i \div B \in 0 .. h - 1 /\ i % B \in 0 .. B - 1 /\ (i \div B = q => i % B # r)
  <2>1. i \in Nat /\ i < n /\ i < h * B /\ h * B \in Nat
    BY <1>5, <1>6
  <2>2. PICK p \in Nat, s \in 0 .. B - 1 : p = i \div B /\ s = i % B /\ i = B * p + s
    BY <2>1, DivMod
  <2>3. p < h
    <3>1. 0 * B <= i
      BY <2>1
    <3>2. i \div B < h
      BY <1>5, <2>1, <3>1, DivBetween
    <3> QED
      BY <2>2, <3>2
  <2>4. p = q => s # r
    BY <1>3, <2>1, <2>2
  <2> QED
    BY <1>5, <2>2, <2>3, <2>4
<1> QED
  BY <1>1, <1>2, <1>3, <1>4, <1>5, <1>7, <1>8

Marked(g, v, r) == r = bitmap_push_back(g, v # Null)

(* The bit of a new row is set as it should be, the others stay.           *)
LEMMA PushBit ==
    ASSUME NEW g, ColumnOK(g), NEW n \in Nat, RowsOf(g) = n + 1,
           Len(g.bitmap) = BytesFor(n), NEW v, NEW r, Marked(g, v, r)
    PROVE  /\ r = [g EXCEPT !.bitmap = r.bitmap]
           /\ BitAt(r.bitmap, n) <=> v # Null
           /\ \A i \in 0 .. n - 1 : BitAt(r.bitmap, i) <=> BitAt(g.bitmap, i)
<1>1. PICK m : m = g.bitmap
  OBVIOUS
<1>2. PICK q, bit : q = n \div BitsPerByte /\ bit = n % BitsPerByte
  OBVIOUS
<1>3. PICK h : h = BytesFor(n)
  OBVIOUS
<1>4. /\ q \in Nat /\ h \in Nat /\ Sequence(m) /\ Len(m) = h
      /\ BytesFor(n + 1) = q + 1 /\ BytesFor(n + 1) \in {h, h + 1}
      /\ h # q + 1 => h = q /\ bit = 0
  BY <1>1, <1>2, <1>3, RowParts, BytesGrow DEF ColumnOK
<1>5. \A i \in 0 .. n - 1 : /\ i \div BitsPerByte \in 0 .. h - 1
                            /\ i \div BitsPerByte = q => i % BitsPerByte # bit
  BY <1>2, <1>3, RowParts
<1>6. RowsOf(g) - 1 = n
  OBVIOUS
<1>7. NeedsByte(g) <=> h # q + 1
  <2>1. NeedsByte(g) <=> IF g.type = "VARCHAR" THEN q + 1 > h ELSE BytesFor(n + 1) > h
    BY <1>1, <1>2, <1>4, <1>6 DEF NeedsByte, BytesFor
  <2> QED
    BY <1>4, <2>1
<1>8. PICK w : w = IF NeedsByte(g) THEN Append(m, IF v # Null THEN {0} ELSE {})
                   ELSE [m EXCEPT ![q + 1] = IF v # Null THEN m[q + 1] \cup {bit}
                                             ELSE m[q + 1] \ {bit}]
  OBVIOUS
<1>9. r = [g EXCEPT !.bitmap = w]
  BY <1>1, <1>2, <1>6, <1>8 DEF Marked, bitmap_push_back
<1>10. r.bitmap = w /\ r = [g EXCEPT !.bitmap = r.bitmap]
  <2>1. g = [type |-> g.type, data |-> g.data, offsets |-> g.offsets, bitmap |-> g.bitmap]
    BY DEF ColumnOK
  <2>2. r = [type |-> g.type, data |-> g.data, offsets |-> g.offsets, bitmap |-> w]
    BY <1>9, <2>1
  <2>3. r.bitmap = w
    BY <2>2
  <2> QED
    BY <1>9, <2>3
<1>11. DOMAIN m = 1 .. h
  BY <1>4, SequenceLen
<1>12. CASE NeedsByte(g)
  <2>1. PICK e : e = IF v # Null THEN {0} ELSE {}
    OBVIOUS
  <2>2. w = Append(m, e) /\ h = q /\ bit = 0
    BY <1>4, <1>7, <1>8, <1>12, <2>1
  <2>3. w[h + 1] = e /\ \A k \in 1 .. h : w[k] = m[k]
    BY <1>4, <1>11, <2>2, SequenceAppend
  <2>4. BitAt(w, n) <=> v # Null
    BY <1>2, <2>1, <2>2, <2>3 DEF BitAt
  <2>5. ASSUME NEW i \in 0 .. n - 1 PROVE BitAt(w, i) <=> BitAt(m, i)
    <3>1. PICK k : k = i \div BitsPerByte
      OBVIOUS
    <3>2. k \in 0 .. h - 1
      BY <1>5, <3>1
    <3>3. k + 1 \in 1 .. h
      BY <1>4, <3>2
    <3> QED
      BY <2>3, <3>1, <3>3 DEF BitAt
  <2> QED
    BY <1>1, <1>10, <2>4, <2>5
<1>13. CASE ~NeedsByte(g)
  <2>1. PICK e : e = IF v # Null THEN m[q + 1] \cup {bit} ELSE m[q + 1] \ {bit}
    OBVIOUS
  <2>2. w = [m EXCEPT ![q + 1] = e] /\ h = q + 1
    BY <1>4, <1>7, <1>8, <1>13, <2>1
  <2>3. w[q + 1] = e /\ \A k \in 1 .. h : k # q + 1 => w[k] = m[k]
    BY <1>4, <1>11, <2>2
  <2>4. BitAt(w, n) <=> v # Null
    BY <1>2, <2>1, <2>3 DEF BitAt
  <2>5. ASSUME NEW i \in 0 .. n - 1 PROVE BitAt(w, i) <=> BitAt(m, i)
    <3>1. PICK k \in 1 .. h : k = i \div BitsPerByte + 1
      BY <1>4, <1>5
    <3>2. PICK z : z = i % BitsPerByte
      OBVIOUS
    <3>3. /\ BitAt(w, i) <=> z \in w[k]
          /\ BitAt(m, i) <=> z \in m[k]
      BY <3>1, <3>2 DEF BitAt
    <3>4. CASE k = q + 1
      <4>1. z # bit
        BY <1>4, <1>5, <3>1, <3>2, <3>4
      <4>2. w[k] = e /\ (z \in e <=> z \in m[k])
        BY <2>1, <2>3, <3>4, <4>1
      <4> QED
        BY <3>3, <4>2
    <3>5. CASE k # q + 1
      BY <2>3, <3>1, <3>3, <3>5
    <3> QED
      BY <3>4, <3>5
  <2> QED
    BY <1>1, <1>10, <2>4, <2>5
<1> QED
  BY <1>12, <1>13

(* A string put behind the others is read as it is, and those before it as *)
(* before.                                                                 *)
LEMMA PushText ==
    ASSUME NEW c, NEW n \in Nat, c.type = "VARCHAR", TextOK(c, n), Len(c.offsets) = n,
           NEW x \in Seq(Int), NEW r, r.type = "VARCHAR", r.data = c.data \o x,
           r.offsets = Append(c.offsets, Len(c.data) + Len(x))
    PROVE  /\ TextOK(r, n + 1) /\ get(r, n) = x
           /\ \A i \in 0 .. n - 1 : get(r, i) = get(c, i)
<1>1. PICK a \in Seq(Int) : a = c.data
  BY DEF TextOK
<1>2. PICK l \in Nat : l = Len(a)
  OBVIOUS
<1>3. PICK k \in Nat : k = Len(x)
  OBVIOUS
<1>4. PICK o \in Seq(Nat) : o = c.offsets
  BY DEF TextOK
<1>5. PICK p : p = r.offsets
  OBVIOUS
<1>6. /\ Len(o) = n
      /\ n = 0 => a = <<>>
      /\ n > 0 => o[n] = l
      /\ \A i, j \in 1 .. n : i <= j => o[i] <= o[j]
  BY <1>1, <1>2, <1>4 DEF TextOK
<1>7. /\ p \in Seq(Nat) /\ Len(p) = n + 1 /\ p[n + 1] = l + k
      /\ \A i \in 1 .. n : p[i] = o[i]
  <2>1. p = Append(o, l + k)
    BY <1>1, <1>2, <1>3, <1>4, <1>5
  <2>2. l + k \in Nat
    OBVIOUS
  <2> QED
    BY ONLY <2>1, <2>2, <1>6, o \in Seq(Nat), n \in Nat
<1>8. \A i \in 1 .. n : o[i] \in 0 .. l
  <2> SUFFICES ASSUME NEW i \in 1 .. n PROVE o[i] \in 0 .. l
    OBVIOUS
  <2>1. o[i] \in Nat
    BY ONLY <1>6, o \in Seq(Nat), i \in 1 .. n
  <2>2. i <= n /\ n \in 1 .. n /\ n > 0
    OBVIOUS
  <2>3. o[i] <= o[n] /\ o[n] = l
    BY ONLY <1>6, <2>2, i \in 1 .. n
  <2> QED
    BY ONLY <2>1, <2>3, l \in Nat
<1>9. PICK d : d = a \o x
  OBVIOUS
<1>10. /\ r.data = d /\ d \in Seq(Int) /\ Len(d) = l + k
       /\ \A s \in Nat, e \in 0 .. l : SubSeq(d, s + 1, e) = SubSeq(a, s + 1, e)
       /\ SubSeq(d, l + 1, l + k) = x
  <2>1. r.data = d
    BY <1>1, <1>9
  <2>2. d \in Seq(Int) /\ Len(d) = l + k
    BY ONLY <1>2, <1>3, <1>9, a \in Seq(Int), x \in Seq(Int), ConcatenationAt
  <2>3. ASSUME NEW s \in Nat, NEW e \in 0 .. l PROVE SubSeq(d, s + 1, e) = SubSeq(a, s + 1, e)
    <3>1. e \in 0 .. Len(a)
      BY <1>2
    <3>2. SubSeq(a \o x, s + 1, e) = SubSeq(a, s + 1, e)
      BY ONLY <3>1, s \in Nat, a \in Seq(Int), x \in Seq(Int), PartOfConcat
    <3> QED
      BY <1>9, <3>2
  <2>4. SubSeq(d, l + 1, l + k) = x
    <3>1. 0 \in Nat /\ 0 \in 0 .. Len(a)
      BY <1>2
    <3>2. SubSeq(a \o x, Len(a) + 1, Len(a) + Len(x)) = x
      BY ONLY ZenonT(60), <3>1, a \in Seq(Int), x \in Seq(Int), PartOfConcat
    <3> QED
      BY <1>2, <1>3, <1>9, <3>2
  <2> QED
    BY <2>1, <2>2, <2>3, <2>4
<1>11. TextOK(r, n + 1)
  <2>1. \A i, j \in 1 .. n + 1 : i <= j => p[i] <= p[j]
    <3> SUFFICES ASSUME NEW i \in 1 .. n + 1, NEW j \in 1 .. n + 1, i <= j PROVE p[i] <= p[j]
      OBVIOUS
    <3>1. CASE j = n + 1
      <4>1. i = n + 1 \/ i \in 1 .. n
        OBVIOUS
      <4>2. i \in 1 .. n => p[i] \in 0 .. l
        BY <1>7, <1>8
      <4> QED
        BY <1>7, <3>1, <4>1, <4>2
    <3>2. CASE j # n + 1
      <4>1. i \in 1 .. n /\ j \in 1 .. n
        BY <3>2
      <4> QED
        BY <1>6, <1>7, <4>1
    <3> QED
      BY <3>1, <3>2
  <2>2. n + 1 # 0 /\ n + 1 > 0
    OBVIOUS
  <2> QED
    BY <1>5, <1>7, <1>10, <2>1, <2>2 DEF TextOK
<1>12. PICK b : b = [i \in 0 .. n |-> IF i = 0 THEN 0 ELSE o[i]]
  OBVIOUS
<1>13. \A i \in 0 .. n : b[i] = (IF i = 0 THEN 0 ELSE o[i]) /\ b[i] \in 0 .. l
  <2> SUFFICES ASSUME NEW i \in 0 .. n
               PROVE  b[i] = (IF i = 0 THEN 0 ELSE o[i]) /\ b[i] \in 0 .. l
    OBVIOUS
  <2>1. b[i] = IF i = 0 THEN 0 ELSE o[i]
    BY <1>12
  <2>2. i # 0 => i \in 1 .. n
    OBVIOUS
  <2> QED
    BY <1>8, <2>1, <2>2
<1>14. b[n] = l
  <2>1. n \in 0 .. n /\ (n = 0 => l = 0)
    <3>1. Len(<<>>) = 0
      OBVIOUS
    <3> QED
      BY <1>2, <1>6, <3>1
  <2> QED
    BY <1>6, <1>13, <2>1
<1>15. \A i \in 0 .. n - 1 : get(c, i) = SubSeq(a, b[i] + 1, o[i + 1])
  <2> SUFFICES ASSUME NEW i \in 0 .. n - 1
               PROVE  get(c, i) = SubSeq(a, b[i] + 1, o[i + 1])
    OBVIOUS
  <2>1. b[i] = IF i = 0 THEN 0 ELSE o[i]
    BY <1>13
  <2>2. get(c, i) = SubSeq(a, IF i = 0 THEN 1 ELSE o[i] + 1, o[i + 1])
    BY <1>1, <1>4 DEF get
  <2>3. CASE i = 0
    <3>1. b[i] + 1 = 1
      BY <2>1, <2>3
    <3> QED
      BY <2>2, <2>3, <3>1
  <2>4. CASE i # 0
    BY <2>1, <2>2, <2>4
  <2> QED
    BY <2>3, <2>4
<1>16. \A i \in 0 .. n : get(r, i) = SubSeq(d, b[i] + 1, p[i + 1])
  <2> SUFFICES ASSUME NEW i \in 0 .. n
               PROVE  get(r, i) = SubSeq(d, b[i] + 1, p[i + 1])
    OBVIOUS
  <2>1. b[i] = IF i = 0 THEN 0 ELSE o[i]
    BY <1>13
  <2>2. get(r, i) = SubSeq(d, IF i = 0 THEN 1 ELSE p[i] + 1, p[i + 1])
    BY <1>5, <1>10 DEF get
  <2>3. CASE i = 0
    <3>1. b[i] + 1 = 1
      BY <2>1, <2>3
    <3> QED
      BY <2>2, <2>3, <3>1
  <2>4. CASE i # 0
    <3>1. i \in 1 .. n
      BY <2>4
    <3>2. p[i] = o[i]
      BY <1>7, <3>1
    <3> QED
      BY <2>1, <2>2, <2>4, <3>2
  <2> QED
    BY <2>3, <2>4
<1>17. get(r, n) = x
  <2>1. n \in 0 .. n
    OBVIOUS
  <2> QED
    BY <1>7, <1>10, <1>14, <1>16, <2>1
<1>18. ASSUME NEW i \in 0 .. n - 1 PROVE get(r, i) = get(c, i)
  <2>1. i \in 0 .. n /\ i + 1 \in 1 .. n
    OBVIOUS
  <2>2. PICK e \in 0 .. l : e = o[i + 1] /\ e = p[i + 1]
    BY <1>7, <1>8, <2>1
  <2>3. PICK s : s = b[i]
    OBVIOUS
  <2>4. get(r, i) = SubSeq(d, s + 1, e)
    BY <1>16, <2>1, <2>2, <2>3
  <2>5. get(c, i) = SubSeq(a, s + 1, e)
    BY <1>15, <2>2, <2>3
  <2>6. s \in Nat
    <3>1. s \in 0 .. l
      BY <1>13, <2>1, <2>3
    <3> QED
      BY <3>1
  <2> QED
    BY <1>10, <2>4, <2>5, <2>6
<1> QED
  BY <1>11, <1>17, <1>18

(* The cells of a file are NULL or sequences of integers. *)
LEMMA CellsOfFile ==
    ASSUME LoaderInv
    PROVE  /\ Len(world.rows) \in Nat /\ DOMAIN world.rows = 1 .. Len(world.rows)
           /\ \E m \in Nat : m > 0 /\ DOMAIN types = 1 .. m
           /\ \A i \in 1 .. NumRows :
                /\ world.rows[i] = [c \in DOMAIN types |-> world.rows[i][c]]
                /\ \A k \in DOMAIN types :
                     world.rows[i][k] = Null \/ world.rows[i][k] \in Seq(Int)
<1>1. world \in Worlds /\ types = world.types
  BY DEF LoaderInv
<1>2. /\ types \in Seq(Range(types)) /\ types # <<>>
      /\ world.rows \in Seq(Range(world.rows))
      /\ \A i \in DOMAIN world.rows :
           /\ world.rows[i] = [c \in DOMAIN types |-> world.rows[i][c]]
           /\ \A c \in DOMAIN types : world.rows[i][c] = Null \/ world.rows[i][c] \in Seq(Int)
  BY <1>1, WorldsAssumption
<1>3. Len(world.rows) \in Nat /\ DOMAIN world.rows = 1 .. Len(world.rows)
  BY <1>2
<1>4. Len(types) \in Nat /\ Len(types) > 0 /\ DOMAIN types = 1 .. Len(types)
  BY <1>2
<1>5. \E m \in Nat : m > 0 /\ DOMAIN types = 1 .. m
  <2>1. PICK m : m = Len(types)
    OBVIOUS
  <2>2. m \in Nat /\ m > 0 /\ DOMAIN types = 1 .. m
    BY ONLY <1>4, <2>1
  <2> QED
    BY ONLY <2>2
<1> QED
  BY <1>2, <1>3, <1>5 DEF NumRows

LEMMA EmptyHolds ==
    ASSUME NEW k
    PROVE  Holds(EmptyColumn(types[k]), k, 0)
<1>1. PICK c : c = EmptyColumn(types[k])
  OBVIOUS
<1>2. c.type = types[k] /\ c.data = <<>> /\ c.offsets = <<>> /\ c.bitmap = <<>>
  BY <1>1 DEF EmptyColumn
<1>3. Len(<<>>) = 0
  OBVIOUS
<1>4. RowsOf(c) = 0
  BY <1>2, <1>3 DEF RowsOf
<1>5. Len(c.bitmap) = BytesFor(0)
  BY <1>2, <1>3, NoBytes
<1>6. TextOK(c, 0)
  <2>1. <<>> \in Seq(Int) /\ <<>> \in Seq(Nat)
    OBVIOUS
  <2> QED
    BY <1>2, <2>1 DEF TextOK
<1>7. ColumnOK(c)
  BY <1>1, EmptyIsOK
<1> QED
  BY <1>1, <1>2, <1>4, <1>5, <1>6, <1>7 DEF Holds

(* The next row of the file put at the end of a column. *)
LEMMA PushHolds ==
    ASSUME LoaderInv, NEW c, NEW k \in DOMAIN types, NEW n \in 0 .. NumRows - 1,
           Holds(c, k, n), NEW v, v = world.rows[n + 1][k]
    PROVE  Holds(push_back(c, v), k, n + 1)
<1>1. /\ ColumnOK(c) /\ c.type = types[k] /\ RowsOf(c) = n /\ Len(c.bitmap) = BytesFor(n)
      /\ c.type = "VARCHAR" => TextOK(c, n)
      /\ n \in Nat
  BY CellsOfFile DEF Holds, NumRows
<1>2. v = Null \/ v \in Seq(Int)
  <2>1. n + 1 \in 1 .. NumRows
    BY CellsOfFile DEF NumRows
  <2> QED
    BY <2>1, CellsOfFile
<1>3. PICK r : r = push_back(c, v)
  OBVIOUS
<1>4. ColumnOK(r) /\ RowsOf(r) = n + 1 /\ Len(r.bitmap) = BytesFor(n + 1)
  BY <1>1, <1>3, PushBackIsOK
<1>5. PICK g : /\ r = bitmap_push_back(g, v # Null)
               /\ ColumnOK(g) /\ RowsOf(g) = n + 1
               /\ g.type = c.type /\ g.bitmap = c.bitmap
               /\ c.type = "VARCHAR" => TextOK(g, n + 1)
               /\ v # Null => get(g, n) = v
               /\ \A i \in 0 .. n - 1 : get(g, i) = get(c, i)
  <2>1. CASE c.type = "VARCHAR"
    <3>1. TextOK(c, n) /\ Len(c.offsets) = n
      BY <1>1, <2>1 DEF RowsOf
    <3>2. PICK x : x = IF v = Null THEN <<>> ELSE v
      OBVIOUS
    <3>3. x \in Seq(Int)
      <4>1. <<>> \in Seq(Int)
        OBVIOUS
      <4> QED
        BY <1>2, <3>2, <4>1
    <3>4. PICK d : d = IF v = Null THEN c.data ELSE c.data \o v
      OBVIOUS
    <3>5. d = c.data \o x /\ Len(d) = Len(c.data) + Len(x)
      <4>1. PICK a \in Seq(Int) : a = c.data
        BY <3>1 DEF TextOK
      <4>2. a \o <<>> = a
        OBVIOUS
      <4>3. Len(a \o x) = Len(a) + Len(x)
        BY <3>3
      <4> QED
        BY <3>2, <3>4, <4>1, <4>2, <4>3
    <3>6. PICK o : o = Append(c.offsets, Len(d))
      OBVIOUS
    <3>7. Sequence(o) /\ Len(o) = n + 1
      BY <1>1, <2>1, <3>1, <3>6, LongerByOne DEF ColumnOK
    <3>13. PICK g : g = [c EXCEPT !.data = d, !.offsets = o]
      OBVIOUS
    <3>8. g = [type |-> c.type, data |-> d, offsets |-> o, bitmap |-> c.bitmap]
      BY <1>1, <3>13 DEF ColumnOK
    <3>9. r = bitmap_push_back(g, v # Null)
      BY <1>3, <2>1, <3>4, <3>6, <3>13 DEF push_back
    <3>10. /\ g.type = "VARCHAR" /\ g.data = c.data \o x /\ g.bitmap = c.bitmap
           /\ g.offsets = Append(c.offsets, Len(c.data) + Len(x)) /\ g.offsets = o
      BY <2>1, <3>5, <3>6, <3>8
    <3>11. ColumnOK(g) /\ RowsOf(g) = n + 1
      BY <1>1, <2>1, <3>7, <3>8, <3>10 DEF ColumnOK, RowsOf
    <3>12. /\ TextOK(g, n + 1) /\ get(g, n) = x
           /\ \A i \in 0 .. n - 1 : get(g, i) = get(c, i)
      <4>1. c.type = "VARCHAR" /\ g.type = "VARCHAR" /\ n \in Nat
        BY <1>1, <2>1, <3>10
      <4>2. g.data = c.data \o x /\ g.offsets = Append(c.offsets, Len(c.data) + Len(x))
        BY <3>10
      <4> QED
        BY ONLY SMTT(30), <3>1, <3>3, <4>1, <4>2, PushText
    <3> QED
      BY <2>1, <3>2, <3>9, <3>10, <3>11, <3>12
  <2>2. CASE c.type # "VARCHAR"
    <3>1. Len(c.data) = n /\ Sequence(c.data)
      BY <1>1, <2>2 DEF RowsOf, ColumnOK
    <3>2. PICK e : e = IF v = Null THEN <<0>> ELSE v
      OBVIOUS
    <3>3. PICK d : d = Append(c.data, e)
      OBVIOUS
    <3>4. Sequence(d) /\ Len(d) = n + 1 /\ d[n + 1] = e /\ \A i \in 1 .. n : d[i] = c.data[i]
      BY <3>1, <3>3, LongerByOne, SequenceAppend, SequenceLen
    <3>10. PICK g : g = [c EXCEPT !.data = d]
      OBVIOUS
    <3>5. g = [type |-> c.type, data |-> d, offsets |-> c.offsets, bitmap |-> c.bitmap]
      BY <1>1, <3>10 DEF ColumnOK
    <3>6. r = bitmap_push_back(g, v # Null)
      BY <1>3, <2>2, <3>2, <3>3, <3>10 DEF push_back
    <3>7. g.type = c.type /\ g.data = d /\ g.bitmap = c.bitmap
      BY <3>5
    <3>8. ColumnOK(g) /\ RowsOf(g) = n + 1
      BY <1>1, <2>2, <3>4, <3>5 DEF ColumnOK, RowsOf
    <3>9. get(g, n) = e /\ \A i \in 0 .. n - 1 : get(g, i) = get(c, i)
      BY <1>1, <2>2, <3>4, <3>7 DEF get
    <3> QED
      BY <2>2, <3>2, <3>6, <3>7, <3>8, <3>9
  <2> QED
    BY <2>1, <2>2
<1>6. /\ r = [g EXCEPT !.bitmap = r.bitmap]
      /\ BitAt(r.bitmap, n) <=> v # Null
      /\ \A i \in 0 .. n - 1 : BitAt(r.bitmap, i) <=> BitAt(c.bitmap, i)
  <2>1. Len(g.bitmap) = BytesFor(n) /\ n \in Nat
    BY <1>1, <1>5
  <2>2. /\ r = [g EXCEPT !.bitmap = r.bitmap]
        /\ BitAt(r.bitmap, n) <=> v # Null
        /\ \A i \in 0 .. n - 1 : BitAt(r.bitmap, i) <=> BitAt(g.bitmap, i)
    <3>1. Marked(g, v, r)
      BY <1>5 DEF Marked
    <3> QED
      BY ONLY <1>5, <2>1, <3>1, PushBit
  <2> QED
    BY <1>5, <2>2
<1>7. r.type = c.type /\ r.data = g.data /\ r.offsets = g.offsets
  <2>1. g = [type |-> g.type, data |-> g.data, offsets |-> g.offsets, bitmap |-> g.bitmap]
    BY <1>5 DEF ColumnOK
  <2>2. r = [type |-> g.type, data |-> g.data, offsets |-> g.offsets, bitmap |-> r.bitmap]
    BY <1>6, <2>1
  <2> QED
    BY <1>5, <2>2
<1>8. \A i : get(r, i) = get(g, i)
  BY <1>5, <1>7 DEF get
<1>9. c.type = "VARCHAR" => TextOK(r, n + 1)
  BY <1>5, <1>7 DEF TextOK
<1>10. ASSUME NEW i \in 0 .. n
       PROVE  /\ is_not_null(r, i) <=> world.rows[i + 1][k] # Null
              /\ world.rows[i + 1][k] # Null => get(r, i) = world.rows[i + 1][k]
  <2>1. CASE i = n
    BY <1>5, <1>6, <1>8, <2>1 DEF is_not_null
  <2>2. CASE i # n
    <3>1. i \in 0 .. n - 1
      BY <1>1, <2>2
    <3>2. /\ is_not_null(c, i) <=> world.rows[i + 1][k] # Null
          /\ world.rows[i + 1][k] # Null => get(c, i) = world.rows[i + 1][k]
      BY <3>1 DEF Holds
    <3>3. get(r, i) = get(c, i) /\ (BitAt(r.bitmap, i) <=> BitAt(c.bitmap, i))
      BY <1>5, <1>6, <1>8, <3>1
    <3> QED
      BY <3>2, <3>3 DEF is_not_null
  <2> QED
    BY <2>1, <2>2
<1>11. PICK m : m = n + 1
  OBVIOUS
<1>12. \A i \in 0 .. m - 1 :
         /\ is_not_null(r, i) <=> world.rows[i + 1][k] # Null
         /\ world.rows[i + 1][k] # Null => get(r, i) = world.rows[i + 1][k]
  <2>1. m - 1 = n
    BY <1>1, <1>11
  <2> QED
    BY <1>10, <2>1
<1>13. Holds(r, k, m)
  BY <1>1, <1>4, <1>7, <1>9, <1>11, <1>12 DEF Holds
<1> QED
  BY <1>3, <1>11, <1>13

-----------------------------------------------------------------------------
(* The invariant through the steps of a filter.                            *)

(* The nodes of the filter of a scan are those of its world. *)
LEMMA NodesOK ==
    ASSUME LoaderInv
    PROVE  /\ Len(filter) \in Nat /\ DOMAIN filter = 1 .. Len(filter)
           /\ \A k \in 1 .. Len(filter) :
                IF filter[k].op \in LogicalOps
                THEN /\ 1 \in DOMAIN filter[k].children
                     /\ filter[k].op # "NOT" => 2 \in DOMAIN filter[k].children
                     /\ \A c \in DOMAIN filter[k].children : filter[k].children[c] \in 1 .. k - 1
                ELSE filter[k].column \in DOMAIN types
<1>1. world \in Worlds /\ types = world.types /\ filter \in world.filters \cup {<<>>}
  BY DEF LoaderInv
<1>2. CASE filter = <<>>
  <2>1. Len(<<>>) = 0 /\ DOMAIN <<>> = 1 .. 0
    OBVIOUS
  <2>2. Len(filter) = 0 /\ DOMAIN filter = 1 .. 0
    BY <1>2, <2>1
  <2> QED
    BY <2>2
<1>3. CASE filter \in world.filters
  <2>1. /\ filter \in Seq(Range(filter))
        /\ \A k \in DOMAIN filter :
             IF filter[k].op \in LogicalOps
             THEN /\ 1 \in DOMAIN filter[k].children
                  /\ filter[k].op # "NOT" => 2 \in DOMAIN filter[k].children
                  /\ \A c \in DOMAIN filter[k].children : filter[k].children[c] \in 1 .. k - 1
             ELSE filter[k].column \in DOMAIN types
    BY <1>1, <1>3, WorldsAssumption
  <2>2. Len(filter) \in Nat /\ DOMAIN filter = 1 .. Len(filter)
    BY <2>1
  <2> QED
    BY <2>1, <2>2
<1> QED
  BY <1>1, <1>2, <1>3

(* The columns and bitmaps while a filter is evaluated. *)
LEMMA PassSizes ==
    ASSUME LoaderInv, SizesInv, DataInv, pc = "eval"
    PROVE  /\ NumRows \in Nat /\ BytesFor(NumRows) \in Nat
           /\ DOMAIN columns = DOMAIN types
           /\ \A k \in DOMAIN columns :
                RowsOf(columns[k]) = NumRows /\ Len(columns[k].bitmap) = BytesFor(NumRows)
           /\ node # NoNode => Len(ret) = BytesFor(NumRows)
           /\ AllHold(columns, NumRows)
<1>1. NumRows \in Nat
  BY CellsOfFile DEF NumRows
<1>2. AllHold(columns, NumRows)
  BY DEF DataInv
<1>3. /\ DOMAIN columns = DOMAIN types
      /\ \A k \in DOMAIN columns :
           RowsOf(columns[k]) = NumRows /\ Len(columns[k].bitmap) = BytesFor(NumRows)
  BY <1>2 DEF AllHold, Holds
<1>4. PICK nb \in Nat : SameLength(nb)
  BY DEF SizesInv
<1>5. PICK k : k \in DOMAIN columns
  <2>1. PICK m \in Nat : m > 0 /\ DOMAIN types = 1 .. m
    BY CellsOfFile
  <2>2. 1 \in DOMAIN types
    BY <2>1
  <2> QED
    BY <1>3, <2>2
<1>6. nb = BytesFor(NumRows)
  BY <1>3, <1>4, <1>5 DEF SameLength
<1>7. BytesFor(NumRows) \in Nat
  BY <1>4, <1>6
<1>8. node # NoNode => Len(ret) = BytesFor(NumRows)
  BY <1>4, <1>6 DEF SameLength
<1> QED
  BY <1>1, <1>2, <1>3, <1>7, <1>8

(* When no worker has a task left, all rows or bytes have been handled. *)
LEMMA AllDone ==
    ASSUME LoaderInv, SizesInv, DataInv, node # NoNode, \A t \in Threads : ~Working(t)
    PROVE  IF node.op \in LogicalOps THEN \A m \in 0 .. Len(ret) - 1 : Done(m)
           ELSE \A i \in 0 .. NumRows - 1 : Done(i)
<1>1. PassOK /\ pc = "eval" /\ at \in [Threads -> Nat]
  BY DEF LoaderInv, PassOK
<1>2. \A t \in Threads : ~(at[t] < SliceOf(t).to) /\ at[t] \in Nat
  BY <1>1 DEF Working
<1>3. Threads = 0 .. NumThreads - 1 /\ NumThreads \in Nat \ {0}
  BY FiltersAssumption DEF Threads
<1>4. CASE node.op \in LogicalOps
  <2>1. PICK n \in Nat : n = Len(ret)
    BY NodeRowsAreNat
  <2>2. ASSUME NEW m \in 0 .. n - 1 PROVE Done(m)
    <3>1. PICK t \in 0 .. NumThreads - 1 : m \in Slice(t, n, NumThreads)
      BY <1>3, SlicesCover
    <3>2. t \in Threads /\ t \in Nat /\ t + 1 \in Nat
      BY <1>3
    <3>3. /\ SliceOf(t).from = begin_idx(t, n) /\ SliceOf(t).to = begin_idx(t + 1, n)
      BY <1>4, <2>1 DEF SliceOf, slice
    <3>4. /\ begin_idx(t, n) = Bound(t, n, NumThreads) /\ begin_idx(t, n) \in Nat
          /\ begin_idx(t + 1, n) = Bound(t + 1, n, NumThreads) /\ begin_idx(t + 1, n) \in Nat
      BY <3>2, BeginIdx
    <3>5. PICK lo, hi : lo = SliceOf(t).from /\ hi = SliceOf(t).to
      OBVIOUS
    <3>6. lo \in Nat /\ hi \in Nat /\ lo <= m /\ m < hi
      BY <3>1, <3>3, <3>4, <3>5 DEF Slice
    <3>7. ~(at[t] < hi) /\ at[t] \in Nat
      BY <1>2, <3>2, <3>5
    <3>8. lo <= m /\ m < at[t]
      BY <3>6, <3>7
    <3> QED
      BY <3>2, <3>5, <3>8 DEF Done
  <2> QED
    BY <1>4, <2>1, <2>2
<1>5. CASE node.op \notin LogicalOps
  <2>1. NodeRows = NumRows /\ NumRows \in Nat
    <3>1. node.column \in DOMAIN columns
      BY <1>1, <1>5 DEF PassOK
    <3> QED
      BY <1>1, <3>1, PassSizes DEF NodeRows
  <2>2. PICK B \in Nat \ {0} : B = BitsPerByte
    BY FiltersAssumption
  <2>3. PICK n : n = BytesFor(NumRows)
    OBVIOUS
  <2>4. n \in Nat
    BY <1>1, <2>3, PassSizes
  <2>5. ASSUME NEW i \in 0 .. NumRows - 1 PROVE Done(i)
    <3>1. PICK q : q = i \div B
      OBVIOUS
    <3>2. q \in 0 .. n - 1
      BY <2>1, <2>2, <2>3, <3>1, RowParts
    <3>3. PICK s \in 0 .. B - 1 : i = B * q + s
      <4>1. i \in Nat
        BY <2>1
      <4>2. i % B \in 0 .. B - 1 /\ i = B * q + (i % B)
        BY <3>1, <4>1, DivMod
      <4> QED
        BY ONLY <4>2
    <3>4. PICK t \in 0 .. NumThreads - 1 : q \in Slice(t, n, NumThreads)
      BY <1>3, <2>4, <3>2, SlicesCover
    <3>5. t \in Threads /\ t \in Nat /\ t + 1 \in Nat
      BY <1>3
    <3>6. PICK a, b : a = begin_idx(t, n) /\ b = begin_idx(t + 1, n)
      OBVIOUS
    <3>7. /\ a = Bound(t, n, NumThreads) /\ a \in Nat
          /\ b = Bound(t + 1, n, NumThreads) /\ b \in Nat
      BY <2>4, <3>5, <3>6, BeginIdx
    <3>8. q \in Nat /\ a <= q /\ q < b
      BY <3>4, <3>7 DEF Slice
    <3>9. a * B <= i /\ i < b * B /\ a * B \in Nat /\ b * B \in Nat
      <4>1. (q + 1) * B = q * B + B /\ (q + 1) * B <= b * B /\ q * B \in Nat /\ b * B \in Nat
        BY <3>7, <3>8, MulStep
      <4>2. a * B <= q * B /\ a * B \in Nat
        <5>1. CASE a = q
          BY <4>1, <5>1
        <5>2. CASE a < q
          BY <3>7, <3>8, <5>2, MulStep, <4>1
        <5> QED
          BY <3>7, <3>8, <5>1, <5>2
      <4>3. B * q = q * B
        BY <3>8
      <4> QED
        BY <3>3, <4>1, <4>2, <4>3
    <3>10. n = (NumRows + BitsPerByte - 1) \div BitsPerByte
      BY <2>3 DEF BytesFor
    <3>11. SliceOf(t).from = a * B /\ SliceOf(t).to = Min({b * B, NumRows})
      BY <1>5, <2>1, <2>2, <3>6, <3>10 DEF SliceOf, slice
    <3>12. PICK x \in Nat : x = b * B
      BY <3>9
    <3>13. SliceOf(t).to = IF x < NumRows THEN x ELSE NumRows
      BY <2>1, <3>11, <3>12, MinOfTwo
    <3>14. PICK lo, hi : lo = SliceOf(t).from /\ hi = SliceOf(t).to
      OBVIOUS
    <3>15. lo \in Nat /\ hi \in Nat /\ lo <= i /\ i < hi
      BY <2>1, <3>9, <3>11, <3>12, <3>13, <3>14
    <3>16. ~(at[t] < hi) /\ at[t] \in Nat
      BY <1>2, <3>5, <3>14
    <3>17. lo <= i /\ i < at[t]
      BY <3>15, <3>16
    <3> QED
      BY <3>5, <3>14, <3>17 DEF Done
  <2> QED
    BY <1>5, <2>5
<1> QED
  BY <1>4, <1>5

(* A pass begins with nothing done. *)
LEMMA NothingDone ==
    ASSUME LoaderInv, pc = "eval", NEW n, NEW read, NEW written,
           StartPass(n, read, written), UNCHANGED columns,
           Sequence(written), n.op \notin LogicalOps => n.column \in DOMAIN columns
    PROVE  \A i \in Nat : ~Done(i)'
<1>1. PICK rows : rows = IF n.op \in LogicalOps THEN 0 ELSE RowsOf(columns[n.column])
  OBVIOUS
<1>2. /\ node' = n /\ ret' = written
      /\ at' = [t \in Threads |-> slice(n, rows, Len(written), t).from]
  BY <1>1 DEF StartPass
<1>3. rows \in Nat /\ Len(written) \in Nat
  BY <1>1, RowsAreNat, SequenceLen DEF LoaderInv, ColumnsOK
<1>4. \A t \in Threads : SliceOf(t)' = slice(n, rows, Len(written), t)
  BY <1>1, <1>2 DEF SliceOf, NodeRows
<1>5. \A t \in Threads : slice(n, rows, Len(written), t).from \in Nat
  BY <1>3, SliceFrom
<1>6. \A t \in Threads : SliceOf(t)'.from = at'[t] /\ at'[t] \in Nat
  BY <1>2, <1>4, <1>5
<1> SUFFICES ASSUME NEW i \in Nat, Done(i)' PROVE FALSE
  OBVIOUS
<1>7. PICK t \in Threads : SliceOf(t)'.from <= i /\ i < at'[t]
  BY DEF Done
<1> QED
  BY <1>6, <1>7

(* A task of a pass adds itself to what has been done. *)
LEMMA OneMoreDone ==
    ASSUME LoaderInv, NEW t \in Threads, ApplyTask(t), NEW i \in Nat
    PROVE  Done(i)' <=> Done(i) \/ i = at[t]
<1>1. /\ node # NoNode /\ PassOK /\ UNCHANGED <<node, columns>>
      /\ at' = [at EXCEPT ![t] = at[t] + 1] /\ at \in [Threads -> Nat]
  BY DEF ApplyTask, Working, LoaderInv, PassOK
<1>2. PICK b, v : ret' = [ret EXCEPT ![b] = v]
  BY DEF ApplyTask
<1>3. Len(ret') = Len(ret)
  BY <1>1, <1>2, SequenceExcept DEF PassOK
<1>4. \A u \in Threads : SliceOf(u)' = SliceOf(u)
  BY <1>1, <1>3 DEF SliceOf, NodeRows
<1>5. \A u \in Threads : SliceOf(u).from \in Nat /\ SliceOf(u).from <= at[u]
  <2>1. Len(ret) \in Nat /\ (node.op \notin LogicalOps => NodeRows \in Nat)
    BY <1>1, NodeRowsAreNat
  <2> QED
    BY <1>1, <2>1, SliceFrom DEF SliceOf, PassOK
<1>6. \A u \in Threads : /\ at[u] \in Nat
                         /\ at'[u] = IF u = t THEN at[u] + 1 ELSE at[u]
  BY <1>1
<1>7. ASSUME NEW u \in Threads, SliceOf(u)'.from <= i, i < at'[u]
      PROVE  Done(i) \/ i = at[t]
  <2>1. SliceOf(u).from <= i
    BY <1>4, <1>7
  <2>2. i < at[u] \/ (u = t /\ i = at[t])
    BY <1>6, <1>7
  <2> QED
    BY <2>1, <2>2 DEF Done
<1>8. ASSUME NEW u \in Threads, SliceOf(u).from <= i, i < at[u]
      PROVE  Done(i)'
  <2>1. SliceOf(u)'.from <= i
    BY <1>4, <1>8
  <2>2. i < at'[u]
    BY <1>6, <1>8
  <2> QED
    BY <2>1, <2>2 DEF Done
<1>9. ASSUME i = at[t] PROVE Done(i)'
  <2>1. SliceOf(t)'.from <= i
    BY <1>4, <1>5, <1>9
  <2>2. i < at'[t]
    BY <1>6, <1>9
  <2> QED
    BY <2>1, <2>2 DEF Done
<1>10. Done(i)' => \E u \in Threads : SliceOf(u)'.from <= i /\ i < at'[u]
  BY DEF Done
<1>11. Done(i) => \E u \in Threads : SliceOf(u).from <= i /\ i < at[u]
  BY DEF Done
<1> QED
  BY <1>7, <1>8, <1>9, <1>10, <1>11

(* The nodes below a node are evaluated before it, so that its bits depend *)
(* on bitmaps that stay.                                                   *)
LEMMA NodeBitStays ==
    ASSUME LoaderInv, NEW k \in 1 .. Len(filter), k <= Len(values) + 1,
           NEW w, values' = Append(values, w), UNCHANGED <<filter, columns>>, NEW i
    PROVE  NodeBit(k, i)' <=> NodeBit(k, i)
<1>1. PICK n : n = filter[k]
  OBVIOUS
<1>2. /\ Sequence(values) /\ Len(values) \in Nat /\ DOMAIN values = 1 .. Len(values)
  BY SequenceLen DEF LoaderInv, ValuesOK
<1>3. \A m \in 1 .. Len(values) : values'[m] = values[m]
  BY <1>2, SequenceAppend
<1>4. n.op \in LogicalOps =>
        /\ n.children[1] \in 1 .. k - 1
        /\ n.op # "NOT" => n.children[2] \in 1 .. k - 1
  BY <1>1, NodesOK
<1>5. \A c \in 1 .. k - 1 : c \in 1 .. Len(values)
  BY <1>2
<1>6. n.op \in LogicalOps =>
        /\ BitAt(values'[n.children[1]], i) <=> BitAt(values[n.children[1]], i)
        /\ n.op # "NOT" =>
             (BitAt(values'[n.children[2]], i) <=> BitAt(values[n.children[2]], i))
  BY <1>3, <1>4, <1>5
<1>7. filter'[k] = n
  BY <1>1
<1>8. CASE n.op = "NOT"
  <2>1. n.op \in LogicalOps
    BY <1>8 DEF LogicalOps
  <2>2. /\ NodeBit(k, i)  <=> ~BitAt(values[n.children[1]], i)
        /\ NodeBit(k, i)' <=> ~BitAt(values'[n.children[1]], i)
    BY <1>1, <1>7, <1>8 DEF NodeBit
  <2> QED
    BY <1>6, <2>1, <2>2
<1>9. CASE n.op = "AND"
  <2>1. n.op \in LogicalOps /\ n.op # "NOT"
    BY <1>9 DEF LogicalOps
  <2>2. /\ NodeBit(k, i)  <=> BitAt(values[n.children[1]], i) /\ BitAt(values[n.children[2]], i)
        /\ NodeBit(k, i)' <=> BitAt(values'[n.children[1]], i) /\ BitAt(values'[n.children[2]], i)
    BY <1>1, <1>7, <1>9 DEF NodeBit
  <2> QED
    BY <1>6, <2>1, <2>2
<1>10. CASE n.op = "OR"
  <2>1. n.op \in LogicalOps /\ n.op # "NOT"
    BY <1>10 DEF LogicalOps
  <2>2. /\ NodeBit(k, i)  <=> BitAt(values[n.children[1]], i) \/ BitAt(values[n.children[2]], i)
        /\ NodeBit(k, i)' <=> BitAt(values'[n.children[1]], i) \/ BitAt(values'[n.children[2]], i)
    BY <1>1, <1>7, <1>10 DEF NodeBit
  <2> QED
    BY <1>6, <2>1, <2>2
<1>11. CASE n.op \notin LogicalOps
  <2>1. n.op # "NOT" /\ n.op # "AND" /\ n.op # "OR"
    BY <1>11 DEF LogicalOps
  <2>2. \A m : selects(n, m)' <=> selects(n, m)
    BY DEF selects
  <2>3. CASE n.op = "IS_NULL"
    BY <1>1, <1>7, <2>3 DEF NodeBit
  <2>4. CASE n.op = "IS_NOT_NULL"
    BY <1>1, <1>7, <2>4 DEF NodeBit
  <2>5. CASE n.op # "IS_NULL" /\ n.op # "IS_NOT_NULL"
    <3>1. /\ NodeBit(k, i)  <=> selects(n, i)
          /\ NodeBit(k, i)' <=> selects(n, i)'
      BY <1>1, <1>7, <2>1, <2>5 DEF NodeBit
    <3> QED
      BY <2>2, <3>1
  <2> QED
    BY <2>3, <2>4, <2>5
<1> QED
  BY <1>8, <1>9, <1>10, <1>11 DEF LogicalOps

(* One bitmap more: it says of its node what it should. *)
LEMMA ValueRight ==
    ASSUME LoaderInv, SizesInv, DataInv, pc = "eval",
           Len(values) < Len(filter),
           NEW w, values' = Append(values, w), node' = NoNode,
           UNCHANGED <<world, types, filter, columns, table_cache, pc>>,
           \A i \in 0 .. NumRows - 1 : BitAt(w, i) <=> NodeBit(Len(values) + 1, i)
    PROVE  DataInv'
<1>1. /\ Sequence(values) /\ Len(values) \in Nat /\ DOMAIN values = 1 .. Len(values)
      /\ Len(filter) \in Nat
  BY SequenceLen, NodesOK DEF LoaderInv, ValuesOK
<1>2. PICK m : m = Len(values) /\ m \in Nat
  BY <1>1
<1>3. /\ Len(values') = m + 1 /\ DOMAIN values' = 1 .. m + 1 /\ values'[m + 1] = w
      /\ \A k \in 1 .. m : values'[k] = values[k]
  BY <1>1, <1>2, SequenceAppend, LongerByOne
<1>4. ASSUME NEW k \in 1 .. m + 1, NEW i \in 0 .. NumRows - 1
      PROVE  BitAt(values'[k], i) <=> NodeBit(k, i)'
  <2>1. k \in 1 .. Len(filter) /\ k <= Len(values) + 1
    BY <1>1, <1>2
  <2>2. NodeBit(k, i)' <=> NodeBit(k, i)
    BY <2>1, NodeBitStays
  <2>3. CASE k = m + 1
    <3>1. BitAt(w, i) <=> NodeBit(k, i)
      BY <1>2, <2>3
    <3> QED
      BY <1>3, <2>2, <2>3, <3>1
  <2>4. CASE k # m + 1
    <3>1. k \in 1 .. m
      BY <1>2, <2>4
    <3>2. BitAt(values[k], i) <=> NodeBit(k, i)
      BY <1>1, <1>2, <3>1 DEF DataInv, BitsRight
    <3> QED
      BY <1>3, <2>2, <3>1, <3>2
  <2> QED
    BY <2>3, <2>4
<1>5. BitsRight'
  <2>1. NumRows' = NumRows
    BY DEF NumRows
  <2> QED
    BY <1>3, <1>4, <2>1 DEF BitsRight
<1>6. Len(values') <= Len(filter')
  BY <1>1, <1>2, <1>3
<1> QED
  BY <1>5, <1>6 DEF DataInv, AllHold, Holds, NumRows

(* A pass over the rows or bytes has begun. *)
LEMMA PassBegins ==
    ASSUME LoaderInv, SizesInv, DataInv, pc = "eval", Len(values) < Len(filter),
           UNCHANGED <<world, types, filter, columns, values, table_cache, pc>>, PassRight'
    PROVE  DataInv'
<1>1. \A k, i : NodeBit(k, i)' <=> NodeBit(k, i)
  <2>1. \A n, i : selects(n, i)' <=> selects(n, i)
    BY DEF selects
  <2> QED
    BY <2>1 DEF NodeBit
<1>2. BitsRight'
  BY <1>1 DEF DataInv, BitsRight, NumRows
<1> QED
  BY <1>2 DEF DataInv, AllHold, Holds, NumRows

(* A comparison: the bytes it starts with say nothing is selected. *)
LEMMA ComparisonBegins ==
    ASSUME LoaderInv, SizesInv, DataInv, pc = "eval", StartComparison,
           UNCHANGED <<world, table_cache, pc>>
    PROVE  DataInv'
<1>1. /\ NextNode.op \notin LogicalOps /\ NextNode.op \notin NullOps /\ Len(values) < Len(filter)
      /\ UNCHANGED <<types, columns, filter, values>> /\ Evaluating
  BY DEF StartComparison, Evaluating
<1>2. NextNode.column \in DOMAIN columns
  BY <1>1, NextNodeOK, PassSizes
<1>3. PICK bytes : bytes = Len(columns[NextNode.column].bitmap)
  OBVIOUS
<1>4. bytes = BytesFor(NumRows) /\ bytes \in Nat
  BY <1>2, <1>3, PassSizes
<1>5. PICK written : written = [b \in 1 .. bytes |-> {}]
  OBVIOUS
<1>6. StartPass(NextNode, <<>>, written)
  BY <1>3, <1>5 DEF StartComparison
<1>7. Sequence(written)
  <2>1. DOMAIN written = 1 .. bytes /\ written = [b \in 1 .. bytes |-> written[b]]
    BY <1>5
  <2> QED
    BY <1>4, <2>1, SequenceOfFunction
<1>8. \A i \in Nat : ~Done(i)'
  BY <1>1, <1>2, <1>6, <1>7, NothingDone
<1>9. node' = NextNode /\ ret' = written
  BY <1>6 DEF StartPass
<1>10. NextNode' = NextNode
  BY <1>1 DEF NextNode
<1>11. NumRows \in Nat
  BY PassSizes
<1>12. \A i \in 0 .. NumRows - 1 : ~BitAt(written, i)
  <2> SUFFICES ASSUME NEW i \in 0 .. NumRows - 1 PROVE ~BitAt(written, i)
    OBVIOUS
  <2>1. PICK q : q = i \div BitsPerByte
    OBVIOUS
  <2>2. q \in 0 .. bytes - 1
    BY <1>4, <1>11, <2>1, RowParts
  <2>3. q + 1 \in 1 .. bytes
    BY <1>4, <2>2
  <2> QED
    BY <1>5, <2>1, <2>3 DEF BitAt
<1>13. PassRight'
  <2>1. NumRows' = NumRows
    BY DEF NumRows
  <2>2. \A i \in 0 .. NumRows - 1 : (BitAt(ret, i) <=> Done(i) /\ selects(node, i))'
    BY <1>8, <1>9, <1>11, <1>12
  <2> QED
    BY <1>1, <1>9, <1>10, <2>1, <2>2 DEF PassRight
<1> QED
  BY <1>1, <1>13, PassBegins

(* IS NULL begins with a copy of the bitmap of its column. *)
LEMMA IsNullBegins ==
    ASSUME LoaderInv, SizesInv, DataInv, pc = "eval", StartIsNull,
           UNCHANGED <<world, table_cache, pc>>
    PROVE  DataInv'
<1>1. /\ NextNode.op = "IS_NULL" /\ Len(values) < Len(filter)
      /\ UNCHANGED <<types, columns, filter, values>> /\ Evaluating
  BY DEF StartIsNull, Evaluating
<1>2. NextNode.column \in DOMAIN columns
  BY <1>1, NextNodeOK, PassSizes DEF LogicalOps
<1>3. PICK bitmap : bitmap = columns[NextNode.column].bitmap
  OBVIOUS
<1>4. Sequence(bitmap) /\ Len(bitmap) \in Nat
  <2>1. Sequence(bitmap)
    BY <1>2, <1>3 DEF LoaderInv, ColumnsOK, ColumnOK
  <2> QED
    BY <2>1, SequenceLen
<1>5. PICK n : n = [op |-> "NOT"]
  OBVIOUS
<1>6. n.op = "NOT" /\ n.op \in LogicalOps
  BY <1>5 DEF LogicalOps
<1>7. StartPass(n, <<bitmap>>, bitmap)
  BY <1>3, <1>5 DEF StartIsNull
<1>8. \A i \in Nat : ~Done(i)'
  BY <1>1, <1>4, <1>6, <1>7, NothingDone
<1>9. node' = n /\ operands'[1] = bitmap /\ ret' = bitmap
  BY <1>7 DEF StartPass
<1>10. NextNode' = NextNode
  BY <1>1 DEF NextNode
<1>11. PassRight'
  <2>1. \A m \in 0 .. Len(bitmap) - 1 : m \in Nat
    BY <1>4
  <2>2. \A m \in 0 .. Len(bitmap) - 1 : ~Done(m)'
    BY <1>8, <2>1
  <2> QED
    BY <1>1, <1>3, <1>6, <1>9, <1>10, <2>2 DEF PassRight
<1> QED
  BY <1>1, <1>11, PassBegins

(* A logical operation begins with a copy of its first operand. *)
LEMMA LogicalBegins ==
    ASSUME LoaderInv, SizesInv, DataInv, pc = "eval", StartLogical,
           UNCHANGED <<world, table_cache, pc>>
    PROVE  DataInv'
<1>1. /\ NextNode.op \in LogicalOps /\ Len(values) < Len(filter)
      /\ UNCHANGED <<types, columns, filter, values>> /\ Evaluating
  BY DEF StartLogical, Evaluating
<1>2. 1 \in DOMAIN NextNode.children /\ NextNode.children[1] \in DOMAIN values
  BY <1>1, NextNodeOK
<1>3. PICK read : read = [j \in DOMAIN NextNode.children |-> values[NextNode.children[j]]]
  OBVIOUS
<1>4. StartPass(NextNode, read, read[1])
  BY <1>3 DEF StartLogical
<1>5. PICK first : first = read[1]
  OBVIOUS
<1>6. Sequence(first) /\ Len(first) \in Nat
  <2>1. Sequence(first)
    BY <1>2, <1>3, <1>5 DEF LoaderInv, ValuesOK
  <2> QED
    BY <2>1, SequenceLen
<1>7. \A i \in Nat : ~Done(i)'
  BY <1>1, <1>4, <1>5, <1>6, NothingDone
<1>8. node' = NextNode /\ operands' = read /\ ret' = first
  BY <1>4, <1>5 DEF StartPass
<1>9. NextNode' = NextNode
  BY <1>1 DEF NextNode
<1>10. \A j \in DOMAIN node'.children : operands'[j] = values'[node'.children[j]]
  BY <1>1, <1>3, <1>8
<1>11. PassRight'
  <2>1. \A m \in 0 .. Len(first) - 1 : m \in Nat
    BY <1>6
  <2>2. \A m \in 0 .. Len(first) - 1 : ~Done(m)'
    BY <1>7, <2>1
  <2> QED
    BY <1>1, <1>8, <1>9, <1>10, <2>2 DEF PassRight
<1> QED
  BY <1>1, <1>11, PassBegins

(* The number of a row from its byte and its bit. *)
LEMMA SameRow ==
    ASSUME NEW i \in Nat, NEW j \in Nat,
           i \div BitsPerByte = j \div BitsPerByte, i % BitsPerByte = j % BitsPerByte
    PROVE  i = j
<1>1. PICK B \in Nat \ {0} : B = BitsPerByte
  BY FiltersAssumption
<1>2. i = B * (i \div B) + (i % B)
  BY DivMod
<1>3. j = B * (j \div B) + (j % B)
  BY DivMod
<1> QED
  BY <1>1, <1>2, <1>3

(* A task writes what its row or byte should have, and no other one. *)
LEMMA TaskKeepsRight ==
    ASSUME LoaderInv, SizesInv, DataInv, pc = "eval", NEW t \in Threads, ApplyTask(t),
           UNCHANGED <<world, table_cache, pc>>
    PROVE  DataInv'
<1>1. /\ node # NoNode /\ PassOK /\ PassRight /\ at[t] \in Nat /\ Sequence(ret)
      /\ UNCHANGED <<types, columns, filter, values, node, operands>>
      /\ Len(values) < Len(filter)
  BY DEF ApplyTask, Working, LoaderInv, PassOK, DataInv
<1>2. NextNode' = NextNode /\ NumRows' = NumRows
  BY <1>1 DEF NextNode, NumRows
<1>3. PICK l : l = Len(ret) /\ l \in Nat /\ DOMAIN ret = 1 .. l
  BY <1>1, SequenceLen
<1>4. \A i \in Nat : Done(i)' <=> Done(i) \/ i = at[t]
  BY OneMoreDone
<1>5. CASE node.op \in LogicalOps
  <2>1. PICK b : b = at[t] + 1
    OBVIOUS
  <2>2. ret' = [ret EXCEPT ![b] = combined(b)]
    BY <1>5, <2>1 DEF ApplyTask, ByteOf
  <2>3. Len(ret') = l
    BY <1>1, <1>3, <2>2, SequenceExcept
  <2>4. \A m : combined(m)' = combined(m)
    BY <1>1 DEF combined
  <2>5. ASSUME NEW m \in 0 .. l - 1, Done(m)' PROVE ret'[m + 1] = combined(m + 1)'
    <3>1. m \in Nat /\ m + 1 \in 1 .. l
      BY <1>3
    <3>2. CASE m = at[t]
      <4>1. ret'[b] = combined(b)
        BY <1>3, <2>1, <2>2, <3>1, <3>2
      <4> QED
        BY <2>1, <2>4, <3>2, <4>1
    <3>3. CASE m # at[t]
      <4>1. m + 1 # b
        BY <1>1, <2>1, <3>1, <3>3
      <4>2. ret'[m + 1] = ret[m + 1]
        BY <1>3, <2>2, <3>1, <4>1
      <4>3. Done(m)
        BY <1>4, <2>5, <3>1, <3>3
      <4>4. ret[m + 1] = combined(m + 1)
        BY <1>1, <1>3, <1>5, <4>3 DEF PassRight
      <4> QED
        BY <2>4, <4>2, <4>4
    <3> QED
      BY <3>2, <3>3
  <2>6. \/ /\ node' = NextNode'
           /\ \A j \in DOMAIN node'.children : operands'[j] = values'[node'.children[j]]
        \/ /\ NextNode'.op = "IS_NULL" /\ node'.op = "NOT"
           /\ operands'[1] = columns'[NextNode'.column].bitmap
    BY <1>1, <1>2, <1>5 DEF PassRight
  <2>7. PassRight'
    BY <1>1, <1>5, <2>3, <2>5, <2>6 DEF PassRight
  <2> QED
    BY <1>1, <2>7, PassBegins
<1>6. CASE node.op \notin LogicalOps
  <2>1. PICK p : p = at[t] \div BitsPerByte
    OBVIOUS
  <2>2. PICK z : z = at[t] % BitsPerByte
    OBVIOUS
  <2>3. PICK s : s = {k \in {z} : selects(node, at[t])}
    OBVIOUS
  <2>4. \A k : k \in s <=> k = z /\ selects(node, at[t])
    BY <2>3
  <2>5. ret' = [ret EXCEPT ![p + 1] = ret[p + 1] \cup s]
    BY <1>6, <2>1, <2>2, <2>3 DEF ApplyTask, ByteOf
  <2>6. \A i : selects(node, i)' <=> selects(node, i)
    BY <1>1 DEF selects
  <2>7. NumRows \in Nat /\ l = BytesFor(NumRows)
    BY <1>1, <1>3, PassSizes
  <2>8. ASSUME NEW i \in 0 .. NumRows - 1
        PROVE  BitAt(ret', i) <=> Done(i)' /\ selects(node, i)
    <3>1. i \in Nat
      BY <2>7
    <3>2. BitAt(ret, i) <=> Done(i) /\ selects(node, i)
      BY <1>1, <1>6 DEF PassRight
    <3>3. PICK q : q = i \div BitsPerByte
      OBVIOUS
    <3>4. PICK y : y = i % BitsPerByte
      OBVIOUS
    <3>5. q \in 0 .. l - 1
      BY <2>7, <3>3, RowParts
    <3>6. q + 1 \in 1 .. l
      BY <1>3, <3>5
    <3>7. (BitAt(ret, i) <=> y \in ret[q + 1]) /\ (BitAt(ret', i) <=> y \in ret'[q + 1])
      BY <3>3, <3>4 DEF BitAt
    <3>8. BitAt(ret', i) <=> BitAt(ret, i) \/ (q = p /\ y = z /\ selects(node, at[t]))
      <4>1. CASE q = p
        <5>1. ret'[q + 1] = ret[q + 1] \cup s
          BY <1>3, <2>5, <3>6, <4>1
        <5> QED
          BY <2>4, <3>7, <4>1, <5>1
      <4>2. CASE q # p
        <5>1. q + 1 # p + 1
          <6>1. p \in Nat
            BY <1>1, <2>1, RowParts
          <6> QED
            BY <3>5, <4>2, <6>1
        <5>2. ret'[q + 1] = ret[q + 1]
          BY <1>3, <2>5, <3>6, <5>1
        <5> QED
          BY <3>7, <4>2, <5>2
      <4> QED
        BY <4>1, <4>2
    <3>9. q = p /\ y = z <=> i = at[t]
      BY <1>1, <2>1, <2>2, <3>1, <3>3, <3>4, SameRow
    <3>10. Done(i)' <=> Done(i) \/ i = at[t]
      BY <1>4, <3>1
    <3> QED
      BY <3>2, <3>8, <3>9, <3>10
  <2>9. PassRight'
    <3>1. \A i \in 0 .. NumRows - 1 : (BitAt(ret, i) <=> Done(i) /\ selects(node, i))'
      BY <1>1, <2>6, <2>8
    <3> QED
      BY <1>1, <1>2, <1>6, <3>1 DEF PassRight
  <2> QED
    BY <1>1, <2>9, PassBegins
<1> QED
  BY <1>5, <1>6

(* The bitmap of a pass that is over is that of its node. *)
LEMMA PassEnds ==
    ASSUME LoaderInv, SizesInv, DataInv, pc = "eval", FinishNode,
           UNCHANGED <<world, table_cache, pc>>
    PROVE  DataInv'
<1>1. /\ node # NoNode /\ PassOK /\ PassRight /\ Len(values) < Len(filter)
      /\ UNCHANGED <<types, columns, filter>> /\ node' = NoNode
      /\ values' = Append(values, ret) /\ \A t \in Threads : ~Working(t)
  BY DEF FinishNode, LoaderInv, DataInv
<1>2. PICK k : k = Len(values) + 1 /\ Len(values) \in Nat
  BY SequenceLen DEF LoaderInv, ValuesOK
<1>3. k \in 1 .. Len(filter)
  BY <1>1, <1>2, NodesOK
<1>4. PICK n : n = filter[k] /\ n = NextNode
  BY <1>2 DEF NextNode
<1>5. NumRows \in Nat /\ Len(ret) = BytesFor(NumRows) /\ BytesFor(NumRows) \in Nat
  BY <1>1, PassSizes
<1>6. ASSUME NEW i \in 0 .. NumRows - 1 PROVE BitAt(ret, i) <=> NodeBit(k, i)
  <2>1. CASE node.op \in LogicalOps
    <3>1. PICK q : q = i \div BitsPerByte
      OBVIOUS
    <3>2. PICK y : y = i % BitsPerByte
      OBVIOUS
    <3>3. q \in 0 .. Len(ret) - 1 /\ y \in Bits
      BY <1>5, <3>1, <3>2, RowParts
    <3>4. Done(q)
      BY <1>1, <2>1, <3>3, AllDone
    <3>5. ret[q + 1] = combined(q + 1)
      BY <1>1, <2>1, <3>3, <3>4 DEF PassRight
    <3>6. \A w : BitAt(w, i) <=> y \in w[q + 1]
      BY <3>1, <3>2 DEF BitAt
    <3>7. CASE /\ node = n
               /\ \A j \in DOMAIN node.children : operands[j] = values[node.children[j]]
      <4>1. /\ 1 \in DOMAIN n.children
            /\ n.op # "NOT" => 2 \in DOMAIN n.children
        BY <1>3, <1>4, <2>1, <3>7, NodesOK
      <4>2. /\ operands[1] = values[n.children[1]]
            /\ n.op # "NOT" => operands[2] = values[n.children[2]]
        BY <3>7, <4>1
      <4>3. CASE n.op = "NOT"
        <5>1. NodeBit(k, i) <=> ~BitAt(values[n.children[1]], i)
          BY <1>4, <4>3 DEF NodeBit
        <5>2. combined(q + 1) = Bits \ operands[1][q + 1]
          BY <3>7, <4>3 DEF combined
        <5> QED
          BY <3>3, <3>5, <3>6, <4>2, <5>1, <5>2
      <4>4. CASE n.op = "AND"
        <5>1. NodeBit(k, i) <=> BitAt(values[n.children[1]], i) /\ BitAt(values[n.children[2]], i)
          BY <1>4, <4>4 DEF NodeBit
        <5>2. combined(q + 1) = operands[1][q + 1] \cap operands[2][q + 1]
          BY <3>7, <4>4 DEF combined
        <5> QED
          BY <3>5, <3>6, <4>2, <4>4, <5>1, <5>2
      <4>5. CASE n.op = "OR"
        <5>1. NodeBit(k, i) <=> BitAt(values[n.children[1]], i) \/ BitAt(values[n.children[2]], i)
          BY <1>4, <4>5 DEF NodeBit
        <5>2. combined(q + 1) = operands[1][q + 1] \cup operands[2][q + 1]
          BY <3>7, <4>5 DEF combined
        <5> QED
          BY <3>5, <3>6, <4>2, <4>5, <5>1, <5>2
      <4> QED
        BY <2>1, <3>7, <4>3, <4>4, <4>5 DEF LogicalOps
    <3>8. CASE /\ n.op = "IS_NULL" /\ node.op = "NOT"
               /\ operands[1] = columns[n.column].bitmap
      <4>1. NodeBit(k, i) <=> ~is_not_null(columns[n.column], i)
        BY <1>4, <3>8 DEF NodeBit
      <4>2. combined(q + 1) = Bits \ operands[1][q + 1]
        BY <3>8 DEF combined
      <4> QED
        BY <3>3, <3>5, <3>6, <3>8, <4>1, <4>2 DEF is_not_null
    <3> QED
      BY <1>1, <1>4, <2>1, <3>7, <3>8 DEF PassRight
  <2>2. CASE node.op \notin LogicalOps
    <3>1. /\ node = n /\ n.op \notin NullOps
          /\ BitAt(ret, i) <=> Done(i) /\ selects(node, i)
      BY <1>1, <1>4, <2>2 DEF PassRight
    <3>2. Done(i)
      BY <1>1, <2>2, AllDone
    <3>3. NodeBit(k, i) <=> selects(n, i)
      <4>1. /\ n.op # "NOT" /\ n.op # "AND" /\ n.op # "OR"
            /\ n.op # "IS_NULL" /\ n.op # "IS_NOT_NULL"
        BY <2>2, <3>1 DEF LogicalOps, NullOps
      <4> QED
        BY <1>4, <4>1 DEF NodeBit
    <3> QED
      BY <3>1, <3>2, <3>3
  <2> QED
    BY <2>1, <2>2
<1> QED
  BY <1>1, <1>2, <1>6, ValueRight

(* IS NOT NULL is the bitmap of its column. *)
LEMMA IsNotNullEnds ==
    ASSUME LoaderInv, SizesInv, DataInv, pc = "eval", EvalIsNotNull,
           UNCHANGED <<world, table_cache, pc>>
    PROVE  DataInv'
<1>1. /\ NextNode.op = "IS_NOT_NULL" /\ Len(values) < Len(filter)
      /\ UNCHANGED <<types, columns, filter>> /\ node' = NoNode
      /\ values' = Append(values, columns[NextNode.column].bitmap)
  BY DEF EvalIsNotNull, Evaluating
<1>2. PICK w : w = columns[NextNode.column].bitmap
  OBVIOUS
<1>3. PICK k : k = Len(values) + 1
  OBVIOUS
<1>4. filter[k] = NextNode
  BY <1>3 DEF NextNode
<1>5. \A i : NodeBit(k, i) <=> BitAt(w, i)
  BY <1>1, <1>2, <1>4 DEF NodeBit, is_not_null
<1> QED
  BY <1>1, <1>2, <1>3, <1>5, ValueRight

LEMMA FilterKeepsRight ==
    ASSUME LoaderInv, SizesInv, DataInv, Filter
    PROVE  DataInv'
<1>1. pc = "eval" /\ EvalStep /\ UNCHANGED <<world, table_cache, pc>>
  BY DEF Filter, loaderVars, cacheVars
<1> QED
  BY <1>1, ComparisonBegins, IsNullBegins, LogicalBegins, TaskKeepsRight, PassEnds,
     IsNotNullEnds DEF EvalStep

-----------------------------------------------------------------------------
(* The other steps.                                                        *)

LEMMA NoneHold ==
    ASSUME LoaderInv, NEW cs, cs = [c \in DOMAIN types |-> EmptyColumn(types[c])]
    PROVE  AllHold(cs, 0)
BY EmptyHolds DEF AllHold

LEMMA RecordAdded ==
    ASSUME LoaderInv, AddRecord, NEW n \in 0 .. NumRows, AllHold(columns, n)
    PROVE  n + 1 \in 0 .. NumRows /\ AllHold(columns, n + 1)'
<1>1. 1 \in DOMAIN types /\ NumRows \in Nat
  <2>1. PICK m \in Nat : m > 0 /\ DOMAIN types = 1 .. m
    BY CellsOfFile
  <2> QED
    BY <2>1, CellsOfFile DEF NumRows
<1>2. DOMAIN columns = DOMAIN types /\ RowsOf(columns[1]) = n
  BY <1>1 DEF AllHold, Holds
<1>3. n < NumRows
  BY <1>2 DEF AddRecord, NumRows
<1>4. n \in 0 .. NumRows - 1
  BY <1>1, <1>3
<1>5. PICK r : r = world.rows[n + 1]
  OBVIOUS
<1>6. columns' = [c \in DOMAIN columns |-> push_back(columns[c], r[c])]
  BY <1>2, <1>5 DEF AddRecord
<1>7. ASSUME NEW c \in DOMAIN types PROVE Holds(columns'[c], c, n + 1)
  <2>1. Holds(columns[c], c, n)
    BY <1>2 DEF AllHold
  <2>2. PICK v : v = world.rows[n + 1][c]
    OBVIOUS
  <2>3. Holds(push_back(columns[c], v), c, n + 1)
    BY <1>4, <2>1, <2>2, PushHolds
  <2> QED
    BY <1>2, <1>5, <1>6, <2>2, <2>3
<1>8. PICK cs : cs = columns'
  OBVIOUS
<1>9. AllHold(cs, n + 1)
  BY <1>2, <1>6, <1>7, <1>8 DEF AllHold
<1>10. UNCHANGED <<world, types>>
  BY DEF AddRecord, loaderVars
<1> QED
  BY <1>1, <1>3, <1>8, <1>9, <1>10 DEF AllHold, Holds

LEMMA FileRead ==
    ASSUME LoaderInv, EndOfFile, NEW n \in 0 .. NumRows, AllHold(columns, n)
    PROVE  n = NumRows
<1>1. 1 \in DOMAIN types
  <2>1. PICK m \in Nat : m > 0 /\ DOMAIN types = 1 .. m
    BY CellsOfFile
  <2> QED
    BY <2>1
<1>2. RowsOf(columns[1]) = n
  BY <1>1 DEF AllHold, Holds
<1> QED
  BY <1>2 DEF EndOfFile, NumRows

LEMMA DataStep ==
    ASSUME LoaderInv, SizesInv, DataInv, [Next]_vars
    PROVE  DataInv'
<1>1. ASSUME NEW f \in world.filters, Calls(f), UNCHANGED <<world, types, node>>
      PROVE  /\ NumRows' = NumRows /\ BitsRight' /\ Len(values') <= Len(filter')
             /\ values' = <<>> /\ node' = NoNode
  <2>1. values' = <<>> /\ filter' = f /\ pc = "idle"
    BY <1>1 DEF Calls
  <2>2. Len(<<>>) = 0 /\ DOMAIN <<>> = {}
    OBVIOUS
  <2>3. Len(f) \in Nat
    <3>1. f \in Seq(Range(f))
      BY WorldsAssumption DEF LoaderInv
    <3> QED
      BY <3>1
  <2>4. DOMAIN values' = {} /\ Len(values') = 0
    BY <2>1, <2>2
  <2> QED
    BY <1>1, <2>1, <2>3, <2>4 DEF BitsRight, NumRows, DataInv
<1>2. ASSUME NEW f \in world.filters,
             ResultCacheHit(f) \/ SkipFile(f) \/ from_cache(f) \/ FromCacheThrows(f)
      PROVE  DataInv'
  <2>1. /\ Calls(f) /\ UNCHANGED <<world, types, node, table_cache>>
        /\ pc' \notin {"read", "eval", "copy"}
    BY <1>2 DEF ResultCacheHit, SkipFile, from_cache, FromCacheThrows, cacheVars,
                AfterCsv, Calls
  <2>2. /\ NumRows' = NumRows /\ BitsRight' /\ Len(values') <= Len(filter')
        /\ values' = <<>> /\ node' = NoNode
    BY <1>1, <2>1
  <2> QED
    BY <2>1, <2>2 DEF DataInv, AllHold, Holds, NumRows
<1>3. ASSUME NEW f \in world.filters, TableCacheHit(f) PROVE DataInv'
  <2>1. /\ Calls(f) /\ UNCHANGED <<world, types, node, table_cache>>
        /\ columns' = table_cache /\ table_cache # NoTable /\ pc' = "eval"
    BY <1>3 DEF TableCacheHit, cacheVars
  <2>2. /\ NumRows' = NumRows /\ BitsRight' /\ Len(values') <= Len(filter')
        /\ values' = <<>> /\ node' = NoNode
    BY <1>1, <2>1
  <2> QED
    BY <2>1, <2>2 DEF DataInv, AllHold, Holds, NumRows
<1>4. ASSUME NEW f \in world.filters, CacheMiss(f) PROVE DataInv'
  <2>1. /\ Calls(f) /\ UNCHANGED <<world, types, node, table_cache>>
        /\ columns' = [c \in DOMAIN types |-> EmptyColumn(types[c])] /\ pc' = "read"
    BY <1>4 DEF CacheMiss, cacheVars
  <2>2. /\ NumRows' = NumRows /\ BitsRight' /\ Len(values') <= Len(filter')
        /\ values' = <<>> /\ node' = NoNode
    BY <1>1, <2>1
  <2>3. PICK cs : cs = columns'
    OBVIOUS
  <2>4. AllHold(cs, 0)
    BY <2>1, <2>3, NoneHold
  <2>5. AllHold(columns, 0)'
    BY <2>1, <2>3, <2>4 DEF AllHold, Holds
  <2>6. 0 \in 0 .. NumRows'
    BY <2>2, CellsOfFile DEF NumRows
  <2>7. (table_cache # NoTable => AllHold(table_cache, NumRows))'
    BY <2>1, <2>2 DEF DataInv, AllHold, Holds, NumRows
  <2>8. (\E n \in 0 .. NumRows : AllHold(columns, n))'
    BY <2>5, <2>6
  <2> QED
    BY <2>1, <2>2, <2>7, <2>8 DEF DataInv
<1>5. CASE AddRecord
  <2>1. /\ pc = "read" /\ UNCHANGED <<world, types, filter, values, node, pc, table_cache>>
    BY <1>5 DEF AddRecord, evalVars, loaderVars, cacheVars
  <2>2. PICK n \in 0 .. NumRows : AllHold(columns, n)
    BY <2>1 DEF DataInv
  <2>3. n + 1 \in 0 .. NumRows /\ AllHold(columns, n + 1)'
    BY <1>5, <2>2, RecordAdded
  <2>4. values = <<>> /\ node = NoNode
    BY <2>1 DEF SizesInv, DataInv
  <2>5. NumRows' = NumRows
    BY <2>1 DEF NumRows
  <2>6. (\E m \in 0 .. NumRows : AllHold(columns, m))'
    <3>1. PICK m : m = n + 1
      OBVIOUS
    <3>2. m \in 0 .. NumRows' /\ AllHold(columns, m)'
      BY <2>3, <2>5, <3>1
    <3> QED
      BY ONLY <3>2
  <2>7. BitsRight'
    <3>1. DOMAIN <<>> = {}
      OBVIOUS
    <3>2. DOMAIN values' = {}
      BY <2>1, <2>4, <3>1
    <3> QED
      BY <3>2 DEF BitsRight
  <2>8. (table_cache # NoTable => AllHold(table_cache, NumRows))'
    BY <2>1 DEF DataInv, AllHold, Holds, NumRows
  <2> QED
    BY <2>1, <2>4, <2>6, <2>7, <2>8 DEF DataInv
<1>6. CASE EndOfFile
  <2>1. /\ pc = "read" /\ UNCHANGED <<world, types, filter, values, node, columns>>
        /\ table_cache' = columns /\ pc' = "eval"
    BY <1>6 DEF EndOfFile, evalVars, loaderVars
  <2>2. AllHold(columns, NumRows)
    <3>1. PICK n \in 0 .. NumRows : AllHold(columns, n)
      BY <2>1 DEF DataInv
    <3>2. n = NumRows
      BY <1>6, <3>1, FileRead
    <3> QED
      BY <3>1, <3>2
  <2>3. values = <<>> /\ node = NoNode
    BY <2>1 DEF SizesInv, DataInv
  <2>4. BitsRight'
    <3>1. DOMAIN <<>> = {}
      OBVIOUS
    <3>2. DOMAIN values' = {}
      BY <2>1, <2>3, <3>1
    <3> QED
      BY <3>2 DEF BitsRight
  <2>5. AllHold(columns, NumRows)' /\ AllHold(table_cache, NumRows)'
    BY <2>1, <2>2 DEF AllHold, Holds, NumRows
  <2> QED
    BY <2>1, <2>3, <2>4, <2>5 DEF DataInv
<1>7. CASE Filter
  BY <1>7, FilterKeepsRight
<1>8. ASSUME UNCHANGED <<world, types, filter, values, node, table_cache, columns>>,
             node = NoNode, pc' \notin {"read", "eval"},
             pc' = "copy" => pc \in {"eval", "copy"}
      PROVE  DataInv'
  <2>1. BitsRight'
    <3>1. \A k, i : NodeBit(k, i)' <=> NodeBit(k, i)
      <4>1. \A n, i : selects(n, i)' <=> selects(n, i)
        BY <1>8 DEF selects
      <4> QED
        BY <1>8, <4>1 DEF NodeBit
    <3> QED
      BY <1>8, <3>1 DEF DataInv, BitsRight, NumRows
  <2> QED
    BY <1>8, <2>1 DEF DataInv, AllHold, Holds, NumRows
<1>9. CASE FromCsvThrows \/ StartCopy \/ FinishCopy \/ CreateFile \/ WritePage
           \/ CloseFile \/ UseTable \/ NextScan \/ \E t \in Threads : CopyColumn(t)
  <2>1. /\ UNCHANGED <<world, types, filter, values, node, table_cache, columns>>
        /\ node = NoNode /\ pc' \notin {"read", "eval"}
        /\ pc' = "copy" => pc \in {"eval", "copy"}
    BY <1>9 DEF FromCsvThrows, Mismatched, Evaluating, StartCopy, FinishCopy, CreateFile,
            WritePage, CloseFile, UseTable, NextScan, CopyColumn, evalVars, cacheVars,
            loaderVars, AfterCsv, Evaluated, DataInv
  <2> QED
    BY <1>8, <2>1
<1>10. ASSUME NEW m, NextProcess(m) \/ Kill(m) PROVE DataInv'
  <2>1. NewProcess(m)
    BY <1>10 DEF NextProcess, Kill
  <2>2. /\ values' = <<>> /\ filter' = <<>> /\ node' = NoNode /\ pc' = "idle"
        /\ table_cache' = NoTable
    BY <2>1 DEF NewProcess
  <2>3. Len(<<>>) = 0 /\ DOMAIN <<>> = {}
    OBVIOUS
  <2>4. DOMAIN values' = {} /\ Len(values') <= Len(filter')
    BY <2>2, <2>3
  <2>5. BitsRight'
    BY <2>4 DEF BitsRight
  <2> QED
    BY <2>2, <2>4, <2>5 DEF DataInv
<1>11. CASE UNCHANGED vars
  <2>1. UNCHANGED <<world, types, filter, values, node, table_cache, columns, pc,
                    operands, ret, at>>
    BY <1>11 DEF vars, evalVars, loaderVars, cacheVars
  <2>2. BitsRight' /\ (node # NoNode => PassRight)'
    <3>1. \A n, i : selects(n, i)' <=> selects(n, i)
      BY <2>1 DEF selects
    <3>2. \A k, i : NodeBit(k, i)' <=> NodeBit(k, i)
      BY <2>1, <3>1 DEF NodeBit
    <3>3. BitsRight'
      BY <2>1, <3>2 DEF DataInv, BitsRight, NumRows
    <3>4. \A i : Done(i)' <=> Done(i)
      BY <2>1 DEF Done, SliceOf, NodeRows
    <3>5. \A m : combined(m)' = combined(m)
      BY <2>1 DEF combined
    <3>6. (node # NoNode => PassRight)'
      BY <2>1, <3>1, <3>4, <3>5 DEF DataInv, PassRight, NextNode, NumRows
    <3> QED
      BY <3>3, <3>6
  <2> QED
    BY <2>1, <2>2 DEF DataInv, AllHold, Holds, NumRows
<1> QED
  BY <1>2, <1>3, <1>4, <1>5, <1>6, <1>7, <1>9, <1>10, <1>11 DEF Next

LEMMA DataInvIsInductive == Spec => [](LoaderInv /\ DataInv)
<1>1. Init => SizesInv /\ DataInv
  <2> SUFFICES ASSUME Init PROVE SizesInv /\ DataInv
    OBVIOUS
  <2>1. Len(<<>>) = 0 /\ DOMAIN <<>> = {}
    OBVIOUS
  <2>2. DOMAIN values = {} /\ Len(values) <= Len(filter)
    BY <2>1 DEF Init
  <2> QED
    BY <2>2 DEF Init, SizesInv, DataInv, BitsRight
<1>2. LoaderInv /\ SizesInv /\ DataInv /\ [Next]_vars => (SizesInv /\ DataInv)'
  BY SizesStep, DataStep
<1> QED
  BY <1>1, <1>2, InvIsInductive, PTL DEF Spec

-----------------------------------------------------------------------------
(* Both forms of eval agree.                                               *)

(* A filter whose nodes come after the nodes below them. *)
Nodes(f) ==
    /\ Len(f) \in Nat /\ DOMAIN f = 1 .. Len(f)
    /\ \A k \in 1 .. Len(f) :
         IF f[k].op \in LogicalOps
         THEN /\ f[k].children[1] \in 1 .. k - 1
              /\ f[k].op # "NOT" => f[k].children[2] \in 1 .. k - 1
         ELSE f[k].column \in DOMAIN types

LEMMA FilterNodes == ASSUME LoaderInv PROVE Nodes(filter)
<1>1. /\ Len(filter) \in Nat /\ DOMAIN filter = 1 .. Len(filter)
      /\ \A k \in 1 .. Len(filter) :
           IF filter[k].op \in LogicalOps
           THEN /\ 1 \in DOMAIN filter[k].children
                /\ filter[k].op # "NOT" => 2 \in DOMAIN filter[k].children
                /\ \A c \in DOMAIN filter[k].children : filter[k].children[c] \in 1 .. k - 1
           ELSE filter[k].column \in DOMAIN types
  BY NodesOK
<1> QED
  BY <1>1 DEF Nodes

LEMMA LikeOnStrings ==
    ASSUME LoaderInv, NEW k \in DOMAIN filter, filter[k].op \notin LogicalOps,
           types[filter[k].column] # "VARCHAR"
    PROVE  filter[k].op \notin {"LIKE", "NOT_LIKE"}
<1>1. filter \in world.filters
  <2>1. DOMAIN <<>> = {}
    OBVIOUS
  <2> QED
    BY <2>1 DEF LoaderInv
<1>2. world \in Worlds /\ types = world.types
  BY DEF LoaderInv
<1>3. filter[k].op \in {"LIKE", "NOT_LIKE"} => world.types[filter[k].column] = "VARCHAR"
  BY <1>1, <1>2, WorldsAssumption
<1> QED
  BY <1>2, <1>3

(* The comparisons of f on record r, and one node of EvalExact. *)
Compared(f, r) == [k \in Comparisons(f) |-> Meets(f[k], r)]

RecordStep(g, f, r, k) ==
    CASE f[k].op = "NOT" -> ~g[f[k].children[1]]
      [] f[k].op = "AND" -> g[f[k].children[1]] /\ g[f[k].children[2]]
      [] f[k].op = "OR"  -> g[f[k].children[1]] \/ g[f[k].children[2]]
      [] OTHER           -> Compared(f, r)[k]

LEMMA RecordStepLocal ==
    ASSUME NEW f, Nodes(f), NEW r, NEW k \in 1 .. Len(f), NEW g, NEW h,
           \A c \in 1 .. k - 1 : g[c] = h[c]
    PROVE  RecordStep(g, f, r, k) = RecordStep(h, f, r, k)
<1>1. CASE f[k].op = "NOT"
  <2>1. g[f[k].children[1]] = h[f[k].children[1]]
    BY <1>1 DEF Nodes, LogicalOps
  <2> QED
    BY <1>1, <2>1 DEF RecordStep
<1>2. CASE f[k].op = "AND"
  <2>1. g[f[k].children[1]] = h[f[k].children[1]] /\ g[f[k].children[2]] = h[f[k].children[2]]
    BY <1>2 DEF Nodes, LogicalOps
  <2> QED
    BY <1>2, <2>1 DEF RecordStep
<1>3. CASE f[k].op = "OR"
  <2>1. g[f[k].children[1]] = h[f[k].children[1]] /\ g[f[k].children[2]] = h[f[k].children[2]]
    BY <1>3 DEF Nodes, LogicalOps
  <2> QED
    BY <1>3, <2>1 DEF RecordStep
<1>4. CASE f[k].op \notin LogicalOps
  <2>1. f[k].op # "NOT" /\ f[k].op # "AND" /\ f[k].op # "OR"
    BY <1>4 DEF LogicalOps
  <2> QED
    BY <2>1 DEF RecordStep
<1> QED
  BY <1>1, <1>2, <1>3, <1>4 DEF LogicalOps

LEMMA ComparedMeets ==
    ASSUME NEW f, Nodes(f), NEW r, NEW k \in 1 .. Len(f), f[k].op \notin LogicalOps
    PROVE  Compared(f, r)[k] = Meets(f[k], r)
<1>1. k \in Comparisons(f)
  BY DEF Nodes, Comparisons
<1> QED
  BY <1>1 DEF Compared

(* EvalExact by its nodes. *)
LEMMA EvalExactSteps ==
    ASSUME NEW f, Nodes(f), NEW r
    PROVE  \E g : /\ \A k \in 1 .. Len(f) : g[k] = RecordStep(g, f, r, k)
                  /\ EvalExact(f, r) = g[Len(f)]
<1> DEFINE IsFn(g) == g = [k \in DOMAIN f |-> RecordStep(g, f, r, k)]
           IsEval(g, m) == g = [k \in 1 .. m |-> RecordStep(g, f, r, k)]
           M == {m \in Nat : \E g : IsEval(g, m)}
<1>1. PICK n : n = Len(f) /\ n \in Nat /\ DOMAIN f = 1 .. n
  BY DEF Nodes
<1>2. 0 \in M
  <2>1. PICK g : g = [k \in 1 .. 0 |-> 0]
    OBVIOUS
  <2>2. IsEval(g, 0)
    BY <2>1
  <2> QED
    BY <2>2
<1>3. ASSUME NEW m \in 0 .. n - 1, m \in M PROVE m + 1 \in M
  <2>1. PICK g : IsEval(g, m)
    BY <1>3
  <2>2. PICK h : h = [k \in 1 .. m + 1 |-> RecordStep(g, f, r, k)]
    OBVIOUS
  <2>3. \A k \in 1 .. m : h[k] = g[k]
    BY <2>1, <2>2
  <2>4. ASSUME NEW k \in 1 .. m + 1 PROVE RecordStep(g, f, r, k) = RecordStep(h, f, r, k)
    <3>1. k \in 1 .. Len(f)
      BY <1>1
    <3>2. \A c \in 1 .. k - 1 : g[c] = h[c]
      BY <2>3
    <3> QED
      BY <3>1, <3>2, RecordStepLocal
  <2>5. IsEval(h, m + 1)
    BY <2>2, <2>4
  <2>6. m + 1 \in Nat /\ \E e : IsEval(e, m + 1)
    BY <2>5
  <2> QED
    BY <2>6
<1>4. n \in M
  <2>1. \A m \in 0 .. n : m \in M
    <3> HIDE DEF M
    <3> QED
      BY <1>1, <1>2, <1>3, UpTo
  <2> QED
    BY <1>1, <2>1
<1>5. PICK g : IsEval(g, n)
  BY <1>4
<1>6. IsFn(g)
  BY <1>1, <1>5
<1>7. PICK e : e = CHOOSE d : IsFn(d)
  OBVIOUS
<1>8. IsFn(e)
  <2> HIDE DEF IsFn
  <2> QED
    BY <1>6, <1>7
<1>9. EvalExact(f, r) = e[Len(f)]
  BY <1>7 DEF EvalExact, Evaluate, RecordStep, Compared
<1>10. \A k \in 1 .. Len(f) : e[k] = RecordStep(e, f, r, k)
  BY <1>1, <1>8
<1> QED
  BY <1>9, <1>10

(* The records of the columns are those of the file. *)
LEMMA RecordsOfFile ==
    ASSUME LoaderInv, AllHold(columns, NumRows), NEW i \in 0 .. NumRows - 1
    PROVE  RecordAt(i) = world.rows[i + 1]
<1>1. DOMAIN columns = DOMAIN types /\ \A k \in DOMAIN types : Holds(columns[k], k, NumRows)
  BY DEF AllHold
<1>2. \A k \in DOMAIN types :
        /\ is_not_null(columns[k], i) <=> world.rows[i + 1][k] # Null
        /\ world.rows[i + 1][k] # Null => get(columns[k], i) = world.rows[i + 1][k]
  BY <1>1 DEF Holds
<1>3. i + 1 \in 1 .. NumRows
  BY CellsOfFile DEF NumRows
<1>4. PICK w : w = world.rows[i + 1]
  OBVIOUS
<1>5. w = [c \in DOMAIN types |-> w[c]]
  BY <1>3, <1>4, CellsOfFile
<1>6. \A k \in DOMAIN types :
        (IF is_not_null(columns[k], i) THEN get(columns[k], i) ELSE Null) = w[k]
  BY <1>2, <1>4
<1>7. RecordAt(i) = w
  BY <1>1, <1>5, <1>6 DEF RecordAt
<1> QED
  BY <1>4, <1>7

(* A node without nodes below it, on columns and on the record of a row. *)
LEMMA LeafAgrees ==
    ASSUME LoaderInv, AllHold(columns, NumRows), LiteralsFit(filter),
           NEW i \in 0 .. NumRows - 1, NEW k \in 1 .. Len(filter),
           filter[k].op \notin LogicalOps
    PROVE  NodeBit(k, i) <=> Meets(filter[k], world.rows[i + 1])
<1>1. PICK n : n = filter[k]
  OBVIOUS
<1>2. n.column \in DOMAIN types
  BY <1>1, FilterNodes DEF Nodes
<1>3. PICK c : c = columns[n.column]
  OBVIOUS
<1>4. PICK v : v = world.rows[i + 1][n.column]
  OBVIOUS
<1>5. c.type = types[n.column] /\ (is_not_null(c, i) <=> v # Null) /\ (v # Null => get(c, i) = v)
  BY <1>2, <1>3, <1>4 DEF AllHold, Holds
<1>6. n.op # "NOT" /\ n.op # "AND" /\ n.op # "OR"
  BY <1>1 DEF LogicalOps
<1>7. CASE n.op = "IS_NULL"
  BY <1>1, <1>3, <1>4, <1>5, <1>7 DEF NodeBit, Meets
<1>8. CASE n.op = "IS_NOT_NULL"
  BY <1>1, <1>3, <1>4, <1>5, <1>8 DEF NodeBit, Meets
<1>9. CASE n.op # "IS_NULL" /\ n.op # "IS_NOT_NULL"
  <2>1. comp_value(c, n) = n.value
    <3>1. k \in DOMAIN filter /\ n.op \notin LogicalOps \cup NullOps
      BY <1>1, <1>9, FilterNodes DEF Nodes, NullOps
    <3>2. types[n.column] = "INT32" => <<int32(n.value[1])>> = n.value
      BY <1>1, <3>1 DEF LiteralsFit
    <3> QED
      BY <1>5, <3>2 DEF comp_value
  <2>2. NodeBit(k, i) <=> is_not_null(c, i) /\ Satisfies(n.op, get(c, i), comp_value(c, n))
    BY <1>1, <1>3, <1>6, <1>9 DEF NodeBit, selects
  <2>3. Meets(n, world.rows[i + 1]) <=> v # Null /\ Satisfies(n.op, v, n.value)
    BY <1>4, <1>9 DEF Meets
  <2> QED
    BY <1>1, <1>5, <2>1, <2>2, <2>3
<1> QED
  BY <1>7, <1>8, <1>9

LEMMA MeetsIsBoolean ==
    ASSUME NEW n, NEW r
    PROVE  Meets(n, r) \in BOOLEAN
<1>1. CASE n.op = "IS_NULL"
  BY <1>1 DEF Meets
<1>2. CASE n.op = "IS_NOT_NULL"
  BY <1>2 DEF Meets
<1>3. CASE n.op # "IS_NULL" /\ n.op # "IS_NOT_NULL"
  BY <1>3 DEF Meets
<1> QED
  BY <1>1, <1>2, <1>3

(* A value of a record and a bit. *)
Agree(v, bit) == (v = TRUE /\ bit) \/ (v = FALSE /\ ~bit)

LEMMA NodesAgree ==
    ASSUME LoaderInv, AllHold(columns, NumRows), LiteralsFit(filter), BitsRight,
           DOMAIN values = 1 .. Len(filter),
           NEW i \in 0 .. NumRows - 1, NEW r, r = world.rows[i + 1],
           NEW g, \A k \in 1 .. Len(filter) : g[k] = RecordStep(g, filter, r, k)
    PROVE  \A k \in 1 .. Len(filter) : Agree(g[k], BitAt(values[k], i))
<1> DEFINE S == {m \in Nat : \A k \in 1 .. m : k <= Len(filter) => Agree(g[k], BitAt(values[k], i))}
<1>1. PICK n : n = Len(filter) /\ n \in Nat
  BY FilterNodes DEF Nodes
<1>2. 0 \in S
  OBVIOUS
<1>3. ASSUME NEW m \in 0 .. n - 1, m \in S PROVE m + 1 \in S
  <2>1. PICK k \in 1 .. n : k = m + 1
    BY <1>1
  <2>2. \A c \in 1 .. k - 1 : Agree(g[c], BitAt(values[c], i))
    <3>1. \A c \in 1 .. m : c <= n
      BY <1>1
    <3> QED
      BY <1>1, <1>3, <2>1, <3>1
  <2>3. PICK x : x = filter[k]
    OBVIOUS
  <2>4. PICK a, b : a = x.children[1] /\ b = x.children[2]
    OBVIOUS
  <2>5. /\ x.op \in LogicalOps => a \in 1 .. k - 1
        /\ x.op \in LogicalOps /\ x.op # "NOT" => b \in 1 .. k - 1
    BY <1>1, <2>3, <2>4, FilterNodes DEF Nodes
  <2>6. g[k] = RecordStep(g, filter, r, k)
    BY <1>1
  <2>7. BitAt(values[k], i) <=> NodeBit(k, i)
    BY <1>1 DEF BitsRight
  <2>8. Agree(g[k], BitAt(values[k], i))
    <3>1. CASE x.op = "NOT"
      <4>1. g[k] = ~g[a]
        BY <2>3, <2>4, <2>6, <3>1 DEF RecordStep
      <4>2. NodeBit(k, i) <=> ~BitAt(values[a], i)
        BY <2>3, <2>4, <3>1 DEF NodeBit
      <4>3. Agree(g[a], BitAt(values[a], i))
        BY <2>2, <2>5, <3>1 DEF LogicalOps
      <4> QED
        BY <2>7, <4>1, <4>2, <4>3 DEF Agree
    <3>2. CASE x.op = "AND"
      <4>1. g[k] = (g[a] /\ g[b])
        BY <2>3, <2>4, <2>6, <3>2 DEF RecordStep
      <4>2. NodeBit(k, i) <=> BitAt(values[a], i) /\ BitAt(values[b], i)
        BY <2>3, <2>4, <3>2 DEF NodeBit
      <4>3. Agree(g[a], BitAt(values[a], i)) /\ Agree(g[b], BitAt(values[b], i))
        BY <2>2, <2>5, <3>2 DEF LogicalOps
      <4> QED
        BY <2>7, <4>1, <4>2, <4>3 DEF Agree
    <3>3. CASE x.op = "OR"
      <4>1. g[k] = (g[a] \/ g[b])
        BY <2>3, <2>4, <2>6, <3>3 DEF RecordStep
      <4>2. NodeBit(k, i) <=> BitAt(values[a], i) \/ BitAt(values[b], i)
        BY <2>3, <2>4, <3>3 DEF NodeBit
      <4>3. Agree(g[a], BitAt(values[a], i)) /\ Agree(g[b], BitAt(values[b], i))
        BY <2>2, <2>5, <3>3 DEF LogicalOps
      <4> QED
        BY <2>7, <4>1, <4>2, <4>3 DEF Agree
    <3>4. CASE x.op \notin LogicalOps
      <4>1. x.op # "NOT" /\ x.op # "AND" /\ x.op # "OR"
        BY <3>4 DEF LogicalOps
      <4>2. g[k] = Meets(x, r)
        <5>1. g[k] = Compared(filter, r)[k]
          BY <2>3, <2>6, <4>1 DEF RecordStep
        <5> QED
          BY <1>1, <2>3, <3>4, <5>1, FilterNodes, ComparedMeets
      <4>3. NodeBit(k, i) <=> Meets(x, r)
        BY <1>1, <2>3, <3>4, LeafAgrees
      <4>4. Meets(x, r) \in BOOLEAN
        BY MeetsIsBoolean
      <4> QED
        BY <2>7, <4>2, <4>3, <4>4 DEF Agree
    <3> QED
      BY <3>1, <3>2, <3>3, <3>4 DEF LogicalOps
  <2>9. \A c \in 1 .. m + 1 : c = k \/ c \in 1 .. k - 1
    BY <2>1
  <2>10. \A c \in 1 .. m + 1 : Agree(g[c], BitAt(values[c], i))
    BY <2>2, <2>8, <2>9
  <2> QED
    BY <2>10
<1>4. \A m \in 0 .. n : m \in S
  <2> HIDE DEF S
  <2> QED
    BY <1>1, <1>2, <1>3, UpTo
<1>5. n \in S
  BY <1>1, <1>4
<1> QED
  BY <1>1, <1>5

(* What is there when a filter is evaluated. *)
LEMMA EvaluatedFacts ==
    ASSUME LoaderInv, DataInv, Evaluated, filter # <<>>
    PROVE  /\ AllHold(columns, NumRows) /\ BitsRight /\ RowsOf(columns[1]) = NumRows
           /\ DOMAIN values = 1 .. Len(filter) /\ Last(values) = values[Len(filter)]
           /\ Len(filter) \in Nat /\ Len(filter) \in 1 .. Len(filter)
<1>1. Len(values) \in Nat /\ DOMAIN values = 1 .. Len(values)
  BY SequenceLen DEF LoaderInv, ValuesOK
<1>2. Len(filter) \in Nat
  BY NodesOK
<1>3. Len(values) = Len(filter)
  BY <1>1, <1>2 DEF Evaluated, DataInv
<1>4. Len(filter) # 0
  <2>1. filter \in world.filters /\ world \in Worlds
    BY DEF LoaderInv
  <2>2. filter \in Seq(Range(filter))
    BY <2>1, WorldsAssumption
  <2> QED
    BY <2>2
<1>5. values # <<>>
  <2>1. Len(<<>>) = 0
    OBVIOUS
  <2> QED
    BY <1>3, <1>4, <2>1
<1>6. AllHold(columns, NumRows) /\ BitsRight
  BY <1>5 DEF DataInv
<1>7. RowsOf(columns[1]) = NumRows
  <2>1. PICK m \in Nat : m > 0 /\ DOMAIN types = 1 .. m
    BY CellsOfFile
  <2>2. 1 \in DOMAIN types
    BY <2>1
  <2> QED
    BY <1>6, <2>2 DEF AllHold, Holds
<1> QED
  BY <1>1, <1>2, <1>3, <1>4, <1>6, <1>7 DEF Last

(* The bit of a row is the value of the filter on its record. *)
LEMMA BitIsRecord ==
    ASSUME LoaderInv, DataInv, Evaluated, filter # <<>>, LiteralsFit(filter),
           NEW i \in 0 .. NumRows - 1
    PROVE  BitAt(Last(values), i) = EvalExact(filter, world.rows[i + 1])
<1>1. PICK r : r = world.rows[i + 1]
  OBVIOUS
<1>2. PICK g : /\ \A k \in 1 .. Len(filter) : g[k] = RecordStep(g, filter, r, k)
               /\ EvalExact(filter, r) = g[Len(filter)]
  BY FilterNodes, EvalExactSteps
<1>3. PICK n : n = Len(filter)
  OBVIOUS
<1>4. Agree(g[n], BitAt(values[n], i))
  BY <1>1, <1>2, <1>3, EvaluatedFacts, NodesAgree
<1>6. g[n] \in BOOLEAN /\ (g[n] <=> BitAt(values[n], i))
  BY <1>4 DEF Agree
<1>7. g[n] = BitAt(values[n], i)
  BY <1>6 DEF BitAt
<1>5. Last(values) = values[n]
  BY <1>3, EvaluatedFacts
<1> QED
  BY <1>1, <1>2, <1>3, <1>5, <1>7

(* A comparison that rounds no number has the same value for doubles. *)
LEMMA LeavesAgree ==
    ASSUME LoaderInv, LiteralsFit(filter), NEW r, ExactDoubles(filter, r),
           NEW k \in Comparisons(filter)
    PROVE  RecordSelects(filter[k], r) = Meets(filter[k], r)
<1>1. PICK n : n = filter[k]
  OBVIOUS
<1>2. k \in DOMAIN filter /\ n.op \notin LogicalOps
  BY <1>1 DEF Comparisons
<1>3. PICK v : v = r[n.column]
  OBVIOUS
<1>4. CASE n.op = "IS_NULL"
  BY <1>1, <1>4 DEF RecordSelects, Meets
<1>5. CASE n.op = "IS_NOT_NULL"
  BY <1>1, <1>5 DEF RecordSelects, Meets
<1>6. CASE n.op # "IS_NULL" /\ n.op # "IS_NOT_NULL"
  <2>1. n.op \notin LogicalOps \cup NullOps
    BY <1>2, <1>6 DEF NullOps
  <2>2. Matches(n)
    BY <1>1, <1>2, <2>1 DEF LiteralsFit
  <2>3. Meets(n, r) = (v # Null /\ Satisfies(n.op, v, n.value))
    BY <1>3, <1>6 DEF Meets
  <2>4. CASE types[n.column] = "VARCHAR"
    BY <1>1, <1>3, <1>6, <2>2, <2>3, <2>4 DEF RecordSelects
  <2>5. CASE types[n.column] # "VARCHAR"
    <3>1. n.op \notin {"LIKE", "NOT_LIKE"}
      BY <1>1, <1>2, <2>5, LikeOnStrings
    <3>2. v # Null => <<double(v[1])>> = v /\ <<double(n.value[1])>> = n.value
      BY <1>1, <1>2, <1>3, <2>1, <2>5 DEF ExactDoubles
    <3>3. PICK x, y : x = <<double(v[1])>> /\ y = <<double(n.value[1])>>
      OBVIOUS
    <3>4. RecordSelects(n, r) = (v # Null /\ Satisfies(n.op, x, y))
      BY <1>3, <1>6, <2>2, <2>5, <3>1, <3>3 DEF RecordSelects
    <3>5. v # Null => x = v /\ y = n.value
      BY <3>2, <3>3
    <3> QED
      BY <1>1, <2>3, <3>4, <3>5
  <2> QED
    BY <2>4, <2>5
<1> QED
  BY <1>4, <1>5, <1>6

LEMMA RecordIsExact ==
    ASSUME LoaderInv, LiteralsFit(filter), NEW r, ExactDoubles(filter, r)
    PROVE  EvalRecord(filter, r) = EvalExact(filter, r)
<1>1. [k \in Comparisons(filter) |-> RecordSelects(filter[k], r)]
        = [k \in Comparisons(filter) |-> Meets(filter[k], r)]
  BY LeavesAgree
<1> QED
  BY <1>1 DEF EvalRecord, EvalExact

(* A filter evaluated on whole columns, by any number of workers in any    *)
(* order, gives each row the bit that Statement::eval gives its record, as *)
(* long as no number it compares is rounded to a double.                   *)
THEOREM FormsAgree == Spec => []RecordsAgree
<1>1. LoaderInv /\ DataInv => RecordsAgree
  <2> SUFFICES ASSUME LoaderInv, DataInv, Evaluated, filter # <<>>, LiteralsFit(filter),
                      NEW i \in 0 .. RowsOf(columns[1]) - 1,
                      ExactDoubles(filter, RecordAt(i))
               PROVE  BitAt(Last(values), i) = EvalRecord(filter, RecordAt(i))
    BY DEF RecordsAgree
  <2>1. i \in 0 .. NumRows - 1 /\ AllHold(columns, NumRows)
    BY EvaluatedFacts
  <2>2. RecordAt(i) = world.rows[i + 1]
    BY <2>1, RecordsOfFile
  <2>3. BitAt(Last(values), i) = EvalExact(filter, world.rows[i + 1])
    BY <2>1, BitIsRecord
  <2>4. EvalRecord(filter, RecordAt(i)) = EvalExact(filter, RecordAt(i))
    BY RecordIsExact
  <2> QED
    BY <2>2, <2>3, <2>4
<1> QED
  BY <1>1, DataInvIsInductive, PTL

-----------------------------------------------------------------------------
(* What SQL keeps.                                                         *)

(* One node of EvalSql. *)
SqlStep(g, f, r, k) ==
    LET Child(n) == g[f[k].children[n]]
    IN  CASE f[k].op = "NOT" -> {~v : v \in Child(1)}
          [] f[k].op = "AND" -> {u[1] /\ u[2] : u \in Child(1) \X Child(2)}
          [] f[k].op = "OR"  -> {u[1] \/ u[2] : u \in Child(1) \X Child(2)}
          [] OTHER           -> SqlSelects(f[k], r)

LEMMA SqlStepLocal ==
    ASSUME NEW f, Nodes(f), NEW r, NEW k \in 1 .. Len(f), NEW g, NEW h,
           \A c \in 1 .. k - 1 : g[c] = h[c]
    PROVE  SqlStep(g, f, r, k) = SqlStep(h, f, r, k)
<1>1. CASE f[k].op = "NOT"
  <2>1. g[f[k].children[1]] = h[f[k].children[1]]
    BY <1>1 DEF Nodes, LogicalOps
  <2> QED
    BY <1>1, <2>1 DEF SqlStep
<1>2. CASE f[k].op = "AND"
  <2>1. g[f[k].children[1]] = h[f[k].children[1]] /\ g[f[k].children[2]] = h[f[k].children[2]]
    BY <1>2 DEF Nodes, LogicalOps
  <2> QED
    BY <1>2, <2>1 DEF SqlStep
<1>3. CASE f[k].op = "OR"
  <2>1. g[f[k].children[1]] = h[f[k].children[1]] /\ g[f[k].children[2]] = h[f[k].children[2]]
    BY <1>3 DEF Nodes, LogicalOps
  <2> QED
    BY <1>3, <2>1 DEF SqlStep
<1>4. CASE f[k].op \notin LogicalOps
  <2>1. f[k].op # "NOT" /\ f[k].op # "AND" /\ f[k].op # "OR"
    BY <1>4 DEF LogicalOps
  <2> QED
    BY <2>1 DEF SqlStep
<1> QED
  BY <1>1, <1>2, <1>3, <1>4 DEF LogicalOps

(* EvalSql by its nodes. *)
LEMMA EvalSqlSteps ==
    ASSUME NEW f, Nodes(f), NEW r
    PROVE  \E g : /\ \A k \in 1 .. Len(f) : g[k] = SqlStep(g, f, r, k)
                  /\ EvalSql(f, r) = g[Len(f)]
<1> DEFINE IsFn(g) == g = [k \in DOMAIN f |-> SqlStep(g, f, r, k)]
           IsEval(g, m) == g = [k \in 1 .. m |-> SqlStep(g, f, r, k)]
           M == {m \in Nat : \E g : IsEval(g, m)}
<1>1. PICK n : n = Len(f) /\ n \in Nat /\ DOMAIN f = 1 .. n
  BY DEF Nodes
<1>2. 0 \in M
  <2>1. PICK g : g = [k \in 1 .. 0 |-> 0]
    OBVIOUS
  <2>2. IsEval(g, 0)
    BY <2>1
  <2> QED
    BY <2>2
<1>3. ASSUME NEW m \in 0 .. n - 1, m \in M PROVE m + 1 \in M
  <2>1. PICK g : IsEval(g, m)
    BY <1>3
  <2>2. PICK h : h = [k \in 1 .. m + 1 |-> SqlStep(g, f, r, k)]
    OBVIOUS
  <2>3. \A k \in 1 .. m : h[k] = g[k]
    BY <2>1, <2>2
  <2>4. ASSUME NEW k \in 1 .. m + 1 PROVE SqlStep(g, f, r, k) = SqlStep(h, f, r, k)
    <3>1. k \in 1 .. Len(f)
      BY <1>1
    <3>2. \A c \in 1 .. k - 1 : g[c] = h[c]
      BY <2>3
    <3> QED
      BY <3>1, <3>2, SqlStepLocal
  <2>5. IsEval(h, m + 1)
    BY <2>2, <2>4
  <2>6. m + 1 \in Nat /\ \E e : IsEval(e, m + 1)
    BY <2>5
  <2> QED
    BY <2>6
<1>4. n \in M
  <2>1. \A m \in 0 .. n : m \in M
    <3> HIDE DEF M
    <3> QED
      BY <1>1, <1>2, <1>3, UpTo
  <2> QED
    BY <1>1, <2>1
<1>5. PICK g : IsEval(g, n)
  BY <1>4
<1>6. IsFn(g)
  BY <1>1, <1>5
<1>7. PICK e : e = CHOOSE d : IsFn(d)
  OBVIOUS
<1>8. IsFn(e)
  <2> HIDE DEF IsFn
  <2> QED
    BY <1>6, <1>7
<1>9. EvalSql(f, r) = e[Len(f)]
  BY <1>7 DEF EvalSql, SqlStep
<1>10. \A k \in 1 .. Len(f) : e[k] = SqlStep(e, f, r, k)
  BY <1>1, <1>8
<1> QED
  BY <1>9, <1>10

(* The value of a record is one that SQL's may be, and with exact the only *)
(* one whenever it is TRUE.                                                *)
Fits(v, s, exact) ==
    /\ v \in BOOLEAN /\ s \in SUBSET BOOLEAN /\ v \in s
    /\ exact /\ v = TRUE => FALSE \notin s

(* The nodes above: x from v and w, and the values z from s and t.         *)
NotOf(x, z, v, s)       == x = (~v) /\ z = {~y : y \in s}
AndOf(x, z, v, s, w, t) == x = (v /\ w) /\ z = {u[1] /\ u[2] : u \in s \X t}
OrOf(x, z, v, s, w, t)  == x = (v \/ w) /\ z = {u[1] \/ u[2] : u \in s \X t}

LEMMA NotFits ==
    ASSUME NEW v, NEW s, Fits(v, s, FALSE), NEW x, NEW z, NotOf(x, z, v, s)
    PROVE  Fits(x, z, FALSE)
<1>1. x = (~v) /\ z = {~y : y \in s}
  BY DEF NotOf
<1>2. x \in BOOLEAN /\ x \in z
  BY <1>1 DEF Fits
<1>3. z \in SUBSET BOOLEAN
  BY <1>1
<1> QED
  BY <1>2, <1>3 DEF Fits

LEMMA AndFits ==
    ASSUME NEW e \in BOOLEAN, NEW v, NEW s, Fits(v, s, e), NEW w, NEW t, Fits(w, t, e),
           NEW x, NEW z, AndOf(x, z, v, s, w, t)
    PROVE  Fits(x, z, e)
<1>1. x = (v /\ w) /\ z = {u[1] /\ u[2] : u \in s \X t}
  BY DEF AndOf
<1>2. x \in BOOLEAN /\ x \in z
  <2>1. <<v, w>> \in s \X t
    BY DEF Fits
  <2>2. (v /\ w) = (<<v, w>>[1] /\ <<v, w>>[2])
    OBVIOUS
  <2> QED
    BY <1>1, <2>1, <2>2 DEF Fits
<1>3. z \in SUBSET BOOLEAN
  BY <1>1
<1>4. ASSUME e, x = TRUE, FALSE \in z PROVE FALSE
  <2>1. PICK u \in s \X t : FALSE = (u[1] /\ u[2])
    BY <1>1, <1>4
  <2>2. u[1] \in s /\ u[2] \in t
    BY <2>1
  <2>3. v = TRUE /\ w = TRUE
    BY <1>1, <1>4 DEF Fits
  <2>4. u[1] = TRUE /\ u[2] = TRUE
    BY <1>4, <2>2, <2>3 DEF Fits
  <2> QED
    BY <2>1, <2>4
<1> QED
  BY <1>2, <1>3, <1>4 DEF Fits

LEMMA OrFits ==
    ASSUME NEW e \in BOOLEAN, NEW v, NEW s, Fits(v, s, e), NEW w, NEW t, Fits(w, t, e),
           NEW x, NEW z, OrOf(x, z, v, s, w, t)
    PROVE  Fits(x, z, e)
<1>1. x = (v \/ w) /\ z = {u[1] \/ u[2] : u \in s \X t}
  BY DEF OrOf
<1>2. x \in BOOLEAN /\ x \in z
  <2>1. <<v, w>> \in s \X t
    BY DEF Fits
  <2>2. (v \/ w) = (<<v, w>>[1] \/ <<v, w>>[2])
    OBVIOUS
  <2> QED
    BY <1>1, <2>1, <2>2 DEF Fits
<1>3. z \in SUBSET BOOLEAN
  BY <1>1
<1>4. ASSUME e, x = TRUE, FALSE \in z PROVE FALSE
  <2>1. PICK u \in s \X t : FALSE = (u[1] \/ u[2])
    BY <1>1, <1>4
  <2>2. u[1] \in s /\ u[2] \in t
    BY <2>1
  <2>3. v = TRUE \/ w = TRUE
    BY <1>1, <1>4 DEF Fits
  <2>4. u[1] = TRUE \/ u[2] = TRUE
    BY <1>4, <2>2, <2>3 DEF Fits
  <2> QED
    BY <2>1, <2>4
<1> QED
  BY <1>2, <1>3, <1>4 DEF Fits

LEMMA LeafFits ==
    ASSUME NEW n, NEW r, n.op \notin LogicalOps
    PROVE  Fits(Meets(n, r), SqlSelects(n, r), TRUE)
<1>1. PICK v : v = Meets(n, r)
  OBVIOUS
<1>2. v \in BOOLEAN
  BY <1>1, MeetsIsBoolean
<1>3. CASE n.op \in NullOps \/ r[n.column] # Null
  <2>1. SqlSelects(n, r) = {v}
    BY <1>1, <1>3 DEF SqlSelects
  <2> QED
    BY <1>1, <1>2, <2>1 DEF Fits
<1>4. CASE n.op \notin NullOps /\ r[n.column] = Null
  <2>1. SqlSelects(n, r) = BOOLEAN
    BY <1>4 DEF SqlSelects
  <2>2. ~Meets(n, r)
    <3>1. n.op # "IS_NULL" /\ n.op # "IS_NOT_NULL"
      BY <1>4 DEF NullOps
    <3> QED
      BY <1>4, <3>1 DEF Meets
  <2>3. v # TRUE
    BY <1>1, <2>2
  <2> QED
    BY <1>1, <1>2, <2>1, <2>3 DEF Fits
<1> QED
  BY <1>3, <1>4

LEMMA NodesFit ==
    ASSUME NEW f, Nodes(f), NEW r, NEW e \in BOOLEAN,
           e => \A k \in 1 .. Len(f) : f[k].op # "NOT",
           NEW g, \A k \in 1 .. Len(f) : g[k] = RecordStep(g, f, r, k),
           NEW h, \A k \in 1 .. Len(f) : h[k] = SqlStep(h, f, r, k)
    PROVE  \A k \in 1 .. Len(f) : Fits(g[k], h[k], e)
<1> DEFINE S == {m \in Nat : \A k \in 1 .. m : k <= Len(f) => Fits(g[k], h[k], e)}
<1>1. PICK n : n = Len(f) /\ n \in Nat
  BY DEF Nodes
<1>2. 0 \in S
  OBVIOUS
<1>3. ASSUME NEW m \in 0 .. n - 1, m \in S PROVE m + 1 \in S
  <2>1. PICK k \in 1 .. n : k = m + 1
    BY <1>1
  <2>2. \A c \in 1 .. k - 1 : Fits(g[c], h[c], e)
    <3>1. \A c \in 1 .. m : c <= n
      BY <1>1
    <3> QED
      BY <1>1, <1>3, <2>1, <3>1
  <2>3. PICK x : x = f[k]
    OBVIOUS
  <2>4. PICK a, b : a = x.children[1] /\ b = x.children[2]
    OBVIOUS
  <2>5. /\ x.op \in LogicalOps => a \in 1 .. k - 1
        /\ x.op \in LogicalOps /\ x.op # "NOT" => b \in 1 .. k - 1
    BY <1>1, <2>3, <2>4 DEF Nodes
  <2>6. g[k] = RecordStep(g, f, r, k) /\ h[k] = SqlStep(h, f, r, k)
    BY <1>1
  <2>7. Fits(g[k], h[k], e)
    <3>1. CASE x.op = "NOT"
      <4>1. g[k] = ~g[a]
        BY <2>3, <2>4, <2>6, <3>1 DEF RecordStep
      <4>2. h[k] = {~v : v \in h[a]}
        BY <2>3, <2>4, <2>6, <3>1 DEF SqlStep
      <4>3. e = FALSE
        BY <1>1, <2>3, <3>1
      <4>4. Fits(g[a], h[a], FALSE)
        BY <2>2, <2>5, <3>1, <4>3 DEF LogicalOps
      <4>5. NotOf(g[k], h[k], g[a], h[a])
        BY <4>1, <4>2 DEF NotOf
      <4>6. Fits(g[k], h[k], FALSE)
        BY <4>4, <4>5, NotFits
      <4> QED
        BY <4>3, <4>6
    <3>2. CASE x.op = "AND"
      <4>1. g[k] = (g[a] /\ g[b])
        BY <2>3, <2>4, <2>6, <3>2 DEF RecordStep
      <4>2. h[k] = {u[1] /\ u[2] : u \in h[a] \X h[b]}
        BY <2>3, <2>4, <2>6, <3>2 DEF SqlStep
      <4>3. Fits(g[a], h[a], e) /\ Fits(g[b], h[b], e)
        BY <2>2, <2>5, <3>2 DEF LogicalOps
      <4>4. AndOf(g[k], h[k], g[a], h[a], g[b], h[b])
        BY <4>1, <4>2 DEF AndOf
      <4> QED
        BY <4>3, <4>4, AndFits
    <3>3. CASE x.op = "OR"
      <4>1. g[k] = (g[a] \/ g[b])
        BY <2>3, <2>4, <2>6, <3>3 DEF RecordStep
      <4>2. h[k] = {u[1] \/ u[2] : u \in h[a] \X h[b]}
        BY <2>3, <2>4, <2>6, <3>3 DEF SqlStep
      <4>3. Fits(g[a], h[a], e) /\ Fits(g[b], h[b], e)
        BY <2>2, <2>5, <3>3 DEF LogicalOps
      <4>4. OrOf(g[k], h[k], g[a], h[a], g[b], h[b])
        BY <4>1, <4>2 DEF OrOf
      <4> QED
        BY <4>3, <4>4, OrFits
    <3>4. CASE x.op \notin LogicalOps
      <4>1. x.op # "NOT" /\ x.op # "AND" /\ x.op # "OR"
        BY <3>4 DEF LogicalOps
      <4>2. g[k] = Meets(x, r)
        <5>1. g[k] = Compared(f, r)[k]
          BY <2>3, <2>6, <4>1 DEF RecordStep
        <5> QED
          BY <1>1, <2>3, <3>4, <5>1, ComparedMeets
      <4>3. h[k] = SqlSelects(x, r)
        BY <2>3, <2>6, <4>1 DEF SqlStep
      <4>4. Fits(g[k], h[k], TRUE)
        BY <3>4, <4>2, <4>3, LeafFits
      <4> QED
        BY <4>4 DEF Fits
    <3> QED
      BY <3>1, <3>2, <3>3, <3>4 DEF LogicalOps
  <2>8. \A c \in 1 .. m + 1 : c = k \/ c \in 1 .. k - 1
    BY <2>1
  <2>9. \A c \in 1 .. m + 1 : Fits(g[c], h[c], e)
    BY <2>2, <2>7, <2>8
  <2> QED
    BY <2>9
<1>4. \A m \in 0 .. n : m \in S
  <2> HIDE DEF S
  <2> QED
    BY <1>1, <1>2, <1>3, UpTo
<1>5. n \in S
  BY <1>1, <1>4
<1> QED
  BY <1>1, <1>5

(* What a filter of the program keeps is between what SQL's keeps for sure *)
(* and what it may keep, whatever the NULLs stand for; without a NOT it is *)
(* what SQL's keeps.                                                       *)
LEMMA SqlOfRow ==
    ASSUME LoaderInv, DataInv, Evaluated, filter # <<>>, LiteralsFit(filter),
           NEW i \in 0 .. NumRows - 1,
           NEW e \in BOOLEAN, e => \A k \in 1 .. Len(filter) : filter[k].op # "NOT"
    PROVE  \E v : /\ v <=> BitAt(Last(values), i)
                  /\ Fits(v, EvalSql(filter, world.rows[i + 1]), e)
<1>1. PICK r : r = world.rows[i + 1]
  OBVIOUS
<1>2. Nodes(filter)
  BY FilterNodes
<1>3. PICK g : /\ \A k \in 1 .. Len(filter) : g[k] = RecordStep(g, filter, r, k)
               /\ EvalExact(filter, r) = g[Len(filter)]
  BY <1>2, EvalExactSteps
<1>4. PICK h : /\ \A k \in 1 .. Len(filter) : h[k] = SqlStep(h, filter, r, k)
               /\ EvalSql(filter, r) = h[Len(filter)]
  BY <1>2, EvalSqlSteps
<1>5. PICK n : n = Len(filter) /\ n \in 1 .. Len(filter)
  BY EvaluatedFacts
<1>6. \A k \in 1 .. Len(filter) : Fits(g[k], h[k], e)
  BY <1>2, <1>3, <1>4, NodesFit
<1>7. Fits(EvalExact(filter, r), EvalSql(filter, r), e)
  BY <1>3, <1>4, <1>5, <1>6
<1>8. BitAt(Last(values), i) = EvalExact(filter, r)
  BY <1>1, BitIsRecord
<1> QED
  BY <1>1, <1>7, <1>8

(* With no NOT a row is kept when SQL's filter is true for it.             *)
LEMMA SqlWithoutNot ==
    ASSUME LoaderInv, DataInv, Evaluated, filter # <<>>, LiteralsFit(filter),
           NEW i \in 0 .. NumRows - 1, \A k \in DOMAIN filter : filter[k].op # "NOT"
    PROVE  BitAt(Last(values), i) = (EvalSql(filter, world.rows[i + 1]) = {TRUE})
<1>1. PICK sql : sql = EvalSql(filter, world.rows[i + 1])
  OBVIOUS
<1>2. TRUE => \A k \in 1 .. Len(filter) : filter[k].op # "NOT"
  BY FilterNodes DEF Nodes
<1>3. PICK v : (v <=> BitAt(Last(values), i)) /\ Fits(v, sql, TRUE)
  BY <1>1, <1>2, SqlOfRow
<1>4. v = TRUE <=> sql = {TRUE}
  BY <1>3 DEF Fits
<1>5. v \in BOOLEAN
  BY <1>3 DEF Fits
<1>6. BitAt(Last(values), i) <=> sql = {TRUE}
  BY <1>3, <1>4, <1>5
<1>7. BitAt(Last(values), i) = (sql = {TRUE})
  <2>1. CASE sql = {TRUE}
    <3>1. BitAt(Last(values), i) = TRUE
      BY <1>6, <2>1 DEF BitAt
    <3>2. (sql = {TRUE}) = TRUE
      BY <2>1
    <3> QED
      BY <3>1, <3>2
  <2>2. CASE sql # {TRUE}
    <3>1. BitAt(Last(values), i) = FALSE
      <4>1. ~BitAt(Last(values), i)
        BY <1>6, <2>2
      <4>2. PICK z, B : z = i % BitsPerByte /\ B = Last(values)[i \div BitsPerByte + 1]
        OBVIOUS
      <4>3. z \notin B
        BY <4>1, <4>2 DEF BitAt
      <4>4. (z \in B) = FALSE
        BY ONLY <4>3, SMT
      <4> QED
        BY <4>2, <4>4 DEF BitAt
    <3>2. (sql = {TRUE}) = FALSE
      BY <2>2
    <3> QED
      BY <3>1, <3>2
  <2> QED
    BY <2>1, <2>2
<1> QED
  BY <1>1, <1>7

(* Comparisons with NULL are false in the program and unknown in SQL.      *)
(* Still no row is kept that SQL's filter drops for sure, and none dropped *)
(* that it keeps, and a filter without NOT keeps what SQL's does.          *)
THEOREM SqlAgrees == Spec => []SqlRowsKept
<1>1. LoaderInv /\ DataInv => SqlRowsKept
  <2> SUFFICES ASSUME LoaderInv, DataInv, Evaluated, filter # <<>>, LiteralsFit(filter),
                      NEW i \in 0 .. RowsOf(columns[1]) - 1
               PROVE  /\ EvalSql(filter, RecordAt(i)) = {TRUE} => BitAt(Last(values), i)
                      /\ EvalSql(filter, RecordAt(i)) = {FALSE} => ~BitAt(Last(values), i)
                      /\ (\A k \in DOMAIN filter : filter[k].op # "NOT") =>
                             BitAt(Last(values), i) = (EvalSql(filter, RecordAt(i)) = {TRUE})
    BY DEF SqlRowsKept
  <2>1. i \in 0 .. NumRows - 1 /\ AllHold(columns, NumRows)
    BY EvaluatedFacts
  <2>2. PICK r : r = world.rows[i + 1]
    OBVIOUS
  <2>3. RecordAt(i) = r
    BY <2>1, <2>2, RecordsOfFile
  <2>4. PICK sql : sql = EvalSql(filter, r)
    OBVIOUS
  <2>5. FALSE => \A k \in 1 .. Len(filter) : filter[k].op # "NOT"
    OBVIOUS
  <2>6. PICK v : (v <=> BitAt(Last(values), i)) /\ Fits(v, sql, FALSE)
    BY <2>1, <2>2, <2>4, <2>5, SqlOfRow
  <2>7. (sql = {TRUE} => v = TRUE) /\ (sql = {FALSE} => v = FALSE)
    BY <2>6 DEF Fits
  <2>8. /\ sql = {TRUE} => BitAt(Last(values), i)
        /\ sql = {FALSE} => ~BitAt(Last(values), i)
    BY <2>6, <2>7
  <2>9. (\A k \in DOMAIN filter : filter[k].op # "NOT") =>
            BitAt(Last(values), i) = (sql = {TRUE})
    BY <2>1, <2>2, <2>4, SqlWithoutNot
  <2> QED
    BY <2>3, <2>4, <2>8, <2>9
<1> QED
  BY <1>1, DataInvIsInductive, PTL


-----------------------------------------------------------------------------
(* The rows copied.                                                        *)

(* One row of KeptRows. *)
KeptStep(g, bitmap, m) ==
    IF m = 0 THEN <<>>
    ELSE IF BitAt(bitmap, m - 1) THEN Append(g[m - 1], m - 1)
    ELSE g[m - 1]

LEMMA KeptSteps ==
    ASSUME NEW bitmap, NEW n \in Nat
    PROVE  \E g : /\ \A m \in 0 .. n : g[m] = KeptStep(g, bitmap, m)
                  /\ KeptRows(bitmap, n) = g[n]
<1> DEFINE IsFn(g) == g = [m \in 0 .. n |-> KeptStep(g, bitmap, m)]
           IsKept(g, k) == g = [m \in 0 .. k |-> KeptStep(g, bitmap, m)]
           M == {k \in Nat : \E g : IsKept(g, k)}
<1>1. 0 \in M
  <2>1. PICK g : g = [m \in 0 .. 0 |-> <<>>]
    OBVIOUS
  <2>2. IsKept(g, 0)
    BY <2>1 DEF KeptStep
  <2> QED
    BY <2>2
<1>2. ASSUME NEW k \in 0 .. n - 1, k \in M PROVE k + 1 \in M
  <2>1. PICK g : IsKept(g, k)
    BY <1>2
  <2>2. PICK h : h = [m \in 0 .. k + 1 |-> KeptStep(g, bitmap, m)]
    OBVIOUS
  <2>3. \A m \in 0 .. k : h[m] = g[m]
    BY <2>1, <2>2
  <2>4. ASSUME NEW m \in 0 .. k + 1 PROVE KeptStep(g, bitmap, m) = KeptStep(h, bitmap, m)
    <3>1. m # 0 => g[m - 1] = h[m - 1]
      BY <2>3
    <3> QED
      BY <3>1 DEF KeptStep
  <2>5. IsKept(h, k + 1)
    BY <2>2, <2>4
  <2>6. k + 1 \in Nat /\ \E e : IsKept(e, k + 1)
    BY <2>5
  <2> QED
    BY <2>6
<1>3. n \in M
  <2>1. \A k \in 0 .. n : k \in M
    <3> HIDE DEF M
    <3> QED
      BY <1>1, <1>2, UpTo
  <2> QED
    BY <2>1
<1>4. PICK g : IsFn(g)
  BY <1>3
<1>5. PICK e : e = CHOOSE d : IsFn(d)
  OBVIOUS
<1>6. IsFn(e)
  <2> HIDE DEF IsFn
  <2> QED
    BY <1>4, <1>5
<1>7. KeptRows(bitmap, n) = e[n]
  BY <1>5 DEF KeptRows, KeptStep
<1>8. \A m \in 0 .. n : e[m] = KeptStep(e, bitmap, m)
  BY <1>6
<1> QED
  BY <1>7, <1>8

Below(S, i) == {j \in S : j < i}

(* q has the elements of S, each behind those below it. *)
Enumerates(q, S) ==
    /\ q \in Seq(Nat) /\ IsFiniteSet(S) /\ S \in SUBSET Nat
    /\ Len(q) = Cardinality(S)
    /\ \A k \in 1 .. Len(q) : q[k] \in S /\ Cardinality(Below(S, q[k])) = k - 1

LEMMA EnumerateMore ==
    ASSUME NEW S, NEW q, Enumerates(q, S), NEW m \in Nat, \A i \in S : i < m
    PROVE  Enumerates(Append(q, m), S \cup {m})
<1>1. PICK n : n = Len(q) /\ n \in Nat
  BY DEF Enumerates
<1>2. PICK r : r = Append(q, m)
  OBVIOUS
<1>3. /\ r \in Seq(Nat) /\ Len(r) = n + 1 /\ r[n + 1] = m
      /\ \A k \in 1 .. n : r[k] = q[k]
  BY <1>1, <1>2 DEF Enumerates
<1>4. PICK T : T = S \cup {m}
  OBVIOUS
<1>5. m \notin S /\ \A i \in S : i \in Nat
  BY DEF Enumerates
<1>6. IsFiniteSet(T) /\ T \in SUBSET Nat /\ Cardinality(T) = n + 1
  BY <1>1, <1>4, <1>5, FS_AddElement DEF Enumerates
<1>7. ASSUME NEW k \in 1 .. n + 1 PROVE r[k] \in T /\ Cardinality(Below(T, r[k])) = k - 1
  <2>1. CASE k = n + 1
    <3>1. Below(T, m) = S
      BY <1>4, <1>5 DEF Below
    <3> QED
      BY <1>1, <1>3, <1>4, <2>1, <3>1 DEF Enumerates
  <2>2. CASE k # n + 1
    <3>1. k \in 1 .. n
      BY <1>1, <2>2
    <3>2. r[k] = q[k] /\ q[k] \in S /\ Cardinality(Below(S, q[k])) = k - 1
      BY <1>1, <1>3, <3>1 DEF Enumerates
    <3>3. Below(T, q[k]) = Below(S, q[k])
      BY <1>1, <1>3, <1>4, <1>5, <3>2 DEF Below
    <3> QED
      BY <1>4, <3>2, <3>3
  <2> QED
    BY <2>1, <2>2
<1> QED
  BY <1>2, <1>3, <1>4, <1>6, <1>7 DEF Enumerates

(* KeptRows goes through the rows whose bits are set. *)
LEMMA KeptInOrder ==
    ASSUME NEW bitmap, NEW n \in Nat
    PROVE  Enumerates(KeptRows(bitmap, n), {i \in 0 .. n - 1 : BitAt(bitmap, i)})
<1> DEFINE Kept(m) == {i \in 0 .. m - 1 : BitAt(bitmap, i)}
<1>1. PICK g : /\ \A m \in 0 .. n : g[m] = KeptStep(g, bitmap, m)
               /\ KeptRows(bitmap, n) = g[n]
  BY KeptSteps
<1> DEFINE M == {m \in Nat : Enumerates(g[m], Kept(m))}
<1>2. 0 \in M
  <2>1. g[0] = <<>>
    BY <1>1 DEF KeptStep
  <2>2. Kept(0) = {}
    OBVIOUS
  <2>3. Enumerates(<<>>, {})
    BY FS_EmptySet DEF Enumerates
  <2> QED
    BY <2>1, <2>2, <2>3
<1>3. ASSUME NEW m \in 0 .. n - 1, m \in M PROVE m + 1 \in M
  <2>1. Enumerates(g[m], Kept(m))
    BY <1>3
  <2>2. g[m + 1] = IF BitAt(bitmap, m) THEN Append(g[m], m) ELSE g[m]
    <3>1. PICK k \in 0 .. n : k = m + 1
      OBVIOUS
    <3>2. k # 0 /\ k - 1 = m
      BY <3>1
    <3>3. g[k] = KeptStep(g, bitmap, k)
      BY <1>1
    <3> QED
      BY <3>1, <3>2, <3>3 DEF KeptStep
  <2>3. CASE BitAt(bitmap, m)
    <3>1. Kept(m + 1) = Kept(m) \cup {m}
      BY <2>3
    <3>2. \A i \in Kept(m) : i < m
      OBVIOUS
    <3>3. Enumerates(Append(g[m], m), Kept(m) \cup {m})
      <4> HIDE DEF Kept
      <4> QED
        BY <2>1, <3>2, EnumerateMore
    <3>4. Enumerates(g[m + 1], Kept(m + 1))
      BY <2>2, <2>3, <3>1, <3>3
    <3> QED
      BY <3>4
  <2>4. CASE ~BitAt(bitmap, m)
    <3>1. Kept(m + 1) = Kept(m)
      BY <2>4
    <3>2. Enumerates(g[m + 1], Kept(m + 1))
      BY <2>1, <2>2, <2>4, <3>1
    <3> QED
      BY <3>2
  <2> QED
    BY <2>3, <2>4
<1>4. n \in M
  <2>1. \A m \in 0 .. n : m \in M
    <3> HIDE DEF M
    <3> QED
      BY <1>2, <1>3, UpTo
  <2> QED
    BY <2>1
<1> QED
  BY <1>1, <1>4

LEMMA RankedIs ==
    ASSUME NEW S, NEW q, Enumerates(q, S), NEW k \in 1 .. Len(q)
    PROVE  Ranked(S, k) = q[k] /\ q[k] \in S
<1>1. PICK i : i = q[k] /\ i \in S /\ Cardinality(Below(S, i)) = k - 1
  BY DEF Enumerates
<1>2. PICK c : c = Ranked(S, k)
  OBVIOUS
<1>3. c \in S /\ Cardinality(Below(S, c)) = k - 1
  BY <1>1, <1>2 DEF Ranked, Below
<1>4. ASSUME NEW x \in S, NEW y \in S, x < y PROVE Cardinality(Below(S, x)) # Cardinality(Below(S, y))
  <2>1. IsFiniteSet(Below(S, y))
    <3>1. Below(S, y) \subseteq S
      BY DEF Below
    <3> QED
      BY <3>1, FS_Subset DEF Enumerates
  <2>2. Below(S, x) \in SUBSET Below(S, y) /\ x \in Below(S, y) /\ x \notin Below(S, x)
    <3>1. \A j \in S : j \in Nat
      BY DEF Enumerates
    <3> QED
      BY <1>4, <3>1 DEF Below
  <2>3. /\ Cardinality(Below(S, x)) \in Nat
        /\ Cardinality(Below(S, x)) + 1 <= Cardinality(Below(S, y))
    BY <2>1, <2>2, OneMore
  <2> QED
    BY <2>3
<1>5. ~(c < i) /\ ~(i < c)
  BY <1>1, <1>3, <1>4
<1>6. c \in Nat /\ i \in Nat
  BY <1>1, <1>3 DEF Enumerates
<1> QED
  BY <1>1, <1>2, <1>5, <1>6

(* A copy has the cells of the rows that satisfy the filter. *)
LEMMA ColumnCopied ==
    ASSUME LoaderInv, AllHold(columns, NumRows), NEW c \in DOMAIN types, NEW bitmap,
           {i \in 0 .. NumRows - 1 : BitAt(bitmap, i)} = Satisfying(filter)
    PROVE  LET copy == from_inner_to_column(columns[c], bitmap, NumRows)
           IN  /\ copy.ret = Filtered(filter).num_rows
               /\ copy.pages = Filtered(filter).columns[c]
<1>1. PICK S : S = Satisfying(filter)
  OBVIOUS
<1>2. PICK kept : kept = KeptRows(bitmap, NumRows)
  OBVIOUS
<1>3. NumRows \in Nat
  BY CellsOfFile DEF NumRows
<1>4. Enumerates(kept, S)
  BY <1>1, <1>2, <1>3, KeptInOrder
<1>5. PICK n : n = Len(kept) /\ n \in Nat /\ DOMAIN kept = 1 .. n /\ n = Cardinality(S)
  BY <1>4 DEF Enumerates
<1>6. \A i \in S : i \in 0 .. NumRows - 1
  BY <1>1 DEF Satisfying, NumRows
<1>7. PICK x : x = columns[c]
  OBVIOUS
<1>8. Holds(x, c, NumRows)
  BY <1>7 DEF AllHold
<1>9. PICK f : f = [k \in 1 .. n |-> IF is_not_null(x, kept[k]) THEN get(x, kept[k]) ELSE Null]
  OBVIOUS
<1>10. PICK g : g = [k \in 1 .. n |-> world.rows[Ranked(S, k) + 1][c]]
  OBVIOUS
<1>11. ASSUME NEW k \in 1 .. n PROVE f[k] = g[k]
  <2>1. PICK i : i = kept[k] /\ i = Ranked(S, k) /\ i \in S
    BY <1>4, <1>5, RankedIs
  <2>2. /\ is_not_null(x, i) <=> world.rows[i + 1][c] # Null
        /\ world.rows[i + 1][c] # Null => get(x, i) = world.rows[i + 1][c]
    BY <1>6, <1>8, <2>1 DEF Holds
  <2>3. f[k] = IF is_not_null(x, i) THEN get(x, i) ELSE Null
    BY <1>9, <2>1
  <2>4. g[k] = world.rows[i + 1][c]
    BY <1>10, <2>1
  <2> QED
    BY <2>2, <2>3, <2>4
<1>12. f = g
  BY <1>9, <1>10, <1>11
<1>13. from_inner_to_column(x, bitmap, NumRows) = [ret |-> n, pages |-> Paged(f)]
  BY <1>2, <1>5, <1>9 DEF from_inner_to_column
<1>14. Filtered(filter).num_rows = n /\ Filtered(filter).columns[c] = Paged(g)
  BY <1>1, <1>5, <1>10 DEF Filtered
<1> QED
  BY <1>7, <1>12, <1>13, <1>14

-----------------------------------------------------------------------------
(* Where the pages of a table lie in its file.                             *)

LaidOut(s, cols, first, m) ==
    /\ \A c \in 1 .. m :
         /\ first[c] \in Nat
         /\ \A j \in 1 .. Len(cols[c]) :
              first[c] + j - 2 \in 1 .. Len(s) /\ s[first[c] + j - 2] = cols[c][j]
    /\ \A p \in 1 .. Len(s) : \E c \in 1 .. m : \E j \in 1 .. Len(cols[c]) : p = first[c] + j - 2

(* One column more, behind those before. *)
LEMMA LayOutMore ==
    ASSUME NEW V, NEW cols, NEW first, NEW m \in Nat, NEW a \in Seq(V), LaidOut(a, cols, first, m),
           NEW c, c = m + 1, cols[c] \in Seq(V), first[c] = Len(a) + 2
    PROVE  LaidOut(a \o cols[c], cols, first, c)
<1>1. PICK b : b = cols[c] /\ b \in Seq(V)
  OBVIOUS
<1>2. PICK n, k : n = Len(a) /\ k = Len(b) /\ n \in Nat /\ k \in Nat
  <2>1. Len(a) \in Nat /\ Len(b) \in Nat
    BY <1>1
  <2> QED
    BY ONLY <2>1
<1>3. PICK s : s = a \o b
  OBVIOUS
<1>4. /\ Len(s) = n + k
      /\ \A p \in 1 .. n : s[p] = a[p]
      /\ \A p \in 1 .. k : s[n + p] = b[p]
  BY ONLY <1>1, <1>2, <1>3, a \in Seq(V), ConcatenationAt
<1>5. ASSUME NEW d \in 1 .. c
      PROVE  /\ first[d] \in Nat
             /\ \A j \in 1 .. Len(cols[d]) :
                  first[d] + j - 2 \in 1 .. Len(s) /\ s[first[d] + j - 2] = cols[d][j]
  <2>1. CASE d = c
    <3>1. first[d] = n + 2 /\ cols[d] = b
      BY <1>1, <1>2, <2>1
    <3>2. ASSUME NEW j \in 1 .. k PROVE n + j \in 1 .. n + k /\ s[n + j] = b[j] /\ first[d] + j - 2 = n + j
      BY <1>2, <1>4, <3>1
    <3> QED
      BY <1>2, <1>4, <3>1, <3>2
  <2>2. CASE d # c
    <3>1. d \in 1 .. m
      BY <2>2
    <3>2. /\ first[d] \in Nat
          /\ \A j \in 1 .. Len(cols[d]) :
               first[d] + j - 2 \in 1 .. n /\ a[first[d] + j - 2] = cols[d][j]
      BY <1>2, <3>1 DEF LaidOut
    <3> QED
      BY SMTT(30), <1>2, <1>4, <3>2
  <2> QED
    BY <2>1, <2>2
<1>6. ASSUME NEW p \in 1 .. Len(s)
      PROVE  \E d \in 1 .. c : \E j \in 1 .. Len(cols[d]) : p = first[d] + j - 2
  <2>1. CASE p <= n
    <3>1. p \in 1 .. Len(a)
      BY <1>2, <1>4, <2>1
    <3>2. PICK d \in 1 .. m : \E j \in 1 .. Len(cols[d]) : p = first[d] + j - 2
      BY <3>1 DEF LaidOut
    <3> QED
      BY <3>2
  <2>2. CASE p > n
    <3>1. PICK j \in 1 .. k : j = p - n
      <4>1. p - n \in 1 .. k
        BY <1>2, <1>4, <2>2
      <4> QED
        BY ONLY <4>1
    <3>2. p = first[c] + j - 2 /\ j \in 1 .. Len(cols[c]) /\ c \in 1 .. c
      BY SMTT(30), <1>1, <1>2, <1>4, <3>1
    <3> QED
      BY <3>2
  <2> QED
    BY <1>2, <1>4, <2>1, <2>2
<1> QED
  BY <1>1, <1>3, <1>5, <1>6 DEF LaidOut

LEMMA FlattenLayout ==
    ASSUME NEW V, NEW cols \in Seq(Seq(V)), NEW first,
           \A c \in 1 .. Len(cols) :
               first[c] = IF c = 1 THEN 2 ELSE first[c - 1] + Len(cols[c - 1])
    PROVE  FlattenSeq(cols) \in Seq(V) /\ LaidOut(FlattenSeq(cols), cols, first, Len(cols))
<1>1. PICK n : n = Len(cols) /\ n \in Nat
  OBVIOUS
<1>2. PICK h : /\ h[0] = <<>>
               /\ \A m \in 1 .. n : h[m] = h[m - 1] \o cols[m]
               /\ FlattenSeq(cols) = h[n]
  BY <1>1, FlattenSteps
<1> DEFINE S == {m \in Nat : /\ h[m] \in Seq(V) /\ LaidOut(h[m], cols, first, m)
                             /\ m < n => first[m + 1] = Len(h[m]) + 2}
<1>3. 0 \in S
  <2>1. h[0] \in Seq(V) /\ Len(h[0]) = 0
    BY <1>2
  <2>2. LaidOut(h[0], cols, first, 0)
    BY <2>1 DEF LaidOut
  <2>3. 0 < n => first[1] = 2
    BY <1>1
  <2> QED
    BY <2>1, <2>2, <2>3
<1>4. ASSUME NEW m \in 0 .. n - 1, m \in S PROVE m + 1 \in S
  <2>1. PICK c \in 1 .. n : c = m + 1
    BY <1>1
  <2>2. PICK a \in Seq(V) : a = h[m] /\ LaidOut(a, cols, first, m) /\ first[c] = Len(a) + 2
    BY <1>1, <1>4, <2>1
  <2>3. cols[c] \in Seq(V)
    BY <1>1, <2>1
  <2>4. h[c] = a \o cols[c]
    <3>1. c - 1 = m
      BY <2>1
    <3>2. h[c] = h[c - 1] \o cols[c]
      BY <1>2
    <3> QED
      BY <2>2, <3>1, <3>2
  <2>5. LaidOut(h[c], cols, first, c)
    BY <2>1, <2>2, <2>3, <2>4, LayOutMore
  <2>6. h[c] \in Seq(V) /\ Len(h[c]) = Len(a) + Len(cols[c])
    BY <2>2, <2>3, <2>4, Concatenation
  <2>7. c < n => first[c + 1] = Len(h[c]) + 2
    <3>1. ASSUME c < n PROVE first[c + 1] = first[c] + Len(cols[c])
      <4>1. PICK d \in 1 .. Len(cols) : d = c + 1
        BY <1>1, <3>1
      <4>2. d # 1 /\ d - 1 = c
        BY <4>1
      <4> QED
        BY <4>1, <4>2
    <3>2. PICK x \in Nat, y \in Nat : x = Len(a) /\ y = Len(cols[c])
      <4>1. Len(a) \in Nat /\ Len(cols[c]) \in Nat
        BY <2>2, <2>3
      <4> QED
        BY ONLY <4>1
    <3>3. first[c] = x + 2 /\ Len(h[c]) = x + y
      BY <2>2, <2>6, <3>2
    <3>4. c < n => first[c + 1] = (x + 2) + y
      BY <3>1, <3>2, <3>3
    <3> QED
      <4>1. (x + 2) + y = (x + y) + 2
        BY ONLY x \in Nat, y \in Nat
      <4> QED
        BY ONLY <3>3, <3>4, <4>1
  <2>8. c \in Nat /\ h[c] \in Seq(V)
    BY <2>6
  <2>9. c \in S
    BY ONLY <2>5, <2>7, <2>8
  <2> QED
    BY <2>1, <2>9
<1>5. n \in S
  <2>1. \A m \in 0 .. n : m \in S
    <3> HIDE DEF S
    <3> QED
      BY <1>1, <1>3, <1>4, UpTo
  <2> QED
    BY <1>1, <2>1
<1> QED
  BY <1>1, <1>2, <1>5

(* Where the pages of each column start. *)
FirstStep(g, n, c) == IF c = 1 THEN 2 ELSE g[c - 1] + n[c - 1]

LEMMA FirstPageSteps ==
    ASSUME NEW meta, NEW m \in Nat, DOMAIN meta.num_pages = 1 .. m
    PROVE  \A c \in 1 .. m : FirstPage(meta)[c] = FirstStep(FirstPage(meta), meta.num_pages, c)
<1>1. PICK n : n = meta.num_pages
  OBVIOUS
<1> DEFINE IsFn(g) == g = [c \in DOMAIN n |-> FirstStep(g, n, c)]
           IsFirst(g, k) == g = [c \in 1 .. k |-> FirstStep(g, n, c)]
           M == {k \in Nat : \E g : IsFirst(g, k)}
<1>2. 0 \in M
  <2>1. PICK g : g = [c \in 1 .. 0 |-> 0]
    OBVIOUS
  <2>2. IsFirst(g, 0)
    BY <2>1
  <2> QED
    BY <2>2
<1>3. ASSUME NEW k \in 0 .. m - 1, k \in M PROVE k + 1 \in M
  <2>1. PICK g : IsFirst(g, k)
    BY <1>3
  <2>2. PICK h : h = [c \in 1 .. k + 1 |-> FirstStep(g, n, c)]
    OBVIOUS
  <2>3. \A c \in 1 .. k : h[c] = g[c]
    BY <2>1, <2>2
  <2>4. ASSUME NEW c \in 1 .. k + 1 PROVE FirstStep(g, n, c) = FirstStep(h, n, c)
    <3>1. c # 1 => g[c - 1] = h[c - 1]
      BY <2>3
    <3> QED
      BY <3>1 DEF FirstStep
  <2>5. IsFirst(h, k + 1)
    BY <2>2, <2>4
  <2>6. k + 1 \in Nat /\ \E e : IsFirst(e, k + 1)
    BY <2>5
  <2> QED
    BY <2>6
<1>4. m \in M
  <2>1. \A k \in 0 .. m : k \in M
    <3> HIDE DEF M
    <3> QED
      BY <1>2, <1>3, UpTo
  <2> QED
    BY <2>1
<1>5. PICK g : IsFn(g)
  <2>1. PICK g : IsFirst(g, m)
    BY <1>4
  <2>2. IsFn(g)
    BY <1>1, <2>1
  <2> HIDE DEF IsFn
  <2> QED
    BY <2>2
<1>6. PICK e : e = CHOOSE d : IsFn(d)
  OBVIOUS
<1>7. IsFn(e)
  <2> HIDE DEF IsFn
  <2> QED
    BY <1>5, <1>6
<1>8. FirstPage(meta) = e
  BY <1>1, <1>6 DEF FirstPage, FirstStep
<1>9. \A c \in 1 .. m : e[c] = FirstStep(e, n, c)
  BY <1>1, <1>7
<1> QED
  BY <1>1, <1>8, <1>9

(* No page of a column is empty. *)
LEMMA PagesOfCells ==
    ASSUME NEW cells, NEW n \in Nat, Len(cells) = n
    PROVE  \E m \in Nat : /\ DOMAIN Paged(cells) = 1 .. m
                          /\ Paged(cells) = [p \in 1 .. m |-> Paged(cells)[p]]
                          /\ \A p \in 1 .. m : 1 \in DOMAIN Paged(cells)[p]
<1>1. PICK R \in Nat \ {0} : R = PageRows
  BY LoaderAssumption
<1>2. PICK N \in Nat : /\ N = (n + R - 1) \div R
                       /\ N * R <= n + R - 1
  <2>1. n + R - 1 \in Nat
    BY <1>1
  <2>2. PICK N : N = (n + R - 1) \div R
    OBVIOUS
  <2>3. N \in Nat /\ n + R - 1 = R * N + ((n + R - 1) % R) /\ (n + R - 1) % R \in 0 .. R - 1
    BY <2>1, <2>2, DivMod
  <2>4. N * R <= n + R - 1
    BY ONLY <2>3, R \in Nat \ {0}, n \in Nat
  <2> QED
    BY <2>2, <2>3, <2>4
<1>3. Paged(cells) = [p \in 1 .. N |-> SubSeq(cells, (p - 1) * R + 1, Min({p * R, n}))]
  BY <1>1, <1>2 DEF Paged
<1>4. ASSUME NEW p \in 1 .. N PROVE 1 \in DOMAIN Paged(cells)[p]
  <2>1. PICK q \in Nat : q = p - 1
    OBVIOUS
  <2>2. /\ p * R = q * R + R /\ p * R <= N * R /\ q * R \in Nat
    <3>1. q < N /\ p = q + 1
      BY <2>1
    <3> QED
      BY ONLY <3>1, q \in Nat, N \in Nat, R \in Nat \ {0}, MulStep
  <2>3. PICK a \in Nat : a = q * R
    BY <2>2
  <2>4. PICK b \in Nat : b = p * R /\ a + 1 <= b
    BY <2>2, <2>3
  <2>5. a + 1 <= n
    BY ONLY <1>2, <2>2, <2>3, n \in Nat, R \in Nat \ {0}
  <2>6. PICK e \in Nat : e = Min({b, n}) /\ a + 1 <= e
    BY <2>4, <2>5, MinOfTwo
  <2>7. Paged(cells)[p] = SubSeq(cells, a + 1, e)
    BY <1>3, <2>1, <2>3, <2>4, <2>6
  <2>8. SubSeq(cells, a + 1, e) = [i \in 1 .. 1 + e - (a + 1) |-> cells[i + (a + 1) - 1]]
    BY DEF SubSeq
  <2> QED
    BY <2>6, <2>7, <2>8
<1> QED
  BY <1>3, <1>4

(* A table whose columns are sequences of pages, none of them empty. *)
Tabular(t) ==
    /\ t = [num_rows |-> t.num_rows, columns |-> t.columns]
    /\ t.columns = [c \in DOMAIN types |-> t.columns[c]]
    /\ \A c \in DOMAIN types : \E m \in Nat :
         /\ DOMAIN t.columns[c] = 1 .. m
         /\ t.columns[c] = [p \in 1 .. m |-> t.columns[c][p]]
         /\ \A p \in 1 .. m : 1 \in DOMAIN t.columns[c][p]

LEMMA FilteredIsTabular == ASSUME LoaderInv, NEW f PROVE Tabular(Filtered(f))
<1>1. PICK S : S = Satisfying(f)
  OBVIOUS
<1>2. PICK n \in Nat : n = Cardinality(S)
  <2>1. NumRows \in Nat
    BY CellsOfFile DEF NumRows
  <2>2. S \subseteq 0 .. NumRows - 1
    BY <1>1 DEF Satisfying, NumRows
  <2>3. IsFiniteSet(0 .. NumRows - 1)
    BY <2>1, FS_Interval
  <2>4. Cardinality(S) \in Nat
    BY <2>2, <2>3, FS_Subset, FS_CardinalityType
  <2> QED
    BY <2>4
<1>3. PICK t : t = Filtered(f)
  OBVIOUS
<1>4. t = [num_rows |-> n,
           columns  |-> [c \in DOMAIN types |->
                           Paged([k \in 1 .. n |-> world.rows[Ranked(S, k) + 1][c]])]]
  BY <1>1, <1>2, <1>3 DEF Filtered
<1>5. ASSUME NEW c \in DOMAIN types
      PROVE  \E m \in Nat : /\ DOMAIN t.columns[c] = 1 .. m
                            /\ t.columns[c] = [p \in 1 .. m |-> t.columns[c][p]]
                            /\ \A p \in 1 .. m : 1 \in DOMAIN t.columns[c][p]
  <2>1. PICK cells : cells = [k \in 1 .. n |-> world.rows[Ranked(S, k) + 1][c]]
    OBVIOUS
  <2>2. Len(cells) = n
    BY <2>1
  <2>3. t.columns[c] = Paged(cells)
    BY <1>4, <2>1
  <2> QED
    BY <2>2, <2>3, PagesOfCells
<1>6. /\ t = [num_rows |-> t.num_rows, columns |-> t.columns]
      /\ t.columns = [c \in DOMAIN types |-> t.columns[c]]
  BY <1>4
<1>7. Tabular(t)
  BY <1>5, <1>6 DEF Tabular
<1> QED
  BY <1>3, <1>7

(* The file of a table has its meta data and then page by page what the    *)
(* columns have, each from its first page on.                              *)
InFile(d, t, first) ==
    /\ Sequence(d) /\ Len(d) >= 1 /\ d[1] = TableMeta(t)
    /\ \A c \in DOMAIN types : \A j \in 1 .. Len(t.columns[c]) :
         /\ first[c] + j - 1 \in 2 .. Len(d)
         /\ d[first[c] + j - 1] = t.columns[c][j]
    /\ \A p \in 2 .. Len(d) : \E c \in DOMAIN types : \E j \in 1 .. Len(t.columns[c]) :
         p = first[c] + j - 1

LEMMA DumpLayout ==
    ASSUME LoaderInv, NEW t, Tabular(t)
    PROVE  InFile(Dump(t), t, FirstPage(TableMeta(t)))
<1>1. PICK meta : meta = TableMeta(t)
  OBVIOUS
<1>2. PICK cols : cols = t.columns
  OBVIOUS
<1>3. PICK m \in Nat : DOMAIN types = 1 .. m
  BY CellsOfFile
<1>4. cols = [c \in 1 .. m |-> cols[c]]
  BY <1>2, <1>3 DEF Tabular
<1>5. PICK V : V = {meta} \cup {cols[u[1]][u[2]] : u \in (1 .. m) \X Nat}
  OBVIOUS
<1>6. ASSUME NEW c \in 1 .. m PROVE cols[c] \in Seq(V)
  <2>1. PICK n \in Nat : cols[c] = [p \in 1 .. n |-> cols[c][p]]
    BY <1>2, <1>3 DEF Tabular
  <2>2. ASSUME NEW p \in 1 .. n PROVE cols[c][p] \in V
    <3>1. PICK u \in (1 .. m) \X Nat : u = <<c, p>>
      <4>1. <<c, p>> \in (1 .. m) \X Nat
        OBVIOUS
      <4> QED
        BY ONLY <4>1
    <3>2. cols[c][p] = cols[u[1]][u[2]]
      BY <3>1
    <3> QED
      BY <1>5, <3>2
  <2> QED
    BY <2>1, <2>2, IsSeq
<1>7. cols \in Seq(Seq(V)) /\ Len(cols) = m
  BY <1>3, <1>4, <1>6, IsSeq
<1>8. PICK first : first = FirstPage(meta)
  OBVIOUS
<1>9. meta.num_pages = [c \in 1 .. m |-> Len(cols[c])]
  BY <1>1, <1>2, <1>4 DEF TableMeta
<1>10. \A c \in 1 .. m : first[c] = IF c = 1 THEN 2 ELSE first[c - 1] + Len(cols[c - 1])
  <2>1. \A c \in 1 .. m : first[c] = FirstStep(first, meta.num_pages, c)
    BY <1>3, <1>8, <1>9, FirstPageSteps
  <2>2. \A c \in 1 .. m : c # 1 => meta.num_pages[c - 1] = Len(cols[c - 1])
    BY <1>9
  <2> QED
    BY <2>1, <2>2 DEF FirstStep
<1>11. PICK s : s = FlattenSeq(cols)
  OBVIOUS
<1>12. s \in Seq(V) /\ LaidOut(s, cols, first, m)
  BY <1>7, <1>10, <1>11, FlattenLayout
<1>13. PICK d : d = <<meta>> \o s
  OBVIOUS
<1>14. PICK n \in Nat : n = Len(s)
  BY <1>12
<1>15. <<meta>> \in Seq(V) /\ Len(<<meta>>) = 1 /\ <<meta>>[1] = meta
  BY <1>5
<1>16. /\ d \in Seq(V) /\ Len(d) = 1 + n /\ d[1] = meta
       /\ \A p \in 1 .. n : d[1 + p] = s[p]
  BY ONLY <1>12, <1>13, <1>14, <1>15, ConcatenationAt
<1>17. ASSUME NEW c \in 1 .. m, NEW j \in 1 .. Len(cols[c])
       PROVE  first[c] + j - 1 \in 2 .. Len(d) /\ d[first[c] + j - 1] = cols[c][j]
  <2>1. PICK p \in 1 .. n : p = first[c] + j - 2 /\ s[p] = cols[c][j]
    BY <1>12, <1>14 DEF LaidOut
  <2>2. first[c] \in Nat /\ j \in Int
    BY <1>12 DEF LaidOut
  <2>3. first[c] + j - 1 = 1 + p
    BY <2>1, <2>2
  <2> QED
    BY <1>16, <2>1, <2>3
<1>18. ASSUME NEW p \in 2 .. Len(d)
       PROVE  \E c \in 1 .. m : \E j \in 1 .. Len(cols[c]) : p = first[c] + j - 1
  <2>1. PICK q \in 1 .. n : q = p - 1
    <3>1. p - 1 \in 1 .. n
      BY <1>16
    <3> QED
      BY ONLY <3>1
  <2>2. PICK c \in 1 .. m : \E j \in 1 .. Len(cols[c]) : q = first[c] + j - 2
    BY <1>12, <1>14 DEF LaidOut
  <2>3. PICK j \in 1 .. Len(cols[c]) : q = first[c] + j - 2
    BY <2>2
  <2>4. first[c] \in Nat /\ j \in Int /\ p \in Int /\ q \in Int
    BY <1>12 DEF LaidOut
  <2>5. p = first[c] + j - 1
    BY ONLY <2>1, <2>3, <2>4
  <2> QED
    BY <2>5
<1>19. Dump(t) = d
  BY <1>1, <1>2, <1>11, <1>13 DEF Dump
<1>20. Sequence(d) /\ Len(d) >= 1
  BY <1>16 DEF Sequence
<1>21. InFile(d, t, first)
  <2>1. t.columns = cols /\ TableMeta(t) = meta /\ DOMAIN types = 1 .. m
    BY <1>1, <1>2, <1>3
  <2>2. Sequence(d) /\ Len(d) >= 1 /\ d[1] = meta
    BY <1>16, <1>20
  <2>3. \A c \in DOMAIN types : \A j \in 1 .. Len(t.columns[c]) :
          /\ first[c] + j - 1 \in 2 .. Len(d)
          /\ d[first[c] + j - 1] = t.columns[c][j]
    BY ONLY <1>17, <2>1, Zenon
  <2>4. \A p \in 2 .. Len(d) : \E c \in DOMAIN types : \E j \in 1 .. Len(t.columns[c]) :
          p = first[c] + j - 1
    <3> SUFFICES ASSUME NEW p \in 2 .. Len(d)
                 PROVE  \E c \in DOMAIN types : \E j \in 1 .. Len(t.columns[c]) :
                          p = first[c] + j - 1
      OBVIOUS
    <3>1. PICK c \in 1 .. m : \E j \in 1 .. Len(cols[c]) : p = first[c] + j - 1
      BY <1>18
    <3>2. c \in DOMAIN types /\ cols[c] = t.columns[c]
      BY <2>1
    <3> QED
      BY ONLY <3>1, <3>2
  <2> QED
    BY ONLY <2>1, <2>2, <2>3, <2>4, Zenon DEF InFile
<1> QED
  BY <1>1, <1>8, <1>19, <1>21

(* A file whose pages are those of d, as far as it goes, but for the last  *)
(* one when it is torn.                                                    *)
Starts(file, d, torn) ==
    /\ Sequence(file) /\ Len(file) <= Len(d)
    /\ \A k \in 1 .. Len(file) : file[k] # d[k] =>
         torn /\ k > 1 /\ k = Len(file) /\ file[k] = [j \in DOMAIN d[k] |-> Torn]

(* Page j of column c in a mapped file. *)
PageOf(file, first, c, j) ==
    IF first[c] + j - 1 <= Len(file) THEN file[first[c] + j - 1] ELSE Beyond

LEMMA MappedPages ==
    ASSUME NEW t, Tabular(t), NEW file, file[1] = TableMeta(t)
    PROVE  LET first == FirstPage(TableMeta(t))
           IN  mapped(file) = [num_rows |-> t.num_rows,
                               columns  |-> [c \in DOMAIN types |->
                                               [j \in 1 .. Len(t.columns[c]) |-> PageOf(file, first, c, j)]]]
<1>1. PICK meta : meta = TableMeta(t)
  OBVIOUS
<1>2. PICK first : first = FirstPage(meta)
  OBVIOUS
<1>3. DOMAIN t.columns = DOMAIN types
  BY DEF Tabular
<1>4. meta = [num_rows |-> t.num_rows, num_pages |-> [c \in DOMAIN types |-> Len(t.columns[c])]]
  BY <1>1, <1>3 DEF TableMeta
<1>5. mapped(file) =
        [num_rows |-> meta.num_rows,
         columns  |-> [c \in DOMAIN meta.num_pages |->
                         [j \in 1 .. meta.num_pages[c] |-> PageOf(file, first, c, j)]]]
  BY <1>1, <1>2 DEF mapped, PageOf
<1>6. /\ meta.num_rows = t.num_rows /\ DOMAIN meta.num_pages = DOMAIN types
      /\ \A c \in DOMAIN types : meta.num_pages[c] = Len(t.columns[c])
  BY <1>4
<1>7. [c \in DOMAIN meta.num_pages |->
         [j \in 1 .. meta.num_pages[c] |-> PageOf(file, first, c, j)]] =
      [c \in DOMAIN types |-> [j \in 1 .. Len(t.columns[c]) |-> PageOf(file, first, c, j)]]
  BY ONLY <1>6
<1> QED
  BY ONLY <1>1, <1>2, <1>5, <1>6, <1>7

(* A file with nothing but meta data, whose page counts may be too small.  *)
TornHead(file) ==
    /\ Sequence(file) /\ Len(file) = 1
    /\ \E m \in Nat : /\ DOMAIN file[1].num_pages = 1 .. m
                      /\ \A c \in 1 .. m : file[1].num_pages[c] \in Nat

(* A file that is that of d as far as it goes, or only has meta data.      *)
Whole(file, d) == Starts(file, d, TRUE) \/ TornHead(file)

(* Page j of column c in a file, whose place is p, for PagesInPlace.       *)
InPlace(file, p, page, right) ==
    \/ p > Len(file) /\ page = Beyond
    \/ p <= Len(file) /\ page = right
    \/ p = Len(file) /\ Torn \in Range(page)

LEMMA FirstPageBehindMeta ==
    ASSUME NEW meta, NEW m \in Nat, DOMAIN meta.num_pages = 1 .. m,
           \A c \in 1 .. m : meta.num_pages[c] \in Nat
    PROVE  \A c \in 1 .. m : FirstPage(meta)[c] \in Nat /\ FirstPage(meta)[c] >= 2
<1>1. PICK first : first = FirstPage(meta)
  OBVIOUS
<1>2. \A c \in 1 .. m : first[c] = FirstStep(first, meta.num_pages, c)
  BY <1>1, FirstPageSteps
<1> DEFINE S == {k \in Nat : \A c \in 1 .. k : c <= m => first[c] \in Nat /\ first[c] >= 2}
<1>3. 0 \in S
  OBVIOUS
<1>4. ASSUME NEW k \in 0 .. m - 1, k \in S PROVE k + 1 \in S
  <2>1. PICK c \in 1 .. m : c = k + 1
    OBVIOUS
  <2>2. first[c] = IF c = 1 THEN 2 ELSE first[c - 1] + meta.num_pages[c - 1]
    BY <1>2 DEF FirstStep
  <2>3. c # 1 => first[c - 1] \in Nat /\ first[c - 1] >= 2 /\ meta.num_pages[c - 1] \in Nat
    <3>1. SUFFICES ASSUME c # 1 PROVE first[c - 1] \in Nat /\ first[c - 1] >= 2
                                      /\ meta.num_pages[c - 1] \in Nat
      OBVIOUS
    <3>2. c - 1 \in 1 .. k /\ c - 1 <= m /\ c - 1 \in 1 .. m
      BY <2>1, <3>1
    <3> QED
      BY <1>4, <3>2
  <2>4. first[c] \in Nat /\ first[c] >= 2
    BY <2>2, <2>3
  <2>5. \A e \in 1 .. k + 1 : e = c \/ e \in 1 .. k
    BY <2>1
  <2> QED
    BY <1>4, <2>4, <2>5
<1>5. \A k \in 0 .. m : k \in S
  <2> HIDE DEF S
  <2> QED
    BY <1>3, <1>4, UpTo
<1>6. m \in S
  BY <1>5
<1> QED
  BY <1>1, <1>6

(* Of a file without pages nothing is read but what is behind it. *)
LEMMA NothingMapped ==
    ASSUME NEW file, TornHead(file), NEW c \in DOMAIN mapped(file).columns,
           NEW j \in DOMAIN mapped(file).columns[c], NEW right
    PROVE  InPlace(file, FirstPage(file[1])[c] + j - 1, mapped(file).columns[c][j], right)
<1>1. PICK meta : meta = file[1]
  OBVIOUS
<1>2. PICK m \in Nat : /\ DOMAIN meta.num_pages = 1 .. m
                       /\ \A d \in 1 .. m : meta.num_pages[d] \in Nat
  BY <1>1 DEF TornHead
<1>3. PICK first : first = FirstPage(meta)
  OBVIOUS
<1>4. mapped(file).columns =
        [d \in 1 .. m |-> [i \in 1 .. meta.num_pages[d] |-> PageOf(file, first, d, i)]]
  BY <1>1, <1>2, <1>3 DEF mapped, PageOf
<1>5. c \in 1 .. m
  BY <1>4
<1>6. j \in 1 .. meta.num_pages[c] /\ mapped(file).columns[c][j] = PageOf(file, first, c, j)
  BY <1>4, <1>5
<1>7. first[c] \in Nat /\ first[c] >= 2 /\ j \in Int /\ j >= 1
  BY <1>2, <1>3, <1>5, <1>6, FirstPageBehindMeta
<1>8. PICK p \in Int : p = first[c] + j - 1 /\ p > 1
  BY <1>7
<1>9. Len(file) = 1
  BY DEF TornHead
<1>10. PageOf(file, first, c, j) = Beyond
  BY <1>8, <1>9 DEF PageOf
<1> QED
  BY <1>1, <1>3, <1>6, <1>8, <1>9, <1>10 DEF InPlace

(* Every page of a file that has been begun is where its column expects it. *)
LEMMA MappedInPlace ==
    ASSUME LoaderInv, NEW t, Tabular(t), NEW file, Len(file) # 0, Starts(file, Dump(t), TRUE)
    PROVE  /\ TableMeta(mapped(file)) = TableMeta(t)
           /\ \A c \in DOMAIN mapped(file).columns :
                \A j \in DOMAIN mapped(file).columns[c] :
                  InPlace(file, FirstPage(file[1])[c] + j - 1, mapped(file).columns[c][j],
                          t.columns[c][j])
<1>1. PICK d : d = Dump(t)
  OBVIOUS
<1>2. PICK first : first = FirstPage(TableMeta(t))
  OBVIOUS
<1>3. InFile(d, t, first)
  BY <1>1, <1>2, DumpLayout
<1>4. PICK n \in Nat : n = Len(file) /\ n >= 1 /\ n <= Len(d)
  <2>1. Len(file) \in Nat
    BY SequenceLen DEF Starts
  <2> QED
    BY <1>1, <2>1 DEF Starts
<1>5. file[1] = TableMeta(t)
  <2>1. d[1] = TableMeta(t)
    BY <1>3 DEF InFile
  <2>2. 1 \in 1 .. Len(file) /\ ~(1 > 1)
    BY <1>4
  <2>3. file[1] = d[1]
    BY <1>1, <2>2 DEF Starts
  <2> QED
    BY <2>1, <2>3
<1>6. PICK r : r = mapped(file)
  OBVIOUS
<1>7. r = [num_rows |-> t.num_rows,
           columns  |-> [c \in DOMAIN types |->
                           [j \in 1 .. Len(t.columns[c]) |-> PageOf(file, first, c, j)]]]
  BY <1>2, <1>5, <1>6, MappedPages
<1>8. DOMAIN r.columns = DOMAIN types /\ r.num_rows = t.num_rows
  BY <1>7
<1>9. ASSUME NEW c \in DOMAIN types
      PROVE  /\ DOMAIN r.columns[c] = 1 .. Len(t.columns[c])
             /\ Len(r.columns[c]) = Len(t.columns[c])
             /\ \A j \in 1 .. Len(t.columns[c]) : r.columns[c][j] = PageOf(file, first, c, j)
  <2>1. PICK m \in Nat : m = Len(t.columns[c])
    <3>1. PICK m \in Nat : DOMAIN t.columns[c] = 1 .. m /\ t.columns[c] = [p \in 1 .. m |-> t.columns[c][p]]
      BY DEF Tabular
    <3> QED
      BY <3>1
  <2>2. r.columns[c] = [j \in 1 .. m |-> PageOf(file, first, c, j)]
    BY <1>7, <2>1
  <2> QED
    BY <2>1, <2>2
<1>10. TableMeta(r) = TableMeta(t)
  <2>1. [c \in DOMAIN r.columns |-> Len(r.columns[c])] = [c \in DOMAIN t.columns |-> Len(t.columns[c])]
    <3>1. DOMAIN t.columns = DOMAIN types
      BY DEF Tabular
    <3> QED
      BY <1>8, <1>9, <3>1
  <2> QED
    BY <1>8, <2>1 DEF TableMeta
<1>11. ASSUME NEW c \in DOMAIN types, NEW j \in 1 .. Len(t.columns[c])
       PROVE  InPlace(file, first[c] + j - 1, r.columns[c][j], t.columns[c][j])
  <2>1. PICK p \in 2 .. Len(d) : p = first[c] + j - 1 /\ d[p] = t.columns[c][j]
    BY <1>3 DEF InFile
  <2>2. Len(d) \in Nat
    BY <1>3, SequenceLen DEF InFile
  <2>3. r.columns[c][j] = IF p <= n THEN file[p] ELSE Beyond
    BY <1>4, <1>9, <2>1 DEF PageOf
  <2>4. CASE p > n
    BY <1>4, <2>1, <2>2, <2>3, <2>4 DEF InPlace
  <2>5. CASE p <= n /\ file[p] = d[p]
    BY <1>4, <2>1, <2>3, <2>5 DEF InPlace
  <2>6. CASE p <= n /\ file[p] # d[p]
    <3>1. p = n /\ file[p] = [i \in DOMAIN d[p] |-> Torn]
      BY <1>1, <1>4, <2>1, <2>2, <2>6 DEF Starts
    <3>2. 1 \in DOMAIN d[p]
      <4>1. PICK m \in Nat : /\ DOMAIN t.columns[c] = 1 .. m
                             /\ t.columns[c] = [q \in 1 .. m |-> t.columns[c][q]]
                             /\ \A q \in 1 .. m : 1 \in DOMAIN t.columns[c][q]
        BY DEF Tabular
      <4>2. j \in 1 .. m
        BY <4>1
      <4> QED
        BY <2>1, <4>1, <4>2
    <3>3. 1 \in DOMAIN file[p] /\ file[p][1] = Torn
      BY <3>1, <3>2
    <3>4. Torn \in Range(file[p])
      BY ONLY <3>3 DEF Range
    <3> QED
      BY <1>4, <2>1, <2>3, <2>6, <3>1, <3>4 DEF InPlace
  <2> QED
    BY <2>2, <2>4, <2>5, <2>6
<1>12. first = FirstPage(file[1])
  BY <1>2, <1>5
<1> QED
  BY <1>6, <1>8, <1>9, <1>10, <1>11, <1>12

-----------------------------------------------------------------------------
(* Files, caches and scans.                                                *)

NumCols == Len(types)

(* Column c has been copied. *)
Copied(c) == \E t \in Threads : begin_idx(t, NumCols) < c /\ c <= at[t]

CopyShape ==
    /\ table = [num_rows |-> 0, columns |-> table.columns]
    /\ table.columns = [c \in DOMAIN types |-> table.columns[c]]
    /\ at \in [Threads -> Nat]
    /\ \A t \in Threads : begin_idx(t, NumCols) <= at[t] /\ at[t] <= begin_idx(t + 1, NumCols)

CopyRight ==
    /\ {i \in 0 .. NumRows - 1 : BitAt(results, i)} = Satisfying(filter)
    /\ \A c \in DOMAIN types : Copied(c) =>
         /\ table.columns[c] = Filtered(filter).columns[c]
         /\ ret_rows = Filtered(filter).num_rows

(* Every file is that of the right table, as far as it goes. *)
FilesInv ==
    /\ files = [f \in world.filters |-> files[f]]
    /\ \A f \in world.filters :
         files[f] # NoFile /\ LiteralsFit(f) => Whole(files[f], Dump(Filtered(f)))

CachesInv ==
    /\ table_cache # NoTable => table_cache = [c \in DOMAIN types |-> table_cache[c]]
    /\ result_cache # NoTable => result_cache = Filtered(<<>>)

ScanInv ==
    /\ pc # "idle" => filter \in world.filters
    /\ pc \in {"read", "eval", "copy", "create", "dump"} => mode # "cache"
    /\ pc \in {"read", "eval", "copy"} => columns = [c \in DOMAIN types |-> columns[c]]
    /\ pc = "copy" => CopyShape /\ (LiteralsFit(filter) => CopyRight)
    /\ pc \in {"create", "dump", "loaded", "used"} /\ mode # "cache" /\ LiteralsFit(filter) =>
         table = Filtered(filter)
    /\ pc = "dump" /\ LiteralsFit(filter) => Starts(files[filter], Dump(table), FALSE)
    /\ pc \in {"loaded", "used"} /\ mode = "cache" =>
         Readable(filter) /\ table = mapped(files[filter])

LEMMA SameFile ==
    ASSUME UNCHANGED <<world, types>>, NEW f
    PROVE  /\ Filtered(f)' = Filtered(f) /\ Satisfying(f)' = Satisfying(f)
           /\ LiteralsFit(f)' <=> LiteralsFit(f)
BY DEF Filtered, Satisfying, LiteralsFit, Matches

LEMMA ColsOfFile ==
    ASSUME LoaderInv
    PROVE  NumCols \in Nat \ {0} /\ DOMAIN types = 1 .. NumCols
<1>1. types \in Seq(Range(types)) /\ types # <<>>
  BY WorldsAssumption DEF LoaderInv
<1> QED
  BY <1>1 DEF NumCols

LEMMA ColumnsAreMany ==
    ASSUME LoaderInv, NEW cs, cs = [c \in DOMAIN types |-> cs[c]]
    PROVE  Len(cs) = NumCols
<1>1. PICK m \in Nat : m = NumCols /\ DOMAIN types = 1 .. m
  BY ColsOfFile
<1>2. cs = [c \in 1 .. m |-> cs[c]]
  BY <1>1
<1> QED
  BY <1>1, <1>2

LEMMA CopySlice ==
    ASSUME NEW t \in Threads, NEW m \in Nat
    PROVE  /\ begin_idx(t, m) \in 0 .. m /\ begin_idx(t + 1, m) \in 0 .. m
           /\ begin_idx(t, m) <= begin_idx(t + 1, m)
<1>1. t \in Nat /\ t + 1 \in Nat /\ t \in 0 .. NumThreads - 1 /\ NumThreads \in Nat \ {0}
  BY FiltersAssumption DEF Threads
<1>2. /\ begin_idx(t, m) = Bound(t, m, NumThreads)
      /\ begin_idx(t + 1, m) = Bound(t + 1, m, NumThreads)
  BY <1>1, BeginIdx
<1> QED
  BY <1>1, <1>2, BoundRange

LEMMA SomeCopier ==
    ASSUME NEW m \in Nat, NEW k \in 0 .. m - 1
    PROVE  \E t \in Threads : begin_idx(t, m) <= k /\ k < begin_idx(t + 1, m)
<1>1. PICK t \in 0 .. NumThreads - 1 : k \in Slice(t, m, NumThreads)
  BY SlicesCover, FiltersAssumption
<1>2. t \in Threads /\ t \in Nat /\ t + 1 \in Nat
  BY FiltersAssumption DEF Threads
<1>3. /\ begin_idx(t, m) = Bound(t, m, NumThreads)
      /\ begin_idx(t + 1, m) = Bound(t + 1, m, NumThreads)
  BY <1>2, BeginIdx
<1>4. begin_idx(t, m) <= k /\ k < begin_idx(t + 1, m)
  BY <1>1, <1>3 DEF Slice
<1> QED
  BY <1>2, <1>4

(* One page more in a file. *)
LEMMA StartsMore ==
    ASSUME NEW s, NEW d, Starts(s, d, FALSE), Sequence(d), Len(s) < Len(d)
    PROVE  /\ Starts(Append(s, d[Len(s) + 1]), d, FALSE)
           /\ Len(s) >= 1 =>
                Starts(Append(s, [j \in DOMAIN d[Len(s) + 1] |-> Torn]), d, TRUE)
<1>1. PICK n \in Nat : n = Len(s)
  <2>1. Len(s) \in Nat
    BY SequenceLen DEF Starts
  <2> QED
    BY <2>1
<1>2. PICK m \in Nat : m = Len(d) /\ n < m
  <2>1. Len(d) \in Nat
    BY SequenceLen
  <2> QED
    BY <1>1, <2>1
<1>3. DOMAIN s = 1 .. n /\ \A k \in 1 .. n : s[k] = d[k]
  BY <1>1, SequenceLen DEF Starts
<1>4. ASSUME NEW v, NEW torn \in BOOLEAN,
             v # d[n + 1] => torn /\ n >= 1 /\ v = [j \in DOMAIN d[n + 1] |-> Torn]
      PROVE  Starts(Append(s, v), d, torn)
  <2>1. PICK r : r = Append(s, v)
    OBVIOUS
  <2>2. /\ Sequence(r) /\ Len(r) = n + 1
        /\ r[n + 1] = v /\ \A k \in 1 .. n : r[k] = s[k]
    BY <1>1, <1>3, <2>1, SequenceAppend, LongerByOne DEF Starts
  <2>3. ASSUME NEW k \in 1 .. n + 1
        PROVE  r[k] # d[k] => torn /\ k > 1 /\ k = n + 1 /\ r[k] = [j \in DOMAIN d[k] |-> Torn]
    <3>1. CASE k = n + 1
      BY <1>4, <2>2, <3>1
    <3>2. CASE k # n + 1
      BY <1>3, <2>2, <3>2
    <3> QED
      BY <3>1, <3>2
  <2> QED
    BY <1>2, <2>1, <2>2, <2>3 DEF Starts
<1>5. Starts(Append(s, d[n + 1]), d, FALSE)
  BY <1>4
<1>6. n >= 1 => Starts(Append(s, [j \in DOMAIN d[n + 1] |-> Torn]), d, TRUE)
  BY <1>4
<1> QED
  BY <1>1, <1>5, <1>6

LEMMA StartsOrTorn ==
    ASSUME NEW s, NEW d, Starts(s, d, FALSE) PROVE Starts(s, d, TRUE)
BY DEF Starts

LEMMA StartsEmpty ==
    ASSUME NEW d, Sequence(d) PROVE Starts(<<>>, d, FALSE)
<1>1. Len(d) \in Nat
  BY SequenceLen
<1> QED
  BY <1>1, EmptySequence DEF Starts

LEMMA DumpIsSequence ==
    ASSUME LoaderInv, NEW f PROVE Sequence(Dump(Filtered(f)))
<1>1. PICK t : t = Filtered(f) /\ Tabular(t)
  BY FilteredIsTabular
<1>2. InFile(Dump(t), t, FirstPage(TableMeta(t)))
  BY <1>1, DumpLayout
<1> QED
  BY <1>1, <1>2 DEF InFile

(* The bits of the result are the rows that satisfy the filter. *)
LEMMA BitsSatisfy ==
    ASSUME LoaderInv, SizesInv, DataInv, pc = "eval", Evaluated, LiteralsFit(filter),
           NEW bitmap, bitmap = IF filter # <<>> THEN Last(values)
                                ELSE [b \in 1 .. Len(columns[1].bitmap) |-> Bits]
    PROVE  {i \in 0 .. NumRows - 1 : BitAt(bitmap, i)} = Satisfying(filter)
<1>1. NumRows \in Nat /\ AllHold(columns, NumRows)
  BY CellsOfFile DEF NumRows, DataInv
<1>2. CASE filter # <<>>
  <2>1. ASSUME NEW i \in 0 .. NumRows - 1
        PROVE  BitAt(bitmap, i) <=> filter = <<>> \/ EvalExact(filter, world.rows[i + 1])
    <3>1. PICK v : v = EvalExact(filter, world.rows[i + 1])
      OBVIOUS
    <3>2. BitAt(bitmap, i) = v
      BY <1>2, <3>1, BitIsRecord
    <3> QED
      BY <1>2, <3>1, <3>2
  <2> QED
    BY <2>1 DEF Satisfying, NumRows
<1>3. CASE filter = <<>>
  <2>1. Len(columns[1].bitmap) = BytesFor(NumRows)
    BY <1>1, ColsOfFile DEF AllHold, Holds
  <2>2. ASSUME NEW i \in 0 .. NumRows - 1 PROVE BitAt(bitmap, i)
    <3>1. i \div BitsPerByte \in 0 .. BytesFor(NumRows) - 1 /\ i % BitsPerByte \in Bits
      BY <1>1, RowParts
    <3>2. bitmap[i \div BitsPerByte + 1] = Bits
      <4>1. bitmap = [b \in 1 .. BytesFor(NumRows) |-> Bits]
        BY <1>3, <2>1
      <4>2. i \div BitsPerByte + 1 \in 1 .. BytesFor(NumRows)
        <5>1. BytesFor(NumRows) \in Nat
          BY <1>1, BytesGrow
        <5> QED
          BY <3>1, <5>1
      <4> QED
        BY <4>1, <4>2
    <3> QED
      BY <3>1, <3>2 DEF BitAt
  <2> QED
    BY <1>3, <2>2 DEF Satisfying, NumRows
<1> QED
  BY <1>2, <1>3

LEMMA CopyStarts ==
    ASSUME LoaderInv, SizesInv, DataInv, ScanInv, StartCopy
    PROVE  (CopyShape /\ (LiteralsFit(filter) => CopyRight))'
<1>1. /\ pc = "eval" /\ Evaluated
      /\ UNCHANGED <<world, types, columns, filter>>
      /\ results' = IF filter # <<>> THEN Last(values)
                    ELSE [b \in 1 .. Len(columns[1].bitmap) |-> Bits]
      /\ table' = [num_rows |-> 0, columns |-> [c \in DOMAIN columns |-> <<>>]]
      /\ at' = [t \in Threads |-> begin_idx(t, Len(columns))]
  BY DEF StartCopy, loaderVars
<1>2. PICK m \in Nat : m = NumCols /\ DOMAIN types = 1 .. m
  BY ColsOfFile
<1>3. columns = [c \in DOMAIN types |-> columns[c]] /\ Len(columns) = m /\ DOMAIN columns = DOMAIN types
  BY <1>1, <1>2, ColumnsAreMany DEF ScanInv
<1>4. NumCols' = m /\ DOMAIN types' = 1 .. m
  BY <1>1, <1>2 DEF NumCols
<1>5. ASSUME NEW t \in Threads
      PROVE  /\ at'[t] = begin_idx(t, m) /\ begin_idx(t, m) \in Nat
             /\ begin_idx(t, m) <= begin_idx(t + 1, m)
  BY <1>1, <1>3, CopySlice
<1>6. CopyShape'
  <2>1. at' \in [Threads -> Nat]
    BY <1>1, <1>3, <1>5
  <2>2. \A t \in Threads : begin_idx(t, m) <= at'[t] /\ at'[t] <= begin_idx(t + 1, m)
    BY <1>5
  <2>3. /\ table' = [num_rows |-> 0, columns |-> table'.columns]
        /\ table'.columns = [c \in DOMAIN types' |-> table'.columns[c]]
    BY <1>1, <1>3
  <2> QED
    BY <1>4, <2>1, <2>2, <2>3 DEF CopyShape
<1>7. ASSUME NEW c \in DOMAIN types PROVE ~Copied(c)'
  <2>1. \A t \in Threads : ~(begin_idx(t, m) < c /\ c <= at'[t])
    BY <1>2, <1>5
  <2> QED
    BY <1>4, <2>1 DEF Copied
<1>8. ASSUME LiteralsFit(filter)' PROVE CopyRight'
  <2>1. LiteralsFit(filter)
    BY <1>1, <1>8, SameFile DEF LiteralsFit, Matches
  <2>2. PICK B : B = results'
    OBVIOUS
  <2>3. {i \in 0 .. NumRows - 1 : BitAt(B, i)} = Satisfying(filter)
    BY <1>1, <2>1, <2>2, BitsSatisfy
  <2>4. Satisfying(filter)' = Satisfying(filter) /\ NumRows' = NumRows
    BY <1>1, SameFile DEF Satisfying, NumRows
  <2>5. ({i \in 0 .. NumRows - 1 : BitAt(results, i)} = Satisfying(filter))'
    BY <2>2, <2>3, <2>4
  <2> QED
    BY <1>1, <1>7, <2>5 DEF CopyRight
<1> QED
  BY <1>6, <1>8

LEMMA CopyGoesOn ==
    ASSUME LoaderInv, DataInv, ScanInv, NEW t \in Threads, CopyColumn(t)
    PROVE  (CopyShape /\ (LiteralsFit(filter) => CopyRight))'
<1>1. PICK c : c = at[t] + 1
  OBVIOUS
<1>2. PICK copy : copy = from_inner_to_column(columns[c], results, RowsOf(columns[1]))
  OBVIOUS
<1>3. /\ pc = "copy" /\ at[t] < begin_idx(t + 1, Len(columns))
      /\ UNCHANGED <<world, types, columns, filter, results>>
      /\ table' = [table EXCEPT !.columns[c] = copy.pages]
      /\ ret_rows' = copy.ret
      /\ at' = [at EXCEPT ![t] = at[t] + 1]
  BY <1>1, <1>2 DEF CopyColumn, loaderVars
<1>4. PICK m \in Nat : m = NumCols /\ DOMAIN types = 1 .. m /\ m >= 1
  BY ColsOfFile
<1>5. Len(columns) = m /\ AllHold(columns, NumRows)
  BY <1>3, <1>4, ColumnsAreMany DEF ScanInv, DataInv
<1>6. CopyShape
  BY <1>3 DEF ScanInv
<1>7. at[t] \in Nat /\ at[t] < begin_idx(t + 1, m) /\ begin_idx(t, m) <= at[t]
  BY <1>3, <1>4, <1>5, <1>6 DEF CopyShape
<1>8. begin_idx(t + 1, m) \in 0 .. m /\ begin_idx(t, m) \in 0 .. m
  BY <1>4, CopySlice
<1>9. c \in 1 .. m
  BY <1>1, <1>7, <1>8
<1>10. /\ at'[t] = c /\ \A u \in Threads : u # t => at'[u] = at[u]
       /\ at' \in [Threads -> Nat]
  BY <1>1, <1>3, <1>6, <1>7 DEF CopyShape
<1>11. PICK old : /\ old = table.columns /\ old = [d \in 1 .. m |-> old[d]]
                  /\ table = [num_rows |-> 0, columns |-> old]
  BY <1>4, <1>6 DEF CopyShape
<1>12. PICK new : new = [old EXCEPT ![c] = copy.pages]
  OBVIOUS
<1>13. /\ new = [d \in 1 .. m |-> new[d]] /\ new[c] = copy.pages
       /\ \A d \in 1 .. m : d # c => new[d] = old[d]
  BY <1>9, <1>11, <1>12
<1>14. table' = [num_rows |-> 0, columns |-> new]
  BY <1>3, <1>11, <1>12
<1>15. NumCols' = m /\ DOMAIN types' = 1 .. m
  BY <1>3, <1>4 DEF NumCols
<1>16. CopyShape'
  <2>1. ASSUME NEW u \in Threads
        PROVE  begin_idx(u, m) <= at'[u] /\ at'[u] <= begin_idx(u + 1, m)
    <3>1. CASE u = t
      BY <1>1, <1>7, <1>8, <1>10, <3>1
    <3>2. CASE u # t
      BY <1>4, <1>6, <1>10, <3>2 DEF CopyShape
    <3> QED
      BY <3>1, <3>2
  <2>2. /\ table' = [num_rows |-> 0, columns |-> table'.columns]
        /\ table'.columns = [d \in DOMAIN types' |-> table'.columns[d]]
    BY <1>13, <1>14, <1>15
  <2> QED
    BY <1>10, <1>15, <2>1, <2>2 DEF CopyShape
<1>17. ASSUME LiteralsFit(filter)' PROVE CopyRight'
  <2>1. LiteralsFit(filter)
    BY <1>3, <1>17, SameFile DEF LiteralsFit, Matches
  <2>2. CopyRight
    BY <1>3, <2>1 DEF ScanInv
  <2>3. PICK B : B = results
    OBVIOUS
  <2>4. {i \in 0 .. NumRows - 1 : BitAt(B, i)} = Satisfying(filter)
    BY <2>2, <2>3 DEF CopyRight
  <2>5. PICK want : want = Filtered(filter)
    OBVIOUS
  <2>6. RowsOf(columns[1]) = NumRows
    BY <1>4, <1>5 DEF AllHold, Holds
  <2>7. copy.ret = want.num_rows /\ copy.pages = want.columns[c]
    BY <1>2, <1>4, <1>5, <1>9, <2>3, <2>4, <2>5, <2>6, ColumnCopied
  <2>8. ASSUME NEW d \in 1 .. m, Copied(d)'
        PROVE  table'.columns[d] = want.columns[d] /\ ret_rows' = want.num_rows
    <3>1. CASE d = c
      BY <1>3, <1>13, <1>14, <2>7, <3>1
    <3>2. CASE d # c
      <4>1. PICK u \in Threads : begin_idx(u, m) < d /\ d <= at'[u]
        BY <1>15, <2>8 DEF Copied
      <4>2. d <= at[u]
        BY <1>1, <1>7, <1>10, <3>2, <4>1
      <4>3. Copied(d)
        BY <1>4, <4>1, <4>2 DEF Copied
      <4>4. table.columns[d] = want.columns[d]
        BY <1>4, <2>2, <2>5, <4>3 DEF CopyRight
      <4> QED
        BY <1>3, <1>11, <1>13, <1>14, <2>7, <3>2, <4>4
    <3> QED
      BY <3>1, <3>2
  <2>9. Satisfying(filter)' = Satisfying(filter) /\ NumRows' = NumRows /\ Filtered(filter)' = want
    BY <1>3, <2>5, SameFile DEF Satisfying, NumRows, Filtered
  <2>10. ({i \in 0 .. NumRows - 1 : BitAt(results, i)} = Satisfying(filter))'
    BY <1>3, <2>3, <2>4, <2>9
  <2> QED
    BY <1>15, <2>8, <2>9, <2>10 DEF CopyRight
<1> QED
  BY <1>16, <1>17

(* When every worker has ended, every column is copied. *)
LEMMA CopyEnds ==
    ASSUME LoaderInv, ScanInv, FinishCopy, LiteralsFit(filter)
    PROVE  table' = Filtered(filter)
<1>1. /\ pc = "copy" /\ \A t \in Threads : at[t] >= begin_idx(t + 1, Len(columns))
      /\ table' = [table EXCEPT !.num_rows = ret_rows]
  BY DEF FinishCopy
<1>2. PICK m \in Nat : m = NumCols /\ DOMAIN types = 1 .. m /\ m >= 1
  BY ColsOfFile
<1>3. Len(columns) = m
  BY <1>1, <1>2, ColumnsAreMany DEF ScanInv
<1>4. CopyShape /\ CopyRight
  BY <1>1 DEF ScanInv
<1>5. ASSUME NEW c \in 1 .. m PROVE Copied(c)
  <2>1. PICK k \in 0 .. m - 1 : k = c - 1
    <3>1. c - 1 \in 0 .. m - 1
      OBVIOUS
    <3> QED
      BY ONLY <3>1
  <2>2. PICK t \in Threads : begin_idx(t, m) <= k /\ k < begin_idx(t + 1, m)
    BY SomeCopier
  <2>3. /\ begin_idx(t, m) \in 0 .. m /\ begin_idx(t + 1, m) \in 0 .. m
        /\ at[t] \in Nat /\ at[t] >= begin_idx(t + 1, m)
    BY <1>1, <1>3, <1>4, CopySlice DEF CopyShape
  <2>4. begin_idx(t, m) < c /\ c <= at[t]
    BY <2>1, <2>2, <2>3
  <2> QED
    BY <1>2, <2>4 DEF Copied
<1>6. PICK want : want = Filtered(filter) /\ Tabular(want)
  BY FilteredIsTabular
<1>7. /\ \A c \in 1 .. m : table.columns[c] = want.columns[c]
      /\ ret_rows = want.num_rows
  <2>1. \A c \in 1 .. m : table.columns[c] = want.columns[c] /\ ret_rows = want.num_rows
    BY <1>2, <1>4, <1>5, <1>6 DEF CopyRight
  <2> QED
    BY <1>2, <2>1
<1>8. table.columns = [c \in 1 .. m |-> table.columns[c]]
  BY <1>2, <1>4 DEF CopyShape
<1>9. want = [num_rows |-> want.num_rows, columns |-> want.columns]
  BY <1>6 DEF Tabular
<1>10. want.columns = [c \in 1 .. m |-> want.columns[c]]
  BY <1>2, <1>6 DEF Tabular
<1>11. table.columns = want.columns
  BY <1>7, <1>8, <1>10
<1>12. table = [num_rows |-> 0, columns |-> table.columns]
  BY <1>4 DEF CopyShape
<1>13. table' = [num_rows |-> ret_rows, columns |-> table.columns]
  BY <1>1, <1>12
<1> QED
  BY <1>6, <1>7, <1>9, <1>11, <1>13

-----------------------------------------------------------------------------
(* The steps, and the theorems.                                            *)

LEMMA SameDump ==
    ASSUME UNCHANGED <<world, types>>, NEW f
    PROVE  Dump(Filtered(f))' = Dump(Filtered(f))
<1>1. PICK t : t = Filtered(f)
  OBVIOUS
<1>2. Filtered(f)' = t
  BY <1>1, SameFile
<1> QED
  BY <1>1, <1>2 DEF Dump, TableMeta

LEMMA FilesKeep ==
    ASSUME FilesInv, UNCHANGED <<world, types, files>>
    PROVE  FilesInv'
<1>1. ASSUME NEW f \in world.filters, files[f] # NoFile, LiteralsFit(f)'
      PROVE  Whole(files[f], Dump(Filtered(f)))'
  <2>1. LiteralsFit(f)
    BY <1>1, SameFile
  <2>2. PICK d : d = Dump(Filtered(f))
    OBVIOUS
  <2>3. Dump(Filtered(f))' = d
    BY <2>2, SameDump
  <2>4. PICK s : s = files[f] /\ Whole(s, d)
    BY <1>1, <2>1, <2>2 DEF FilesInv
  <2> QED
    BY <1>1, <2>3, <2>4 DEF Whole, Starts, TornHead
<1> QED
  BY <1>1 DEF FilesInv

LEMMA CachesKeep ==
    ASSUME CachesInv, UNCHANGED <<world, types, cacheVars>>
    PROVE  CachesInv'
<1>1. Filtered(<<>>)' = Filtered(<<>>)
  BY SameFile
<1> QED
  BY <1>1 DEF CachesInv, cacheVars

(* One file is written. *)
LEMMA FileWritten ==
    ASSUME FilesInv, UNCHANGED <<world, types>>, NEW f \in world.filters, NEW s,
           files' = [files EXCEPT ![f] = s],
           LiteralsFit(f) => Whole(s, Dump(Filtered(f)))
    PROVE  FilesInv' /\ files'[f] = s
<1>1. files = [g \in world.filters |-> files[g]]
  BY DEF FilesInv
<1>2. /\ files' = [g \in world.filters |-> files'[g]] /\ files'[f] = s
      /\ \A g \in world.filters : g # f => files'[g] = files[g]
  BY <1>1
<1>3. ASSUME NEW g \in world.filters, files'[g] # NoFile, LiteralsFit(g)'
      PROVE  Whole(files[g], Dump(Filtered(g)))'
  <2>1. LiteralsFit(g)
    BY <1>3, SameFile
  <2>2. PICK d : d = Dump(Filtered(g))
    OBVIOUS
  <2>3. Dump(Filtered(g))' = d
    BY <2>2, SameDump
  <2>4. PICK r : r = files'[g] /\ Whole(r, d)
    <3>1. CASE g = f
      BY <1>2, <2>1, <2>2, <3>1
    <3>2. CASE g # f
      BY <1>2, <1>3, <2>1, <2>2, <3>2 DEF FilesInv
    <3> QED
      BY <3>1, <3>2
  <2> QED
    BY <2>3, <2>4 DEF Whole, Starts, TornHead
<1> QED
  BY <1>2, <1>3 DEF FilesInv

(* The next page of a file under way. *)
LEMMA PageWritten ==
    ASSUME LoaderInv, FilesInv, ScanInv, UNCHANGED <<world, types>>, pc = "dump",
           LiteralsFit(filter) => Len(files[filter]) < Len(Dump(table)), NEW page,
           files' = [files EXCEPT ![filter] = Append(files[filter], page)],
           \/ page = Dump(table)[Len(files[filter]) + 1]
           \/ /\ Len(files[filter]) >= 1
              /\ page = [k \in DOMAIN Dump(table)[Len(files[filter]) + 1] |-> Torn]
    PROVE  /\ FilesInv'
           /\ LiteralsFit(filter) /\ page = Dump(table)[Len(files[filter]) + 1] =>
                Starts(files'[filter], Dump(table), FALSE)
<1>1. PICK f \in world.filters : f = filter
  BY DEF ScanInv
<1>2. PICK s : s = files[f]
  OBVIOUS
<1>3. PICK d : d = Dump(table)
  OBVIOUS
<1>4. PICK r : r = Append(s, page)
  OBVIOUS
<1>5. files' = [files EXCEPT ![f] = r] /\ (LiteralsFit(f) => Len(s) < Len(d))
  BY <1>1, <1>2, <1>3, <1>4
<1>6. ASSUME LiteralsFit(f)
      PROVE  /\ Starts(r, Dump(Filtered(f)), TRUE)
             /\ page = d[Len(s) + 1] => Starts(r, d, FALSE)
  <2>1. table = Filtered(f) /\ Starts(s, d, FALSE)
    BY <1>1, <1>2, <1>3, <1>6 DEF ScanInv
  <2>2. d = Dump(Filtered(f)) /\ Sequence(d)
    BY <1>3, <2>1, DumpIsSequence
  <2>3. /\ Starts(Append(s, d[Len(s) + 1]), d, FALSE)
        /\ Len(s) >= 1 => Starts(Append(s, [j \in DOMAIN d[Len(s) + 1] |-> Torn]), d, TRUE)
    BY <1>5, <1>6, <2>1, <2>2, StartsMore
  <2>4. CASE page = d[Len(s) + 1]
    BY <1>4, <2>2, <2>3, <2>4, StartsOrTorn
  <2>5. CASE page # d[Len(s) + 1]
    <3>1. Len(s) >= 1 /\ page = [j \in DOMAIN d[Len(s) + 1] |-> Torn]
      BY <1>1, <1>2, <1>3, <2>5
    <3> QED
      BY <1>4, <2>2, <2>3, <2>5, <3>1
  <2> QED
    BY <2>4, <2>5
<1>7. FilesInv' /\ files'[f] = r
  <2>1. LiteralsFit(f) => Whole(r, Dump(Filtered(f)))
    BY <1>6 DEF Whole
  <2> QED
    BY <1>5, <2>1, FileWritten
<1> QED
  BY <1>1, <1>2, <1>3, <1>6, <1>7

(* A torn page of meta data has page counts. *)
LEMMA HeadIsTorn ==
    ASSUME LoaderInv, NEW t, Tabular(t), NEW meta \in TornMeta(TableMeta(t))
    PROVE  TornHead(<<meta>>)
<1>1. PICK m \in Nat : DOMAIN types = 1 .. m
  BY CellsOfFile
<1>2. PICK whole : whole = TableMeta(t)
  OBVIOUS
<1>3. PICK counts : counts = [c \in 1 .. m |-> Len(t.columns[c])]
  OBVIOUS
<1>4. whole = [num_rows |-> t.num_rows, num_pages |-> counts]
  BY <1>1, <1>2, <1>3 DEF TableMeta, Tabular
<1>5. \A c \in 1 .. m : counts[c] \in Nat
  <2>1. ASSUME NEW c \in 1 .. m PROVE Len(t.columns[c]) \in Nat
    <3>1. PICK k \in Nat : DOMAIN t.columns[c] = 1 .. k /\ t.columns[c] = [p \in 1 .. k |-> t.columns[c][p]]
      BY <1>1 DEF Tabular
    <3> QED
      BY <3>1
  <2> QED
    BY <1>3, <2>1
<1>6. \E k \in Nat : /\ DOMAIN meta.num_pages = 1 .. k
                    /\ \A c \in 1 .. k : meta.num_pages[c] \in Nat
  <2>1. CASE \E n : meta = [num_rows |-> n, num_pages |-> <<>>]
    <3>1. DOMAIN <<>> = 1 .. 0
      OBVIOUS
    <3>2. meta.num_pages = <<>>
      BY <2>1
    <3> QED
      BY <3>1, <3>2
  <2>2. CASE \E c \in DOMAIN counts : \E n \in LowBytes(counts[c]) :
               meta = [whole EXCEPT !.num_pages = UpToField(counts, c, n)]
    <3>5. PICK c \in 1 .. m : \E n \in LowBytes(counts[c]) :
            meta = [whole EXCEPT !.num_pages = UpToField(counts, c, n)]
      BY <1>3, <2>2
    <3>1. PICK n \in LowBytes(counts[c]) :
            meta = [whole EXCEPT !.num_pages = UpToField(counts, c, n)]
      BY <3>5
    <3>2. n \in Nat
      <4>1. PICK v \in Nat : v = counts[c]
        BY <1>5
      <4>2. v % 1 \in Nat /\ v % 256 \in Nat /\ v % 65536 \in Nat /\ v % 16777216 \in Nat
        OBVIOUS
      <4>3. 256 * 256 = 65536 /\ 256 * 256 * 256 = 16777216
        OBVIOUS
      <4> QED
        BY <4>1, <4>2, <4>3 DEF LowBytes
    <3>3. meta.num_pages = [d \in 1 .. m |-> IF d < c THEN counts[d] ELSE IF d = c THEN n ELSE 0]
      BY <1>3, <1>4, <3>1 DEF UpToField
    <3>4. DOMAIN meta.num_pages = 1 .. m /\ \A d \in 1 .. m : meta.num_pages[d] \in Nat
      BY <1>5, <3>2, <3>3
    <3> QED
      BY <3>4
  <2>3. meta \in TornMeta(whole) /\ whole.num_pages = counts
    BY <1>2, <1>4
  <2>4. \/ \E n : meta = [num_rows |-> n, num_pages |-> <<>>]
        \/ \E c \in DOMAIN whole.num_pages : \E n \in LowBytes(whole.num_pages[c]) :
             meta = [whole EXCEPT !.num_pages = UpToField(whole.num_pages, c, n)]
    BY ONLY <2>3 DEF TornMeta
  <2> QED
    BY <2>1, <2>2, <2>3, <2>4
<1>7. Sequence(<<meta>>) /\ Len(<<meta>>) = 1 /\ <<meta>>[1] = meta
  <2>1. <<meta>> \in Seq({meta})
    OBVIOUS
  <2> QED
    BY <2>1 DEF Sequence
<1> QED
  BY <1>6, <1>7 DEF TornHead

TableInv == FilesInv /\ CachesInv /\ ScanInv

(* A scan begins. *)
LEMMA CallsStep ==
    ASSUME LoaderInv, TableInv, NEW f \in world.filters,
           \/ ResultCacheHit(f) \/ TableCacheHit(f) \/ CacheMiss(f)
           \/ SkipFile(f) \/ from_cache(f) \/ FromCacheThrows(f)
    PROVE  TableInv'
<1>1. /\ Calls(f) /\ filter' = f
      /\ UNCHANGED <<world, types, files, mode, cacheVars>>
  BY DEF ResultCacheHit, TableCacheHit, CacheMiss, SkipFile, from_cache,
         FromCacheThrows, Calls
<1>2. FilesInv' /\ CachesInv'
  BY <1>1, FilesKeep, CachesKeep DEF TableInv
<1>3. CASE ResultCacheHit(f)
  <2>1. /\ f = <<>> /\ table' = result_cache /\ result_cache # NoTable
        /\ pc' = AfterCsv /\ mode # "cache"
    BY <1>3 DEF ResultCacheHit, InResultCache, NeedsCsv
  <2>2. pc' \in {"create", "loaded"} /\ mode' # "cache"
    BY <1>1, <2>1 DEF AfterCsv
  <2>3. table' = Filtered(<<>>)
    BY <2>1 DEF TableInv, CachesInv
  <2>4. (table = Filtered(filter))'
    <3>1. PICK t : t = Filtered(f)
      OBVIOUS
    <3>2. Filtered(filter)' = t
      BY <1>1, <3>1 DEF Filtered, Satisfying
    <3> QED
      BY <2>1, <2>3, <3>1, <3>2
  <2>5. ScanInv'
    BY <1>1, <2>2, <2>4 DEF ScanInv
  <2> QED
    BY <1>2, <2>5 DEF TableInv
<1>4. CASE TableCacheHit(f) \/ CacheMiss(f)
  <2>1. mode' # "cache" /\ pc' \in {"read", "eval"}
    BY <1>1, <1>4 DEF TableCacheHit, CacheMiss, NeedsCsv
  <2>2. columns' = [c \in DOMAIN types |-> columns'[c]]
    BY <1>4 DEF TableCacheHit, CacheMiss, TableInv, CachesInv
  <2>3. ScanInv'
    BY <1>1, <2>1, <2>2 DEF ScanInv
  <2> QED
    BY <1>2, <2>3 DEF TableInv
<1>5. CASE SkipFile(f)
  <2>1. pc' = "idle"
    BY <1>5 DEF SkipFile, Calls
  <2>2. ScanInv'
    BY <2>1 DEF ScanInv
  <2> QED
    BY <1>2, <2>2 DEF TableInv
<1>6. CASE from_cache(f)
  <2>1. /\ mode' = "cache" /\ pc' = "loaded" /\ Readable(f)
        /\ table' = mapped(files[f])
    BY <1>1, <1>6 DEF from_cache
  <2>2. Readable(filter)' /\ (table = mapped(files[filter]))'
    BY <1>1, <2>1 DEF Readable
  <2>3. ScanInv'
    BY <1>1, <2>1, <2>2 DEF ScanInv
  <2> QED
    BY <1>2, <2>3 DEF TableInv
<1>7. CASE FromCacheThrows(f)
  <2>1. pc' = "thrown"
    BY <1>7 DEF FromCacheThrows
  <2>2. ScanInv'
    BY <1>1, <2>1 DEF ScanInv
  <2> QED
    BY <1>2, <2>2 DEF TableInv
<1> QED
  BY <1>3, <1>4, <1>5, <1>6, <1>7

(* from_csv parses, filters and copies. *)
LEMMA CsvStep ==
    ASSUME LoaderInv, SizesInv, DataInv, TableInv,
           \/ AddRecord \/ EndOfFile \/ Filter \/ FromCsvThrows \/ StartCopy
           \/ \E t \in Threads : CopyColumn(t)
           \/ FinishCopy
    PROVE  TableInv'
<1>1. /\ pc \in {"read", "eval", "copy"}
      /\ UNCHANGED <<world, types, files, mode, filter>>
  BY DEF AddRecord, EndOfFile, Filter, FromCsvThrows, EvalStep, StartComparison, StartIsNull,
         EvalIsNotNull, StartLogical, StartPass, ApplyTask, FinishNode, Evaluating, StartCopy,
         CopyColumn, FinishCopy, evalVars, loaderVars
<1>2. FilesInv'
  BY <1>1, FilesKeep DEF TableInv
<1>3. /\ filter' \in world'.filters /\ mode' # "cache"
      /\ columns = [c \in DOMAIN types |-> columns[c]]
  BY <1>1 DEF TableInv, ScanInv
<1>4. CASE AddRecord \/ Filter
  <2>1. pc' \in {"read", "eval"} /\ UNCHANGED cacheVars
    BY <1>4 DEF AddRecord, Filter
  <2>2. columns' = [c \in DOMAIN types' |-> columns'[c]]
    <3>1. CASE AddRecord
      <4> DEFINE record == world.rows[RowsOf(columns[1]) + 1]
      <4>1. columns' = [c \in DOMAIN columns |-> push_back(columns[c], record[c])]
        BY <3>1 DEF AddRecord
      <4> HIDE DEF record
      <4>2. DOMAIN columns = DOMAIN types
        BY <1>3
      <4> QED
        BY <1>1, <4>1, <4>2
    <3>2. CASE Filter
      <4>1. UNCHANGED columns
        BY <3>2 DEF Filter, EvalStep, StartComparison, StartIsNull, EvalIsNotNull,
                StartLogical, ApplyTask, FinishNode
      <4> QED
        BY <1>1, <1>3, <4>1
    <3> QED
      BY <1>4, <3>1, <3>2
  <2>3. CachesInv' /\ ScanInv'
    BY <1>1, <1>3, <2>1, <2>2, CachesKeep DEF TableInv, ScanInv
  <2> QED
    BY <1>2, <2>3 DEF TableInv
<1>5. CASE EndOfFile
  <2>1. pc' = "eval" /\ table_cache' = columns /\ UNCHANGED <<columns, result_cache>>
    BY <1>5 DEF EndOfFile
  <2>2. CachesInv'
    BY <1>1, <1>3, <2>1, SameFile DEF TableInv, CachesInv
  <2>3. ScanInv'
    BY <1>1, <1>3, <2>1 DEF ScanInv
  <2> QED
    BY <1>2, <2>2, <2>3 DEF TableInv
<1>6. ASSUME (CopyShape /\ (LiteralsFit(filter) => CopyRight))', pc' = "copy",
             UNCHANGED <<columns, cacheVars>>
      PROVE  TableInv'
  <2>1. CachesInv'
    BY <1>1, <1>6, CachesKeep DEF TableInv
  <2>2. ScanInv'
    BY <1>1, <1>3, <1>6 DEF ScanInv
  <2> QED
    BY <1>2, <2>1, <2>2 DEF TableInv
<1>7. CASE StartCopy
  BY <1>6, <1>7, CopyStarts DEF TableInv, StartCopy
<1>8. ASSUME NEW t \in Threads, CopyColumn(t) PROVE TableInv'
  BY <1>6, <1>8, CopyGoesOn DEF TableInv, CopyColumn
<1>9. CASE FinishCopy
  <2>1. /\ result_cache' = IF filter = <<>> /\ result_cache = NoTable
                           THEN table' ELSE result_cache
        /\ pc' = AfterCsv /\ UNCHANGED table_cache
    BY <1>9 DEF FinishCopy
  <2>2. LiteralsFit(filter) => table' = Filtered(filter)
    BY <1>9, CopyEnds DEF TableInv
  <2>3. PICK t : t = table'
    OBVIOUS
  <2>4. LiteralsFit(<<>>)
    <3>1. DOMAIN <<>> = {}
      OBVIOUS
    <3> QED
      BY <3>1 DEF LiteralsFit
  <2>5. result_cache' # NoTable => result_cache' = Filtered(<<>>)
    BY <2>1, <2>2, <2>4 DEF TableInv, CachesInv
  <2>6. CachesInv'
    BY <1>1, <2>1, <2>5, SameFile DEF TableInv, CachesInv
  <2>7. (LiteralsFit(filter) => table = Filtered(filter))'
    <3>1. PICK f : f = filter
      OBVIOUS
    <3>2. LiteralsFit(filter)' <=> LiteralsFit(f)
      BY <1>1, <3>1 DEF LiteralsFit, Matches
    <3>3. Filtered(filter)' = Filtered(f)
      BY <1>1, <3>1 DEF Filtered, Satisfying
    <3> QED
      BY <2>2, <3>1, <3>2, <3>3
  <2>8. pc' \in {"create", "loaded"}
    BY <2>1 DEF AfterCsv
  <2>9. ScanInv'
    BY <1>1, <1>3, <2>7, <2>8 DEF ScanInv
  <2> QED
    BY <1>2, <2>6, <2>9 DEF TableInv
<1>10. CASE FromCsvThrows
  <2>1. pc' = "thrown" /\ UNCHANGED cacheVars
    BY <1>10 DEF FromCsvThrows
  <2>2. CachesInv' /\ ScanInv'
    BY <1>1, <1>3, <2>1, CachesKeep DEF TableInv, ScanInv
  <2> QED
    BY <1>2, <2>2 DEF TableInv
<1> QED
  BY SMTT(30), <1>4, <1>5, <1>7, <1>8, <1>9, <1>10

(* The cache file is written. *)
LEMMA FileStep ==
    ASSUME LoaderInv, TableInv, CreateFile \/ WritePage \/ CloseFile
    PROVE  TableInv'
<1>1. /\ pc \in {"create", "dump"} /\ pc' \in {"dump", "loaded"}
      /\ UNCHANGED <<world, types, mode, filter, table, cacheVars>>
  BY DEF CreateFile, WritePage, CloseFile, evalVars, loaderVars, outVars
<1>2. CachesInv'
  BY <1>1, CachesKeep DEF TableInv
<1>3. PICK f \in world.filters : f = filter /\ filter' = f
  BY <1>1 DEF TableInv, ScanInv
<1>4. mode' # "cache" /\ (LiteralsFit(f) => table = Filtered(f))
  BY <1>1, <1>3 DEF TableInv, ScanInv
<1>5. PICK d : d = Dump(table)
  OBVIOUS
<1>6. /\ pc' = "dump" => FilesInv' /\ (LiteralsFit(f) => Starts(files'[f], d, FALSE))
      /\ pc' = "loaded" => FilesInv'
  <2>1. CASE CreateFile
    <3>1. PICK s : s = <<>>
      OBVIOUS
    <3>2. files' = [files EXCEPT ![f] = s] /\ pc' = "dump"
      BY <1>3, <2>1, <3>1 DEF CreateFile, request
    <3>3. ASSUME LiteralsFit(f)
          PROVE  Starts(s, d, FALSE) /\ Whole(s, Dump(Filtered(f)))
      <4>1. d = Dump(Filtered(f)) /\ Sequence(d)
        BY <1>4, <1>5, <3>3, DumpIsSequence
      <4> QED
        BY <3>1, <4>1, StartsEmpty, StartsOrTorn DEF Whole
    <3>4. FilesInv' /\ files'[f] = s
      BY <1>1, <3>2, <3>3, FileWritten DEF TableInv
    <3> QED
      BY <3>2, <3>3, <3>4
  <2>2. CASE WritePage
    <3>1. PICK page : page = d[Len(files[filter]) + 1]
      OBVIOUS
    <3>2. /\ pc = "dump" /\ pc' = "dump" /\ Len(files[filter]) < Len(d)
          /\ files' = [files EXCEPT ![filter] = Append(files[filter], page)]
      BY <1>5, <2>2, <3>1 DEF WritePage, request
    <3>3. /\ FilesInv'
          /\ LiteralsFit(filter) => Starts(files'[filter], d, FALSE)
      BY <1>1, <1>5, <3>1, <3>2, PageWritten DEF TableInv
    <3> QED
      BY <1>3, <3>2, <3>3
  <2>3. CASE CloseFile
    <3>1. pc' = "loaded" /\ UNCHANGED files
      BY <2>3 DEF CloseFile, loaderVars
    <3> QED
      BY <1>1, <3>1, FilesKeep DEF TableInv
  <2> QED
    BY <2>1, <2>2, <2>3
<1>7. LiteralsFit(filter)' => LiteralsFit(f)
  BY <1>1, <1>3 DEF LiteralsFit, Matches
<1>8. (LiteralsFit(filter) => table = Filtered(filter))'
  <2>1. Filtered(filter)' = Filtered(f)
    BY <1>1, <1>3 DEF Filtered, Satisfying
  <2> QED
    BY <1>1, <1>4, <1>7, <2>1
<1>9. (pc = "dump" /\ LiteralsFit(filter) => Starts(files[filter], Dump(table), FALSE))'
  <2>1. Dump(table)' = d
    BY <1>1, <1>5 DEF Dump, TableMeta
  <2> QED
    BY <1>3, <1>6, <1>7, <2>1 DEF Starts
<1>10. ScanInv'
  BY <1>1, <1>3, <1>4, <1>8, <1>9 DEF ScanInv
<1> QED
  BY <1>1, <1>2, <1>6, <1>10 DEF TableInv

(* The scan ends, or the process. *)
LEMMA EndStep ==
    ASSUME LoaderInv, TableInv,
           UseTable \/ NextScan \/ \E m \in world.modes : NextProcess(m) \/ Kill(m)
    PROVE  TableInv'
<1>1. CASE UseTable
  <2>1. /\ pc = "loaded" /\ pc' \in {"used", "fault"}
        /\ UNCHANGED <<world, types, files, mode, filter, table, cacheVars>>
    BY <1>1 DEF UseTable, evalVars, loaderVars, outVars
  <2>2. FilesInv' /\ CachesInv'
    BY <2>1, FilesKeep, CachesKeep DEF TableInv
  <2>3. PICK f \in world.filters : f = filter /\ filter' = f
    BY <2>1 DEF TableInv, ScanInv
  <2>5. ScanInv'
    <3>1. (mode # "cache" /\ LiteralsFit(filter) => table = Filtered(filter))'
      <4>1. LiteralsFit(filter)' => LiteralsFit(f)
        BY <2>1, <2>3 DEF LiteralsFit, Matches
      <4>2. Filtered(filter)' = Filtered(f)
        BY <2>1, <2>3 DEF Filtered, Satisfying
      <4>3. mode # "cache" /\ LiteralsFit(f) => table = Filtered(f)
        BY <2>1, <2>3 DEF TableInv, ScanInv
      <4> QED
        BY <2>1, <4>1, <4>2, <4>3
    <3>2. (mode = "cache" => Readable(filter) /\ table = mapped(files[filter]))'
      BY <2>1 DEF TableInv, ScanInv, Readable
    <3>4. pc' \in {"used", "fault"} /\ filter' \in world'.filters
      BY <2>1, <2>3
    <3> QED
      BY <3>1, <3>2, <3>4 DEF ScanInv
  <2> QED
    BY <2>2, <2>5 DEF TableInv
<1>2. CASE NextScan
  <2>1. pc' = "idle" /\ UNCHANGED <<world, types, files, cacheVars>>
    BY <1>2 DEF NextScan, loaderVars
  <2>2. FilesInv' /\ CachesInv'
    BY <2>1, FilesKeep, CachesKeep DEF TableInv
  <2>3. ScanInv'
    BY <2>1 DEF ScanInv
  <2> QED
    BY <2>2, <2>3 DEF TableInv
<1>3. ASSUME NEW m, NextProcess(m) \/ Kill(m) PROVE TableInv'
  <2>1. /\ pc' = "idle" /\ UNCHANGED <<world, types>>
        /\ table_cache' = NoTable /\ result_cache' = NoTable
    BY <1>3 DEF NextProcess, Kill, NewProcess
  <2>2. CachesInv' /\ ScanInv'
    BY <2>1 DEF CachesInv, ScanInv
  <2>3. CASE UNCHANGED files
    BY <2>1, <2>2, <2>3, FilesKeep DEF TableInv
  <2>4. CASE files[filter] = <<>> /\ ~UNCHANGED files
    <3>1. /\ Kill(m) /\ pc = "dump"
          /\ \/ \E meta \in TornMeta(TableMeta(table)) :
                   files' = [files EXCEPT ![filter] = <<meta>>]
             \/ Len(files[filter]) \in 1 .. Len(Dump(table)) - 1
      BY <1>3, <2>4 DEF NextProcess, Kill, request
    <3>2. PICK meta \in TornMeta(TableMeta(table)) :
            files' = [files EXCEPT ![filter] = <<meta>>]
      <4>1. Len(<<>>) = 0 /\ \A n : 0 \notin 1 .. n
        OBVIOUS
      <4> QED
        BY <2>4, <3>1, <4>1
    <3>3. PICK f \in world.filters : f = filter
      BY <3>1 DEF TableInv, ScanInv
    <3>4. LiteralsFit(f) => TornHead(<<meta>>)
      <4>1. SUFFICES ASSUME LiteralsFit(f) PROVE TornHead(<<meta>>)
        OBVIOUS
      <4>2. table = Filtered(filter)
        BY <3>1, <3>3, <4>1 DEF TableInv, ScanInv
      <4> QED
        BY <3>2, <4>2, FilteredIsTabular, HeadIsTorn
    <3>5. FilesInv'
      BY <2>1, <3>2, <3>3, <3>4, FileWritten DEF TableInv, Whole
    <3> QED
      BY <2>2, <3>5 DEF TableInv
  <2>5. CASE files[filter] # <<>> /\ ~UNCHANGED files
    <3>1. PICK page : page = [k \in DOMAIN Dump(table)[Len(files[filter]) + 1] |-> Torn]
      OBVIOUS
    <3>2. /\ pc = "dump" /\ Len(files[filter]) \in 1 .. Len(Dump(table)) - 1
          /\ files' = [files EXCEPT ![filter] = Append(files[filter], page)]
      BY <1>3, <2>5, <3>1 DEF NextProcess, Kill, request
    <3>3. ASSUME LiteralsFit(filter) PROVE Len(files[filter]) < Len(Dump(table))
      <4>1. table = Filtered(filter)
        BY <3>2, <3>3 DEF TableInv, ScanInv
      <4>2. Len(Dump(table)) \in Nat
        BY <4>1, DumpIsSequence, SequenceLen
      <4> QED
        BY <3>2, <4>2
    <3>4. Len(files[filter]) >= 1
      BY <3>2
    <3>5. FilesInv'
      BY <2>1, <3>1, <3>2, <3>3, <3>4, PageWritten DEF TableInv
    <3> QED
      BY <2>2, <3>5 DEF TableInv
  <2> QED
    BY <2>3, <2>4, <2>5
<1> QED
  BY <1>1, <1>2, <1>3

LEMMA TableStep ==
    ASSUME LoaderInv, SizesInv, DataInv, TableInv, [Next]_vars
    PROVE  TableInv'
<1>1. CASE UNCHANGED vars
  <2>1. UNCHANGED <<world, types, columns, filter, at, files, mode, pc, table_cache,
                    result_cache, results, ret_rows, table>>
    BY <1>1 DEF vars, evalVars, loaderVars, cacheVars, outVars
  <2>2. FilesInv' /\ CachesInv'
    BY <2>1, FilesKeep, CachesKeep DEF TableInv, cacheVars
  <2>3. PICK f : f = filter /\ filter' = f
    BY <2>1
  <2>4. (LiteralsFit(filter)' <=> LiteralsFit(f)) /\ Filtered(filter)' = Filtered(f)
    BY <2>1, <2>3 DEF LiteralsFit, Matches, Filtered, Satisfying
  <2>5. /\ CopyShape' <=> CopyShape
        /\ Starts(files[filter], Dump(table), FALSE)' <=> Starts(files[filter], Dump(table), FALSE)
        /\ Readable(filter)' <=> Readable(filter)
        /\ mapped(files[filter])' = mapped(files[filter])
    BY <2>1 DEF CopyShape, NumCols, Readable
  <2>6. CopyRight => CopyRight'
    <3>1. Satisfying(filter)' = Satisfying(f) /\ NumRows' = NumRows /\ NumCols' = NumCols
      BY <2>1, <2>3 DEF Satisfying, NumRows, NumCols
    <3>2. \A c : Copied(c)' <=> Copied(c)
      BY <2>1, <3>1 DEF Copied
    <3>3. \A i : BitAt(results, i)' <=> BitAt(results, i)
      BY <2>1
    <3> QED
      BY <2>1, <2>3, <2>4, <3>1, <3>2, <3>3 DEF CopyRight
  <2>7. ScanInv'
    BY <2>1, <2>3, <2>4, <2>5, <2>6 DEF TableInv, ScanInv
  <2> QED
    BY <2>2, <2>7 DEF TableInv
<1>2. CASE Next
  BY <1>2, CallsStep, CsvStep, FileStep, EndStep DEF Next
<1> QED
  BY <1>1, <1>2

LEMMA TableInvIsInductive == Spec => [](LoaderInv /\ DataInv /\ TableInv)
<1>1. Init => SizesInv /\ DataInv /\ TableInv
  <2> SUFFICES ASSUME Init PROVE SizesInv /\ DataInv /\ TableInv
    OBVIOUS
  <2>1. Len(<<>>) = 0 /\ DOMAIN <<>> = {}
    OBVIOUS
  <2>2. DOMAIN values = {} /\ Len(values) <= Len(filter)
    BY <2>1 DEF Init
  <2>3. SizesInv /\ DataInv
    BY <2>2 DEF Init, SizesInv, DataInv, BitsRight
  <2>4. FilesInv /\ CachesInv /\ ScanInv
    BY DEF Init, FilesInv, CachesInv, ScanInv
  <2> QED
    BY <2>3, <2>4 DEF TableInv
<1>2. LoaderInv /\ SizesInv /\ DataInv /\ TableInv /\ [Next]_vars
        => (SizesInv /\ DataInv /\ TableInv)'
  BY SizesStep, DataStep, TableStep
<1> QED
  BY <1>1, <1>2, InvIsInductive, PTL DEF Spec

(* from_csv returns the rows of the file that satisfy the filter, in their *)
(* order and the same ones in every column, whichever caches earlier scans *)
(* with other filters filled and however the workers of the copy pass,     *)
(* which all store to one counter, take turns.                             *)
THEOREM TableIsRight == Spec => []TableRight
<1>1. TableInv => TableRight
  BY DEF TableInv, ScanInv, TableRight
<1> QED
  BY <1>1, TableInvIsInductive, PTL

(* Whatever is left of a cache file when processes are killed, a scan that *)
(* maps it finds every page that is in it in its place, and the counts of  *)
(* the whole table when the meta data is whole: only the last page of the  *)
(* file may be torn, and only pages behind its end are missing.            *)
THEOREM PagesStayInPlace == Spec => []PagesInPlace
<1>1. LoaderInv /\ TableInv => PagesInPlace
  <2> SUFFICES ASSUME LoaderInv, TableInv, pc \in {"loaded", "used"}, mode = "cache",
                      LiteralsFit(filter)
               PROVE  LET file  == files[filter]
                          right == Filtered(filter)
                      IN  /\ Len(file) > 1 => TableMeta(table) = TableMeta(right)
                          /\ \A c \in DOMAIN table.columns : \A j \in DOMAIN table.columns[c] :
                               InPlace(file, FirstPage(file[1])[c] + j - 1,
                                       table.columns[c][j], right.columns[c][j])
    BY DEF PagesInPlace, InPlace
  <2>1. filter \in world.filters /\ Readable(filter) /\ table = mapped(files[filter])
    BY DEF TableInv, ScanInv
  <2>2. PICK file : file = files[filter] /\ file # NoFile /\ file # <<>>
    BY <2>1 DEF Readable
  <2>3. PICK t : t = Filtered(filter) /\ Tabular(t)
    BY FilteredIsTabular
  <2>4. Whole(file, Dump(t))
    BY <2>1, <2>2, <2>3 DEF TableInv, FilesInv
  <2>5. CASE Starts(file, Dump(t), TRUE)
    <3>1. Len(file) # 0
      <4>1. PICK S : file \in Seq(S)
        BY <2>5 DEF Starts, Sequence
      <4> QED
        BY <2>2, <4>1
    <3> QED
      BY <2>1, <2>2, <2>3, <2>5, <3>1, MappedInPlace
  <2>6. CASE TornHead(file)
    <3>1. ~(Len(file) > 1)
      BY <2>6 DEF TornHead
    <3>2. ASSUME NEW c \in DOMAIN mapped(file).columns,
                 NEW j \in DOMAIN mapped(file).columns[c]
          PROVE  InPlace(file, FirstPage(file[1])[c] + j - 1, mapped(file).columns[c][j],
                         t.columns[c][j])
      BY <2>6, <3>2, NothingMapped
    <3> QED
      BY <2>1, <2>2, <2>3, <3>1, <3>2
  <2> QED
    BY <2>4, <2>5, <2>6 DEF Whole
<1> QED
  BY <1>1, TableInvIsInductive, PTL

=============================================================================
