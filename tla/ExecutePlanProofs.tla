------------------------- MODULE ExecutePlanProofs -------------------------
(***************************************************************************)
(* Proofs about ExecutePlan, for every plan, number of threads, size of    *)
(* pages and outcome of its joins: the columns of a result are aligned,    *)
(* what they say of their references is right, their types are those of    *)
(* the plan, and the table returned holds the rows of the relation that    *)
(* the plan stands for.                                                    *)
(***************************************************************************)
EXTENDS ExecutePlan, Lemmas

LEMMA LenOf == ASSUME NEW S, NEW s \in Seq(S) PROVE Len(s) \in Nat
OBVIOUS

(* The positions of a column's cells. *)
Positions(pages) == UNION {Range(PagePositions(pages, p)) : p \in DOMAIN pages}

(* A position is that of a slot of a page. *)
LEMMA InPositions ==
    ASSUME NEW V, NEW pages \in Seq(Seq(V)), NEW pos
    PROVE  pos \in Positions(pages) <=>
             \E p \in 1 .. Len(pages) : \E s \in 1 .. Len(pages[p]) :
                 pos = (p - 1) * PageSlots + s - 1
<1>1. DOMAIN pages = 1 .. Len(pages)
  OBVIOUS
<1>2. ASSUME NEW p \in 1 .. Len(pages)
      PROVE  pos \in Range(PagePositions(pages, p)) <=>
               \E s \in 1 .. Len(pages[p]) : pos = (p - 1) * PageSlots + s - 1
  <2>1. pages[p] \in Seq(V)
    OBVIOUS
  <2>2. DOMAIN pages[p] = 1 .. Len(pages[p])
    BY <2>1
  <2>3. PagePositions(pages, p) = [s \in 1 .. Len(pages[p]) |-> (p - 1) * PageSlots + s - 1]
    BY <2>2 DEF PagePositions
  <2> QED
    BY <2>3 DEF Range
<1> QED
  BY <1>1, <1>2 DEF Positions

(* A column has finitely many cells.                                       *)
LEMMA PositionsFinite ==
    ASSUME NEW V, NEW pages \in Seq(Seq(V)), PagesWithin(pages, PageSlots)
    PROVE  IsFiniteSet(Positions(pages))
<1> DEFINE n == Len(pages)
<1>1. n \in Nat /\ PageSlots \in Nat /\ DOMAIN pages = 1 .. n
  BY JoinPagesAssumption
<1> HIDE DEF n
<1>2. PICK last : last = n * PageSlots
  OBVIOUS
<1>3. last \in Nat
  BY <1>1, <1>2
<1>4. ASSUME NEW pos \in Positions(pages) PROVE pos \in 0 .. last
  <2>1. PICK p \in 1 .. n : \E s \in 1 .. Len(pages[p]) : pos = (p - 1) * PageSlots + s - 1
    BY InPositions DEF n
  <2>2. PICK s \in 1 .. Len(pages[p]) : pos = (p - 1) * PageSlots + s - 1
    BY <2>1
  <2>3. Len(pages[p]) \in 1 .. PageSlots
    BY <1>1 DEF PagesWithin
  <2>4. PICK k : k = p - 1
    OBVIOUS
  <2>5. k \in Nat /\ k < n
    BY <1>1, <2>4
  <2>6. /\ (k + 1) * PageSlots = k * PageSlots + PageSlots
        /\ (k + 1) * PageSlots <= last /\ k * PageSlots \in Nat
    BY <1>1, <1>2, <2>5, MulStep
  <2>7. PICK x, y : x = k * PageSlots /\ y = (k + 1) * PageSlots
    OBVIOUS
  <2>8. x \in Nat /\ y = x + PageSlots /\ y <= last /\ pos = x + s - 1
    BY <2>2, <2>4, <2>6, <2>7
  <2> QED
    BY <1>1, <1>3, <2>3, <2>8
<1>5. IsFiniteSet(0 .. last)
  BY <1>3, FS_Interval
<1>6. Positions(pages) \subseteq 0 .. last
  BY <1>4
<1> QED
  BY <1>5, <1>6, FS_Subset

(* The sequences of a finite set list each of its elements once.           *)
LEMMA NumberedSet ==
    ASSUME NEW S, IsFiniteSet(S), NEW o \in SetToSeqs(S)
    PROVE  o \in Seq(S) /\ IsInjective(o) /\ Range(o) = S
<1>1. PICK n : n = Cardinality(S)
  OBVIOUS
<1>2. n \in Nat
  BY <1>1, FS_CardinalityType
<1>3. o \in [1 .. n -> S] /\ \A i, j \in 1 .. n : i # j => o[i] # o[j]
  BY <1>1 DEF SetToSeqs
<1>4. o \in Injection(1 .. n, S)
  BY <1>3 DEF Injection, IsInjective
<1>5. Cardinality(1 .. n) = n
  <2>1. 1 \in Int /\ n \in Int
    BY <1>2
  <2>2. Cardinality(1 .. n) = IF 1 > n THEN 0 ELSE n - 1 + 1
    BY <2>1, FS_Interval
  <2> QED
    BY <2>2, <1>2
<1>6. o \in Surjection(1 .. n, S)
  BY <1>1, <1>4, <1>5, FS_Injection
<1>7. Range(o) = S
  BY <1>3, <1>6 DEF Surjection, Range
<1>8. o \in Seq(S) /\ IsInjective(o)
  BY <1>2, <1>3, <1>4 DEF Injection
<1> QED
  BY <1>7, <1>8

(* The box of a position. *)
At(pos) == <<pos \div PageSlots + 1, (pos % PageSlots) + 1>>

(* The position of slot s of page p leads to that box.                     *)
LEMMA PositionOfBox ==
    ASSUME NEW V, NEW pages \in Seq(Seq(V)), PagesWithin(pages, PageSlots),
           NEW p \in 1 .. Len(pages), NEW s \in 1 .. Len(pages[p]),
           NEW pos, pos = (p - 1) * PageSlots + s - 1
    PROVE  pos \in Positions(pages) /\ At(pos) = <<p, s>>
<1>1. pos \in Positions(pages)
  BY InPositions
<1>2. Len(pages[p]) \in 1 .. PageSlots /\ DOMAIN pages = 1 .. Len(pages)
  BY DEF PagesWithin
<1>3. PICK j, r : j = p - 1 /\ r = s - 1
  OBVIOUS
<1>4. j \in Nat /\ r \in 0 .. PageSlots - 1 /\ PageSlots \in Nat \ {0}
  BY <1>2, <1>3, JoinPagesAssumption
<1>5. pos = j * PageSlots + r
  <2>1. PICK x : x = j * PageSlots
    OBVIOUS
  <2>2. x \in Int /\ pos = x + s - 1
    BY <1>3, <1>4, <2>1
  <2> QED
    BY <1>3, <1>4, <2>1, <2>2
<1>6. pos \div PageSlots = j /\ pos % PageSlots = r
  BY ONLY <1>4, <1>5, PositionParts
<1>7. j + 1 = p /\ r + 1 = s
  BY <1>3
<1> QED
  BY <1>1, <1>6, <1>7 DEF At

(* Positions and boxes are the same places. *)
LEMMA PositionBoxes ==
    ASSUME NEW V, NEW pages \in Seq(Seq(V)), PagesWithin(pages, PageSlots)
    PROVE  /\ [pos \in Positions(pages) |-> At(pos)] \in Bijection(Positions(pages), Boxes(pages))
           /\ \A pos \in Positions(pages) : At(pos) \in Boxes(pages)
           /\ \A x, y \in Positions(pages) : At(x) = At(y) => x = y
<1>1. PICK S, T, f : /\ S = Positions(pages) /\ T = Boxes(pages)
                     /\ f = [pos \in Positions(pages) |-> At(pos)]
  OBVIOUS
<1>2. \A pos \in S : f[pos] = At(pos)
  BY <1>1
<1>3. ASSUME NEW pos \in S
      PROVE  \E p \in 1 .. Len(pages) : \E s \in 1 .. Len(pages[p]) :
               pos = (p - 1) * PageSlots + s - 1 /\ At(pos) = <<p, s>>
  <2>1. PICK p \in 1 .. Len(pages) : \E s \in 1 .. Len(pages[p]) : pos = (p - 1) * PageSlots + s - 1
    BY <1>1, InPositions
  <2>2. PICK s \in 1 .. Len(pages[p]) : pos = (p - 1) * PageSlots + s - 1
    BY <2>1
  <2>3. At(pos) = <<p, s>>
    BY <2>2, PositionOfBox
  <2> QED
    BY <2>2, <2>3
<1>4. ASSUME NEW pos \in S PROVE At(pos) \in T
  <2>1. PICK p \in 1 .. Len(pages) : \E s \in 1 .. Len(pages[p]) : At(pos) = <<p, s>>
    BY <1>3
  <2> QED
    BY <1>1, <2>1, BoxOfPart
<1>5. ASSUME NEW x \in S, NEW y \in S, At(x) = At(y) PROVE x = y
  <2>1. PICK p \in 1 .. Len(pages), s \in Nat : x = (p - 1) * PageSlots + s - 1 /\ At(x) = <<p, s>>
    <3>1. PICK p \in 1 .. Len(pages) : \E s \in 1 .. Len(pages[p]) :
               x = (p - 1) * PageSlots + s - 1 /\ At(x) = <<p, s>>
      BY <1>3
    <3> QED
      BY <3>1
  <2>2. PICK q \in 1 .. Len(pages), r \in Nat : y = (q - 1) * PageSlots + r - 1 /\ At(y) = <<q, r>>
    <3>1. PICK q \in 1 .. Len(pages) : \E r \in 1 .. Len(pages[q]) :
               y = (q - 1) * PageSlots + r - 1 /\ At(y) = <<q, r>>
      BY <1>3
    <3> QED
      BY <3>1
  <2>3. <<p, s>> = <<q, r>>
    BY <1>5, <2>1, <2>2
  <2>4. p = q /\ s = r
    BY <2>3
  <2> QED
    BY <2>1, <2>2, <2>4
<1>6. ASSUME NEW b \in T PROVE \E pos \in S : f[pos] = b
  <2>1. PICK p \in 1 .. Len(pages) : \E s \in 1 .. Len(pages[p]) : b = <<p, s>>
    BY <1>1, BoxOfPart
  <2>2. PICK s \in 1 .. Len(pages[p]) : b = <<p, s>>
    BY <2>1
  <2>3. PICK pos : pos = (p - 1) * PageSlots + s - 1
    OBVIOUS
  <2>4. pos \in S /\ At(pos) = b
    BY <1>1, <2>2, <2>3, PositionOfBox
  <2> QED
    BY <1>2, <2>4
<1>7. f \in [S -> T]
  BY <1>1, <1>2, <1>4
<1>8. \A x, y \in S : f[x] = f[y] => x = y
  BY <1>2, <1>5
<1>9. f \in Bijection(S, T)
  BY <1>6, <1>7, <1>8, IsBijection
<1> QED
  BY <1>1, <1>4, <1>5, <1>9

(* A position lies on a page.                                              *)
LEMMA PageOfPosition ==
    ASSUME NEW V, NEW pages \in Seq(Seq(V)), PagesWithin(pages, PageSlots),
           NEW pos \in Positions(pages)
    PROVE  At(pos)[1] \in 1 .. Len(pages)
<1>1. At(pos) \in Boxes(pages)
  BY PositionBoxes
<1>2. PICK p \in 1 .. Len(pages) : \E s \in 1 .. Len(pages[p]) : At(pos) = <<p, s>>
  BY <1>1, BoxOfPart
<1> QED
  BY <1>2

-----------------------------------------------------------------------------
(* What a join leaves. *)

(* The pairs of positions that a join puts together. *)
MatchedPairs(build, probe, keys) ==
    {pair \in Positions(build) \X Positions(probe) :
        CellAt(probe, pair[2]) \in keys /\ CellAt(build, pair[1]) = CellAt(probe, pair[2])}

(* The matches of each cell are listed once. *)
ListsMatches(order, build, probe, keys) ==
    /\ DOMAIN order = {pos \in Positions(probe) : CellAt(probe, pos) \in keys}
    /\ \A pos \in DOMAIN order :
         /\ order[pos] \in Seq(Positions(build)) /\ IsInjective(order[pos])
         /\ Range(order[pos]) = {x \in Positions(build) :
                                   CellAt(build, x) = CellAt(probe, pos)}

(* The orders that HashJoin allows list the matches of each cell once.     *)
LEMMA OrdersOf ==
    ASSUME NEW V, NEW build \in Seq(Seq(V)), PagesWithin(build, PageSlots),
           NEW probe, NEW keys, NEW order \in MatchOrders(build, probe, keys)
    PROVE  ListsMatches(order, build, probe, keys)
<1>1. PICK sites : sites = {pos \in Positions(probe) : CellAt(probe, pos) \in keys}
  OBVIOUS
<1>2. /\ DOMAIN order = sites
      /\ \A pos \in sites : order[pos] \in SetToSeqs(PositionsOf(build, CellAt(probe, pos)))
  BY <1>1 DEF MatchOrders, Positions
<1>3. ASSUME NEW pos \in sites
      PROVE  /\ order[pos] \in Seq(Positions(build)) /\ IsInjective(order[pos])
             /\ Range(order[pos]) = {x \in Positions(build) :
                                       CellAt(build, x) = CellAt(probe, pos)}
  <2>1. PICK S, o : S = PositionsOf(build, CellAt(probe, pos)) /\ o = order[pos]
    OBVIOUS
  <2>2. S = {x \in Positions(build) : CellAt(build, x) = CellAt(probe, pos)}
    BY <2>1 DEF PositionsOf, Positions
  <2>3. S \subseteq Positions(build) /\ IsFiniteSet(S)
    <3>1. S \subseteq Positions(build)
      BY <2>2
    <3>2. IsFiniteSet(Positions(build))
      BY PositionsFinite
    <3> QED
      BY <3>1, <3>2, FS_Subset
  <2>4. o \in SetToSeqs(S)
    BY <1>2, <2>1
  <2>5. o \in Seq(S) /\ IsInjective(o) /\ Range(o) = S
    BY <2>3, <2>4, NumberedSet
  <2>6. o \in Seq(Positions(build))
    BY <2>3, <2>5
  <2> QED
    BY <2>1, <2>2, <2>5, <2>6
<1> QED
  BY <1>1, <1>2, <1>3 DEF ListsMatches

(* The matches of one row of the probe column. *)
RowPairs(order, pos) ==
    IF pos \in DOMAIN order
    THEN [m \in DOMAIN order[pos] |-> <<order[pos][m], pos>>] ELSE <<>>

(* The pairs with one position of the probe column.                        *)
PairsAt(build, probe, keys, pos) ==
    {pair \in MatchedPairs(build, probe, keys) : pair[2] = pos}

(* A row's matches list its pairs once.                                    *)
LEMMA RowPairsListed ==
    ASSUME NEW build, NEW probe, NEW keys, NEW order,
           ListsMatches(order, build, probe, keys), NEW pos \in Positions(probe)
    PROVE  /\ RowPairs(order, pos) \in Seq(Positions(build) \X Positions(probe))
           /\ IsInjective(RowPairs(order, pos))
           /\ Range(RowPairs(order, pos)) = PairsAt(build, probe, keys, pos)
<1>1. PICK rows, Pair, M : /\ rows = RowPairs(order, pos)
                           /\ Pair = Positions(build) \X Positions(probe)
                           /\ M = PairsAt(build, probe, keys, pos)
  OBVIOUS
<1>2. /\ DOMAIN order = {y \in Positions(probe) : CellAt(probe, y) \in keys}
      /\ \A y \in DOMAIN order :
           /\ order[y] \in Seq(Positions(build)) /\ IsInjective(order[y])
           /\ Range(order[y]) = {x \in Positions(build) : CellAt(build, x) = CellAt(probe, y)}
  BY DEF ListsMatches
<1>3. CASE pos \in DOMAIN order
  <2>1. PICK o : o = order[pos]
    OBVIOUS
  <2>2. /\ o \in Seq(Positions(build)) /\ IsInjective(o)
        /\ Range(o) = {x \in Positions(build) : CellAt(build, x) = CellAt(probe, pos)}
    BY <1>2, <1>3, <2>1
  <2>3. PICK n : n = Len(o)
    OBVIOUS
  <2>4. n \in Nat /\ DOMAIN o = 1 .. n /\ \A m \in 1 .. n : o[m] \in Positions(build)
    BY <2>2, <2>3
  <2>5. rows = [m \in 1 .. n |-> <<o[m], pos>>]
    BY <1>1, <1>3, <2>1, <2>4 DEF RowPairs
  <2>6. rows = [m \in 1 .. n |-> rows[m]] /\ \A m \in 1 .. n : rows[m] \in Pair
    BY <1>1, <2>4, <2>5
  <2>7. rows \in Seq(Pair) /\ DOMAIN rows = 1 .. n
    BY <2>4, <2>6, IsSeq
  <2>8. IsInjective(rows)
    <3>1. ASSUME NEW a \in 1 .. n, NEW b \in 1 .. n, rows[a] = rows[b] PROVE a = b
      <4>1. <<o[a], pos>> = <<o[b], pos>>
        BY <2>5, <3>1
      <4>2. o[a] = o[b]
        BY <4>1
      <4> QED
        BY <2>2, <2>4, <4>2 DEF IsInjective
    <3> QED
      BY <2>7, <3>1 DEF IsInjective
  <2>9. ASSUME NEW pair \in Range(rows) PROVE pair \in M
    <3>1. PICK m \in 1 .. n : pair = rows[m]
      BY <2>7 DEF Range
    <3>2. pair = <<o[m], pos>> /\ o[m] \in Range(o)
      BY <2>4, <2>5, <3>1 DEF Range
    <3>3. pair[1] = o[m] /\ pair[2] = pos
      BY <3>2
    <3>4. /\ o[m] \in Positions(build) /\ CellAt(build, o[m]) = CellAt(probe, pos)
          /\ CellAt(probe, pos) \in keys
      BY <1>2, <1>3, <2>2, <3>2
    <3> QED
      BY <1>1, <3>2, <3>3, <3>4 DEF MatchedPairs, PairsAt
  <2>10. ASSUME NEW pair \in M PROVE pair \in Range(rows)
    <3>1. /\ pair \in Positions(build) \X Positions(probe) /\ pair[2] = pos
          /\ CellAt(build, pair[1]) = CellAt(probe, pair[2])
      BY <1>1 DEF MatchedPairs, PairsAt
    <3>2. pair[1] \in Range(o) /\ pair = <<pair[1], pos>>
      BY <2>2, <3>1
    <3>3. PICK m \in 1 .. n : o[m] = pair[1]
      BY <2>4, <3>2 DEF Range
    <3>4. rows[m] = pair
      BY <2>5, <3>2, <3>3
    <3> QED
      BY <2>7, <3>4 DEF Range
  <2> QED
    BY <1>1, <2>7, <2>8, <2>9, <2>10
<1>4. CASE pos \notin DOMAIN order
  <2>1. PICK e : e = <<>>
    OBVIOUS
  <2>2. rows = e
    BY <1>1, <1>4, <2>1 DEF RowPairs
  <2>3. e \in Seq(Pair) /\ DOMAIN e = {}
    BY <2>1, EmptySeq
  <2>4. IsInjective(e) /\ Range(e) = {}
    BY <2>3 DEF IsInjective, Range
  <2>5. ASSUME NEW pair \in M PROVE FALSE
    <3>1. /\ pair[2] = pos /\ CellAt(probe, pair[2]) \in keys
      BY <1>1 DEF MatchedPairs, PairsAt
    <3> QED
      BY <1>2, <1>4, <3>1
  <2> QED
    BY <1>1, <2>2, <2>3, <2>4, <2>5
<1> QED
  BY <1>3, <1>4

(* The matches of one page of the probe column. *)
PagePairs(build, probe, keys, p) ==
    {pair \in MatchedPairs(build, probe, keys) : At(pair[2])[1] = p}

(* A page's matches list its pairs once.                                   *)
LEMMA PairsListed ==
    ASSUME NEW build, NEW W, NEW probe \in Seq(Seq(W)), PagesWithin(probe, PageSlots),
           NEW keys, NEW order, ListsMatches(order, build, probe, keys),
           NEW p \in 1 .. Len(probe)
    PROVE  /\ PairsOf(probe, order, p) \in Seq(Positions(build) \X Positions(probe))
           /\ IsInjective(PairsOf(probe, order, p))
           /\ Range(PairsOf(probe, order, p)) = PagePairs(build, probe, keys, p)
<1>1. PICK Pair, M : /\ Pair = Positions(build) \X Positions(probe)
                     /\ M = MatchedPairs(build, probe, keys)
  OBVIOUS
<1>2. probe[p] \in Seq(W) /\ DOMAIN probe = 1 .. Len(probe)
  OBVIOUS
<1>3. PICK n, here : n = Len(probe[p]) /\ here = PagePositions(probe, p)
  OBVIOUS
<1>4. n \in Nat /\ DOMAIN probe[p] = 1 .. n
  BY <1>2, <1>3
<1>5. here = [s \in 1 .. n |-> (p - 1) * PageSlots + s - 1]
  BY <1>3, <1>4 DEF PagePositions
<1>6. ASSUME NEW s \in 1 .. n
      PROVE  here[s] \in Positions(probe) /\ At(here[s]) = <<p, s>>
  <2>1. PICK pos : pos = (p - 1) * PageSlots + s - 1
    OBVIOUS
  <2>2. s \in 1 .. Len(probe[p])
    BY <1>3
  <2>3. pos \in Positions(probe) /\ At(pos) = <<p, s>>
    BY <2>1, <2>2, PositionOfBox
  <2> QED
    BY <1>5, <2>1, <2>3
<1>7. PICK rows : rows = [s \in 1 .. n |-> RowPairs(order, here[s])]
  OBVIOUS
<1>8. PairsOf(probe, order, p) = FlattenSeq(rows)
  <2>1. PairsOf(probe, order, p) =
          FlattenSeq([s \in DOMAIN probe[p] |-> RowPairs(order, PagePositions(probe, p)[s])])
    BY DEF PairsOf, RowPairs
  <2> QED
    BY <1>3, <1>4, <1>7, <2>1
<1>9. ASSUME NEW s \in 1 .. n
      PROVE  /\ rows[s] \in Seq(Pair) /\ IsInjective(rows[s])
             /\ Range(rows[s]) = {pair \in M : pair[2] = here[s]}
  <2>1. PICK pos : pos = here[s]
    OBVIOUS
  <2>2. pos \in Positions(probe) /\ rows[s] = RowPairs(order, pos)
    BY <1>6, <1>7, <2>1
  <2>3. /\ RowPairs(order, pos) \in Seq(Positions(build) \X Positions(probe))
        /\ IsInjective(RowPairs(order, pos))
        /\ Range(RowPairs(order, pos)) = PairsAt(build, probe, keys, pos)
    BY <2>2, RowPairsListed
  <2> QED
    BY <1>1, <2>1, <2>2, <2>3 DEF PairsAt
<1>10. rows = [s \in 1 .. n |-> rows[s]]
  BY <1>7
<1>11. rows \in Seq(Seq(Pair)) /\ Len(rows) = n
  BY <1>4, <1>9, <1>10, IsSeq
<1>12. ASSUME NEW s \in 1 .. n, NEW t \in 1 .. n, s # t PROVE Range(rows[s]) \cap Range(rows[t]) = {}
  <2>1. here[s] # here[t]
    <3>1. <<p, s>> # <<p, t>>
      BY <1>12
    <3> QED
      BY <1>6, <3>1
  <2> QED
    BY <1>9, <2>1
<1>13. PICK F : F = FlattenSeq(rows)
  OBVIOUS
<1>14. IsInjective(F)
  BY <1>9, <1>11, <1>12, <1>13, FlattenInjective
<1>15. F \in Seq(Pair) /\ Range(F) = UNION {Range(rows[s]) : s \in 1 .. n}
  BY <1>11, <1>13, FlattenRange
<1>16. ASSUME NEW pair \in M PROVE pair \in Range(F) <=> At(pair[2])[1] = p
  <2>1. pair[2] \in Positions(probe)
    BY <1>1 DEF MatchedPairs
  <2>2. ASSUME pair \in Range(F) PROVE At(pair[2])[1] = p
    <3>1. PICK s \in 1 .. n : pair \in Range(rows[s])
      BY <1>15, <2>2
    <3>2. At(pair[2]) = <<p, s>>
      BY <1>6, <1>9, <3>1
    <3> QED
      BY <3>2
  <2>3. ASSUME At(pair[2])[1] = p PROVE pair \in Range(F)
    <3>1. PICK y : y = pair[2]
      OBVIOUS
    <3>2. At(y) \in Boxes(probe)
      BY <2>1, <3>1, PositionBoxes
    <3>3. PICK q \in 1 .. Len(probe) : \E s \in 1 .. Len(probe[q]) : At(y) = <<q, s>>
      BY <3>2, BoxOfPart
    <3>4. PICK s \in 1 .. Len(probe[q]) : At(y) = <<q, s>>
      BY <3>3
    <3>5. q = p
      BY <2>3, <3>1, <3>4
    <3>6. s \in 1 .. n /\ At(here[s]) = At(y) /\ here[s] \in Positions(probe)
      BY <1>3, <1>6, <3>4, <3>5
    <3>7. here[s] = y
      BY <2>1, <3>1, <3>6, PositionBoxes
    <3>8. pair \in Range(rows[s])
      BY <1>9, <3>1, <3>6, <3>7
    <3> QED
      BY <1>15, <3>6, <3>8
  <2> QED
    BY <2>2, <2>3
<1>17. ASSUME NEW pair \in Range(F) PROVE pair \in M
  <2>1. PICK s \in 1 .. n : pair \in Range(rows[s])
    BY <1>15
  <2> QED
    BY <1>9, <2>1
<1>18. Range(F) = {pair \in M : At(pair[2])[1] = p}
  BY <1>16, <1>17
<1> QED
  BY <1>1, <1>8, <1>13, <1>14, <1>15, <1>18 DEF PagePairs

(* The pairs with a position of a page that the thread has claimed. *)
ClaimedPairs(build, probe, keys, claim, i) ==
    {pair \in MatchedPairs(build, probe, keys) : claim[At(pair[2])[1]] = i}

(* A thread's pages hold the matches of the pages that it has claimed. *)
LEMMA ThreadListed ==
    ASSUME NEW build, NEW W, NEW probe \in Seq(Seq(W)), PagesWithin(probe, PageSlots),
           NEW keys, NEW order, ListsMatches(order, build, probe, keys), NEW claim, NEW i
    PROVE  /\ ThreadPages(probe, order, claim, i) \in Seq(Seq(Positions(build) \X Positions(probe)))
           /\ PagesWithin(ThreadPages(probe, order, claim, i), PageSlots)
           /\ Hold(ThreadPages(probe, order, claim, i), ClaimedPairs(build, probe, keys, claim, i))
<1>1. PICK Pair, M, n : /\ Pair = Positions(build) \X Positions(probe)
                        /\ M = MatchedPairs(build, probe, keys) /\ n = Len(probe)
  OBVIOUS
<1>2. n \in Nat /\ DOMAIN probe = 1 .. n
  BY <1>1
<1>3. PICK parts : parts = [p \in 1 .. n |->
                              IF claim[p] = i THEN PairsOf(probe, order, p) ELSE <<>>]
  OBVIOUS
<1>4. ThreadPages(probe, order, claim, i) = append_all(<<>>, FlattenSeq(parts), PageSlots)
  BY <1>2, <1>3 DEF ThreadPages
<1>5. ASSUME NEW p \in 1 .. n
      PROVE  /\ parts[p] \in Seq(Pair) /\ IsInjective(parts[p])
             /\ claim[p] = i => Range(parts[p]) = PagePairs(build, probe, keys, p)
             /\ claim[p] # i => Range(parts[p]) = {}
  <2>1. CASE claim[p] = i
    <3>1. /\ PairsOf(probe, order, p) \in Seq(Positions(build) \X Positions(probe))
          /\ IsInjective(PairsOf(probe, order, p))
          /\ Range(PairsOf(probe, order, p)) = PagePairs(build, probe, keys, p)
      BY <1>1, PairsListed
    <3> QED
      BY <1>1, <1>3, <2>1, <3>1 DEF PagePairs
  <2>2. CASE claim[p] # i
    <3>1. PICK e : e = <<>>
      OBVIOUS
    <3>2. e \in Seq(Pair) /\ DOMAIN e = {}
      BY <3>1, EmptySeq
    <3>3. parts[p] = e
      BY <1>3, <2>2, <3>1
    <3> QED
      BY <2>2, <3>2, <3>3 DEF IsInjective, Range
  <2> QED
    BY <2>1, <2>2
<1>6. parts = [p \in 1 .. n |-> parts[p]]
  BY <1>3
<1>7. parts \in Seq(Seq(Pair)) /\ Len(parts) = n
  BY <1>2, <1>5, <1>6, IsSeq
<1>8. ASSUME NEW p \in 1 .. n, NEW q \in 1 .. n, p # q PROVE Range(parts[p]) \cap Range(parts[q]) = {}
  <2>1. ASSUME NEW pair \in Range(parts[p]), pair \in Range(parts[q]) PROVE FALSE
    <3>1. /\ pair \in PagePairs(build, probe, keys, p)
          /\ pair \in PagePairs(build, probe, keys, q)
      BY <1>5, <2>1
    <3> QED
      BY <1>8, <3>1 DEF PagePairs
  <2> QED
    BY <2>1
<1>9. PICK F : F = FlattenSeq(parts)
  OBVIOUS
<1>10. IsInjective(F)
  BY <1>5, <1>7, <1>8, <1>9, FlattenInjective
<1>11. F \in Seq(Pair) /\ Range(F) = UNION {Range(parts[p]) : p \in 1 .. n}
  BY <1>7, <1>9, FlattenRange
<1>12. ASSUME NEW pair \in Range(F) PROVE pair \in ClaimedPairs(build, probe, keys, claim, i)
  <2>1. PICK p \in 1 .. n : pair \in Range(parts[p])
    BY <1>11
  <2> QED
    BY <1>5, <2>1 DEF PagePairs, ClaimedPairs
<1>13. ASSUME NEW pair \in ClaimedPairs(build, probe, keys, claim, i) PROVE pair \in Range(F)
  <2>1. PICK p : p = At(pair[2])[1]
    OBVIOUS
  <2>2. pair \in MatchedPairs(build, probe, keys) /\ claim[p] = i
    BY <2>1 DEF ClaimedPairs
  <2>3. p \in 1 .. n
    <3>1. PICK y : y = pair[2]
      OBVIOUS
    <3>2. y \in Positions(probe)
      BY <2>2, <3>1 DEF MatchedPairs
    <3> QED
      BY <1>1, <2>1, <3>1, <3>2, PageOfPosition
  <2>4. pair \in Range(parts[p])
    BY <1>5, <2>1, <2>2, <2>3 DEF PagePairs
  <2> QED
    BY <1>11, <2>3, <2>4
<1>14. Range(F) = ClaimedPairs(build, probe, keys, claim, i)
  BY <1>12, <1>13
<1>15. /\ append_all(<<>>, F, PageSlots) \in Seq(Seq(Pair))
       /\ PagesWithin(append_all(<<>>, F, PageSlots), PageSlots)
       /\ Hold(append_all(<<>>, F, PageSlots), Range(F))
  BY <1>10, <1>11, JoinPagesAssumption, AppendedOnce
<1> QED
  BY <1>1, <1>4, <1>9, <1>14, <1>15

(* Whatever a join leaves are pages of pairs of a build and a probe        *)
(* position, every two with the same key once.                             *)
LEMMA OutcomeHolds ==
    ASSUME NEW V, NEW build \in Seq(Seq(V)), PagesWithin(build, PageSlots),
           NEW W, NEW probe \in Seq(Seq(W)), PagesWithin(probe, PageSlots),
           NEW keys, NEW pages \in JoinOutcomes(build, probe, keys)
    PROVE  /\ pages \in Seq(Seq(Positions(build) \X Positions(probe)))
           /\ PagesWithin(pages, PageSlots)
           /\ Hold(pages, MatchedPairs(build, probe, keys))
<1>1. PICK order \in MatchOrders(build, probe, keys), claim \in [DOMAIN probe -> Threads] :
        pages = AllPages(probe, order, claim)
  BY DEF JoinOutcomes
<1>2. ListsMatches(order, build, probe, keys)
  BY OrdersOf
<1>3. PICK Pair, M, N : /\ Pair = Positions(build) \X Positions(probe)
                        /\ M = MatchedPairs(build, probe, keys) /\ N = NumThreads
  OBVIOUS
<1>4. N \in Nat
  BY <1>3, JoinPagesAssumption
<1>5. PICK all : all = [i \in 1 .. N |-> ThreadPages(probe, order, claim, i - 1)]
  OBVIOUS
<1>6. PICK S : S = [i \in 1 .. N |-> ClaimedPairs(build, probe, keys, claim, i - 1)]
  OBVIOUS
<1>7. ASSUME NEW i \in 1 .. N
      PROVE  /\ all[i] \in Seq(Seq(Pair)) /\ PagesWithin(all[i], PageSlots)
             /\ Hold(all[i], S[i])
  <2>1. PICK j : j = i - 1
    OBVIOUS
  <2>2. /\ ThreadPages(probe, order, claim, j) \in Seq(Seq(Positions(build) \X Positions(probe)))
        /\ PagesWithin(ThreadPages(probe, order, claim, j), PageSlots)
        /\ Hold(ThreadPages(probe, order, claim, j), ClaimedPairs(build, probe, keys, claim, j))
    BY <1>2, ThreadListed
  <2> QED
    BY <1>3, <1>5, <1>6, <2>1, <2>2
<1>8. all = [i \in 1 .. N |-> all[i]]
  BY <1>5
<1>9. all \in Seq(Seq(Seq(Pair))) /\ Len(all) = N
  BY <1>4, <1>7, <1>8, IsSeq
<1>10. pages = FlattenSeq(all)
  BY <1>1, <1>3, <1>5 DEF AllPages
<1>11. FlattenSeq(all) \in Seq(Seq(Pair)) /\ PagesWithin(FlattenSeq(all), PageSlots)
  BY <1>7, <1>9, FlattenPages
<1>12. ASSUME NEW i \in 1 .. N, NEW j \in 1 .. N, i # j PROVE S[i] \cap S[j] = {}
  <2>1. ASSUME NEW pair \in S[i], pair \in S[j] PROVE FALSE
    <3>1. claim[At(pair[2])[1]] = i - 1 /\ claim[At(pair[2])[1]] = j - 1
      BY <1>6, <2>1 DEF ClaimedPairs
    <3> QED
      BY <1>12, <3>1
  <2> QED
    BY <2>1
<1>13. Hold(FlattenSeq(all), UnionOf(S, Len(all)))
  <2>1. HoldApart(all, PageSlots, S)
    BY <1>7, <1>9, <1>12 DEF HoldApart
  <2> QED
    BY <1>9, <2>1, FlattenedOnce
<1>14. ASSUME NEW pair \in M PROVE \E i \in 1 .. N : pair \in S[i]
  <2>1. PICK p, y : y = pair[2] /\ p = At(y)[1]
    OBVIOUS
  <2>2. y \in Positions(probe)
    BY <1>3, <2>1 DEF MatchedPairs
  <2>3. p \in DOMAIN probe
    <3>1. At(y)[1] \in 1 .. Len(probe)
      BY <2>2, PageOfPosition
    <3> QED
      BY <2>1, <3>1
  <2>4. PICK j : j = claim[p]
    OBVIOUS
  <2>5. j \in 0 .. N - 1
    BY <1>3, <2>3, <2>4 DEF Threads
  <2>6. PICK i : i = j + 1
    OBVIOUS
  <2>7. i \in 1 .. N /\ i - 1 = j
    BY <1>4, <2>5, <2>6
  <2>8. pair \in ClaimedPairs(build, probe, keys, claim, j)
    BY <1>3, <2>1, <2>4 DEF ClaimedPairs
  <2> QED
    BY <1>6, <2>7, <2>8
<1>15. ASSUME NEW i \in 1 .. N PROVE S[i] \subseteq M
  BY <1>3, <1>6 DEF ClaimedPairs
<1>16. UnionOf(S, Len(all)) = M
  BY <1>9, <1>14, <1>15 DEF UnionOf
<1> QED
  BY <1>3, <1>10, <1>11, <1>13, <1>16

(* A position is that of a cell in every column of the same shape. *)
LEMMA CellAtPosition ==
    ASSUME NEW V, NEW cells \in Seq(Seq(V)), NEW W, NEW pages \in Seq(Seq(W)),
           Shape(cells) = Shape(pages), PagesWithin(pages, PageSlots),
           NEW pos \in Positions(pages)
    PROVE  CellAt(cells, pos) \in V
<1>1. PICK p \in 1 .. Len(pages) : \E s \in 1 .. Len(pages[p]) : pos = (p - 1) * PageSlots + s - 1
  BY InPositions
<1>2. PICK s \in 1 .. Len(pages[p]) : pos = (p - 1) * PageSlots + s - 1
  BY <1>1
<1>3. /\ Len(cells) = Len(pages) /\ Len(cells[p]) = Len(pages[p])
      /\ DOMAIN cells = 1 .. Len(cells) /\ Len(pages[p]) \in 1 .. PageSlots
  BY ShapeIsSeq DEF PagesWithin
<1>4. PICK j, r : j = p - 1 /\ r = s - 1
  OBVIOUS
<1>5. j \in Nat /\ r \in 0 .. PageSlots - 1 /\ PageSlots \in Nat \ {0}
  BY <1>1, <1>3, <1>4, <1>2, JoinPagesAssumption
<1>6. pos = j * PageSlots + r
  <2>1. PICK x : x = j * PageSlots
    OBVIOUS
  <2>2. x \in Int /\ pos = x + s - 1
    BY <1>4, <1>5, <1>2, <2>1
  <2> QED
    BY <1>4, <1>5, <1>2, <2>1, <2>2
<1>7. pos \div PageSlots = j /\ pos % PageSlots = r
  BY <1>5, <1>6, PositionParts
<1>8. CellAt(cells, pos) = cells[p][s]
  <2>1. j + 1 = p /\ r + 1 = s
    BY <1>4
  <2> QED
    BY <1>7, <2>1 DEF CellAt
<1> QED
  BY <1>3, <1>8

-----------------------------------------------------------------------------
(* What the columns of a result are. *)

(* The values of value_t.                                                  *)
Values ==
    [mode : {"NULL"}] \cup [mode : {"INT32"}, value : Cells]
    \cup [mode : {"INT32_NO_NULL", "VARCHAR"}, table : Nat, column : Nat, page : Nat, pos : Nat]

(* The values of a column with this flag and these pages. *)
Right(no_null, original) ==
    {v \in Values : IF no_null
                    THEN v.mode = "INT32_NO_NULL" /\ original = Original(v.table, v.column)
                    ELSE v.mode # "INT32_NO_NULL"}

Origins == [table : Nat, column : Nat, any : BOOLEAN]

(* Columns of values, and those whose values are what their flag says.     *)
Columns ==
    [type : DataTypes, pages : Seq(Seq(Values)), is_no_null : BOOLEAN,
     original_pages : Origins]

GoodColumn(column) ==
    /\ column \in Columns
    /\ PagesWithin(column.pages, PageSlots)
    /\ column.pages \in Seq(Seq(Right(column.is_no_null, column.original_pages)))

(* The type that node n was asked for, or that of no page of an input.     *)
OfType(p, n, asked, type) ==
    \/ type = asked.type
    \/ n.op = "scan" /\ p.inputs[n.base_table_id + 1][asked.col + 1].pages = <<>>

Typed(p, n, columns) ==
    \A k \in DOMAIN columns : OfType(p, n, n.output_attrs[k], columns[k].type)

(* What a node of a plan results in. *)
IsResult(p, n, columns) ==
    /\ columns \in Seq(Columns) /\ Len(columns) = Len(p.nodes[n].output_attrs)
    /\ \A k \in DOMAIN columns : GoodColumn(columns[k])
    /\ \A k, m \in DOMAIN columns : Shape(columns[k].pages) = Shape(columns[m].pages)
    /\ Typed(p, p.nodes[n], columns)

(* The pages of an input's column. *)
LEMMA InputCells ==
    ASSUME NEW columns, IsInput(columns), NEW c \in DOMAIN columns
    PROVE  columns[c].pages \in Seq(Seq(Cells \cup {Null})) /\ columns[c].type \in DataTypes
<1>1. PICK S : S = {Null} \cup (IF columns[c].type = "INT32" THEN Ints ELSE Strings)
  OBVIOUS
<1>2. columns[c].pages \in Seq(Seq(S)) /\ columns[c].type \in DataTypes
  BY <1>1 DEF IsInput
<1>3. S \subseteq Cells \cup {Null}
  BY <1>1 DEF Cells
<1>4. Seq(S) \subseteq Seq(Cells \cup {Null})
  BY <1>3
<1>5. PICK A, B : A = Seq(S) /\ B = Seq(Cells \cup {Null})
  OBVIOUS
<1>6. A \subseteq B /\ columns[c].pages \in Seq(A)
  BY <1>2, <1>4, <1>5
<1>7. columns[c].pages \in Seq(B)
  BY <1>6
<1> QED
  BY <1>2, <1>5, <1>7

(* Of a column without NULLs, references into it are made; of others,      *)
(* none to integers.                                                       *)
LEMMA ScannedValues ==
    ASSUME NEW t \in Nat, NEW c \in Nat,
           Input(t, c).pages \in Seq(Seq(Cells \cup {Null})),
           NEW p \in 1 .. Len(Input(t, c).pages),
           NEW R, R = Right(no_nulls(Input(t, c)),
                            IF no_nulls(Input(t, c)) THEN Original(t, c) ELSE NoOriginal)
    PROVE  Scanned(t, c, p) \in Seq(R) /\ Len(Scanned(t, c, p)) = Len(Input(t, c).pages[p])
<1>1. PICK column : column = Input(t, c)
  OBVIOUS
<1>2. PICK cells : cells = column.pages[p]
  OBVIOUS
<1>3. cells \in Seq(Cells \cup {Null}) /\ DOMAIN cells = 1 .. Len(cells)
  BY <1>1, <1>2
<1>4. PICK n : n = Len(cells)
  OBVIOUS
<1>5. PICK made : made = Scanned(t, c, p)
  OBVIOUS
<1>6. made = [pos \in 1 .. n |->
                IF cells[pos] = Null THEN make_null
                ELSE CASE no_nulls(column)        -> Reference("INT32_NO_NULL", t, c, p - 1, pos - 1)
                       [] column.type = "VARCHAR" -> Reference("VARCHAR", t, c, p - 1, pos - 1)
                       [] OTHER                   -> put_int32(cells[pos])]
  BY <1>1, <1>2, <1>3, <1>4, <1>5 DEF Scanned
<1>7. n \in Nat /\ made = [pos \in 1 .. n |-> made[pos]]
  BY <1>3, <1>4, <1>6
<1>8. ASSUME NEW pos \in 1 .. n PROVE made[pos] \in R
  <2>1. cells[pos] \in Cells \cup {Null} /\ p - 1 \in Nat /\ pos - 1 \in Nat
    BY <1>3, <1>4
  <2>2. CASE no_nulls(column)
    <3>1. column.pages \in Seq(Seq(Cells \cup {Null}))
      BY <1>1
    <3>2. cells \in Range(column.pages)
      BY <1>1, <1>2, <3>1 DEF Range
    <3>3. Null \notin Range(cells)
      BY <2>2, <3>2 DEF no_nulls
    <3>4. cells[pos] # Null
      BY <1>3, <1>4, <3>3 DEF Range
    <3>5. made[pos] = Reference("INT32_NO_NULL", t, c, p - 1, pos - 1)
      <4>1. column.type # "VARCHAR"
        BY <2>2 DEF no_nulls
      <4> QED
        BY <1>6, <2>2, <3>4, <4>1
    <3>6. R = Right(TRUE, Original(t, c))
      BY <1>1, <2>2
    <3>7. Reference("INT32_NO_NULL", t, c, p - 1, pos - 1) \in Right(TRUE, Original(t, c))
      BY <2>1 DEF Right, Reference, Values
    <3> QED
      BY <3>5, <3>6, <3>7
  <2>3. CASE ~no_nulls(column)
    <3>1. R = Right(FALSE, NoOriginal)
      <4>1. no_nulls(column) \in BOOLEAN
        BY DEF no_nulls
      <4>2. no_nulls(column) = FALSE
        BY <2>3, <4>1
      <4> QED
        BY <1>1, <4>2
    <3>2. CASE cells[pos] = Null
      <4>1. made[pos] = make_null
        BY <1>6, <3>2
      <4>2. make_null \in Right(FALSE, NoOriginal)
        BY DEF make_null, Right, Values
      <4> QED
        BY <3>1, <4>1, <4>2
    <3>3. CASE cells[pos] # Null /\ column.type = "VARCHAR"
      <4>1. made[pos] = Reference("VARCHAR", t, c, p - 1, pos - 1)
        BY <1>6, <2>3, <3>3
      <4>2. Reference("VARCHAR", t, c, p - 1, pos - 1) \in Right(FALSE, NoOriginal)
        BY <2>1 DEF Reference, Right, Values
      <4> QED
        BY <3>1, <4>1, <4>2
    <3>4. CASE cells[pos] # Null /\ column.type # "VARCHAR"
      <4>1. made[pos] = put_int32(cells[pos])
        BY <1>6, <2>3, <3>4
      <4>2. put_int32(cells[pos]) \in Right(FALSE, NoOriginal)
        BY <2>1, <3>4 DEF put_int32, make_null, Right, Values
      <4> QED
        BY <3>1, <4>1, <4>2
    <3> QED
      BY <3>2, <3>3, <3>4
  <2> QED
    BY <2>2, <2>3
<1>9. made \in Seq(R) /\ Len(made) = n
  BY <1>7, <1>8, IsSeq
<1> QED
  BY <1>1, <1>2, <1>4, <1>5, <1>9

(* Values that are right are values.                                       *)
LEMMA RightValues ==
    ASSUME NEW no_null, NEW original
    PROVE  Seq(Right(no_null, original)) \subseteq Seq(Values)
<1>1. PICK R : R = Right(no_null, original)
  OBVIOUS
<1>2. R \subseteq Values
  BY <1>1 DEF Right
<1> QED
  BY <1>1, <1>2

(* The values that a scan makes of a column's cells. *)
Values_of(t, c) ==
    FlattenSeq([p \in DOMAIN Input(t, c).pages |-> Scanned(t, c, p)])

(* The values of a scanned column: right ones, as many as its cells.       *)
LEMMA ScannedColumn ==
    ASSUME NEW t \in Nat, NEW c \in Nat,
           Input(t, c).pages \in Seq(Seq(Cells \cup {Null})),
           NEW R, R = Right(no_nulls(Input(t, c)),
                            IF no_nulls(Input(t, c)) THEN Original(t, c) ELSE NoOriginal)
    PROVE  /\ Values_of(t, c) \in Seq(R)
           /\ Len(Values_of(t, c)) = Len(FlattenSeq(Input(t, c).pages))
<1>1. PICK pages : pages = Input(t, c).pages
  OBVIOUS
<1>2. pages \in Seq(Seq(Cells \cup {Null})) /\ DOMAIN pages = 1 .. Len(pages)
  BY <1>1
<1>3. PICK made : made = [p \in DOMAIN pages |-> Scanned(t, c, p)]
  OBVIOUS
<1>4. PICK n : n = Len(pages)
  OBVIOUS
<1>5. n \in Nat /\ made = [p \in 1 .. n |-> Scanned(t, c, p)]
  BY <1>2, <1>3, <1>4
<1>6. \A p \in 1 .. n : made[p] \in Seq(R) /\ Len(made[p]) = Len(pages[p])
  BY <1>1, <1>4, <1>5, ScannedValues
<1>7. made = [p \in 1 .. n |-> made[p]]
  BY <1>5
<1>8. made \in Seq(Seq(R)) /\ Len(made) = n /\ DOMAIN made = 1 .. n
  BY <1>5, <1>6, <1>7, IsSeq
<1>9. Shape(made) = Shape(pages)
  BY <1>2, <1>4, <1>6, <1>8 DEF Shape
<1>10. Values_of(t, c) = FlattenSeq(made)
  BY <1>1, <1>3 DEF Values_of
<1>11. FlattenSeq(made) \in Seq(R)
  BY <1>8, FlattenRange
<1>12. Len(FlattenSeq(made)) = Len(FlattenSeq(pages))
  BY <1>2, <1>8, <1>9, FlattenLength
<1> QED
  BY <1>1, <1>10, <1>11, <1>12

(* The column that a scan makes of one of its table. *)
LEMMA CopiedColumn ==
    ASSUME NEW t \in Nat, NEW c \in Nat,
           Input(t, c).pages \in Seq(Seq(Cells \cup {Null})), Input(t, c).type \in DataTypes
    PROVE  /\ GoodColumn(copy_scan(t, c))
           /\ copy_scan(t, c).pages = append_all(<<>>, Values_of(t, c), PageSlots)
           /\ copy_scan(t, c).type = Input(t, c).type \/ Input(t, c).pages = <<>>
<1>1. PICK no_null : no_null = no_nulls(Input(t, c))
  OBVIOUS
<1>2. PICK original : original = IF no_null THEN Original(t, c) ELSE NoOriginal
  OBVIOUS
<1>3. no_null \in BOOLEAN
  BY <1>1 DEF no_nulls
<1>4. original \in Origins
  BY <1>2 DEF Original, NoOriginal, Origins
<1>5. PICK R : R = Right(no_null, original)
  OBVIOUS
<1>6. PICK values : values = Values_of(t, c)
  OBVIOUS
<1>7. values \in Seq(R)
  BY <1>1, <1>2, <1>5, <1>6, ScannedColumn
<1>8. PICK pages : pages = append_all(<<>>, values, PageSlots)
  OBVIOUS
<1>9. pages \in Seq(Seq(R)) /\ PagesWithin(pages, PageSlots)
  <2>1. PageSlots \in Nat \ {0} /\ Len(values) = Len(values)
    BY JoinPagesAssumption
  <2> QED
    BY <1>7, <1>8, <2>1, FilledPages
<1>10. PICK type : type = scanned_type(Input(t, c))
  OBVIOUS
<1>11. type \in DataTypes /\ (type = Input(t, c).type \/ Input(t, c).pages = <<>>)
  BY <1>10 DEF scanned_type, DataTypes
<1>12. PICK new : new = [type |-> type, pages |-> pages, is_no_null |-> no_null,
                         original_pages |-> original]
  OBVIOUS
<1>13. copy_scan(t, c) = new
  BY <1>1, <1>2, <1>6, <1>8, <1>10, <1>12 DEF copy_scan, copied, Values_of
<1>14. pages \in Seq(Seq(Values))
  BY <1>5, <1>9, RightValues
<1>15. new \in Columns
  BY <1>3, <1>4, <1>11, <1>12, <1>14 DEF Columns
<1>16. new.pages = pages /\ new.is_no_null = no_null /\ new.original_pages = original
       /\ new.type = type
  BY <1>12
<1>17. GoodColumn(new)
  BY <1>5, <1>9, <1>15, <1>16 DEF GoodColumn
<1> QED
  BY <1>6, <1>8, <1>11, <1>13, <1>16, <1>17

LEMMA OfAttributes ==
    ASSUME NEW attrs \in Seq(Attributes)
    PROVE  /\ Len(attrs) \in Nat
           /\ \A k \in DOMAIN attrs : attrs[k].col \in Nat /\ attrs[k].type \in DataTypes
<1>1. \A k \in DOMAIN attrs : attrs[k] \in Attributes
  OBVIOUS
<1> QED
  BY <1>1 DEF Attributes

(* What a scan asks for: columns of its table. *)
Asks(p, t, attrs) ==
    /\ attrs \in Seq(Attributes) /\ t \in Nat
    /\ t + 1 \in DOMAIN p.inputs
    /\ \A k \in DOMAIN attrs :
         /\ attrs[k].col \in Nat
         /\ attrs[k].col + 1 \in DOMAIN p.inputs[t + 1]
         /\ attrs[k].type = p.inputs[t + 1][attrs[k].col + 1].type

(* A scan asks for columns of an input of the plan.                        *)
LEMMA ScanNode ==
    ASSUME NEW p, NEW n, IsNode(p, n), n.op = "scan",
           NEW attrs, attrs = n.output_attrs, NEW t, t = n.base_table_id
    PROVE  Asks(p, t, attrs)
<1>1. attrs \in Seq(Attributes)
  BY DEF IsNode
<1>2. \A k \in DOMAIN attrs : attrs[k].col \in Nat
  BY <1>1, OfAttributes
<1>3. IsScan(p, n)
  BY DEF IsNode, IsJoin
<1>4. t \in Nat /\ t + 1 \in DOMAIN p.inputs
  BY <1>3 DEF IsScan
<1>5. ASSUME NEW k \in DOMAIN attrs
      PROVE  /\ attrs[k].col + 1 \in DOMAIN p.inputs[t + 1]
             /\ attrs[k].type = p.inputs[t + 1][attrs[k].col + 1].type
  <2>1. k \in DOMAIN n.output_attrs /\ attrs[k] = n.output_attrs[k]
    OBVIOUS
  <2>2. /\ n.output_attrs[k].col + 1 \in DOMAIN p.inputs[n.base_table_id + 1]
        /\ n.output_attrs[k].type =
             p.inputs[n.base_table_id + 1][n.output_attrs[k].col + 1].type
    BY ZenonT(30), <1>3, <2>1 DEF IsScan
  <2> QED
    BY <2>1, <2>2
<1> QED
  BY <1>1, <1>2, <1>4, <1>5 DEF Asks

(* The columns of a scan. *)
Copies(n) ==
    [k \in DOMAIN n.output_attrs |-> copy_scan(n.base_table_id, n.output_attrs[k].col)]

(* A scan results in the columns that its node asks for. *)
LEMMA ScanResult ==
    ASSUME plan \in Plans, NEW n \in DOMAIN plan.nodes, plan.nodes[n].op = "scan",
           NEW columns, columns = Copies(plan.nodes[n])
    PROVE  IsResult(plan, n, columns)
<1>1. PICK the, attrs, t : the = plan.nodes[n] /\ attrs = the.output_attrs
                           /\ t = the.base_table_id
  OBVIOUS
<1>2. IsNode(plan, the)
  BY <1>1, PlansAssumption
<1>3. /\ attrs \in Seq(Attributes) /\ t \in Nat
      /\ t + 1 \in DOMAIN plan.inputs
      /\ \A k \in DOMAIN attrs :
           /\ attrs[k].col \in Nat
           /\ attrs[k].col + 1 \in DOMAIN plan.inputs[t + 1]
           /\ attrs[k].type = plan.inputs[t + 1][attrs[k].col + 1].type
  <2>1. IsNode(plan, the) /\ the.op = "scan" /\ attrs = the.output_attrs /\ t = the.base_table_id
    BY <1>1, <1>2
  <2>2. Asks(plan, t, attrs)
    BY <2>1, ScanNode
  <2> QED
    BY <2>2 DEF Asks
<1>4. PICK table_ : table_ = plan.inputs[t + 1]
  OBVIOUS
<1>5. IsInput(table_)
  BY <1>3, <1>4, PlansAssumption
<1>6. PICK m : m = Len(attrs)
  OBVIOUS
<1>7. m \in Nat /\ DOMAIN attrs = 1 .. m
  BY <1>3, <1>6
<1>8. columns = [k \in 1 .. m |-> copy_scan(t, attrs[k].col)]
  BY <1>1, <1>7 DEF Copies
<1>9. ASSUME NEW k \in 1 .. m, NEW c, c = attrs[k].col
      PROVE  /\ c \in Nat /\ c + 1 \in DOMAIN table_ /\ Input(t, c) = table_[c + 1]
             /\ Input(t, c).pages \in Seq(Seq(Cells \cup {Null})) /\ Input(t, c).type \in DataTypes
             /\ attrs[k].type = Input(t, c).type
             /\ columns[k] = copy_scan(t, c)
  <2>1. c \in Nat /\ c + 1 \in DOMAIN table_ /\ attrs[k].type = table_[c + 1].type
    BY <1>3, <1>4, <1>7, <1>9
  <2>2. Input(t, c) = table_[c + 1]
    BY <1>4 DEF Input
  <2>3. Input(t, c).pages \in Seq(Seq(Cells \cup {Null})) /\ Input(t, c).type \in DataTypes
    BY <1>5, <2>1, <2>2, InputCells
  <2> QED
    BY <1>8, <1>9, <2>1, <2>2, <2>3
<1>10. ASSUME NEW k \in 1 .. m
       PROVE  /\ GoodColumn(columns[k]) /\ columns[k] \in Columns
              /\ \/ columns[k].type = attrs[k].type
                 \/ plan.inputs[t + 1][attrs[k].col + 1].pages = <<>>
  <2>1. PICK c : c = attrs[k].col
    OBVIOUS
  <2>2. /\ c \in Nat /\ columns[k] = copy_scan(t, c) /\ t \in Nat
        /\ Input(t, c).pages \in Seq(Seq(Cells \cup {Null})) /\ Input(t, c).type \in DataTypes
    BY <1>3, <1>9, <2>1
  <2>3. /\ GoodColumn(columns[k])
        /\ columns[k].type = Input(t, c).type \/ Input(t, c).pages = <<>>
    BY <2>2, CopiedColumn
  <2>4. attrs[k].type = Input(t, c).type /\ Input(t, c) = plan.inputs[t + 1][attrs[k].col + 1]
    BY <1>4, <1>9, <2>1
  <2> QED
    BY <2>3, <2>4 DEF GoodColumn
<1>11. ASSUME NEW k \in 1 .. m, NEW j \in 1 .. m
       PROVE  Shape(columns[k].pages) = Shape(columns[j].pages)
  <2>1. PICK c, d : c = attrs[k].col /\ d = attrs[j].col
    OBVIOUS
  <2>2. PICK a, b : a = Values_of(t, c) /\ b = Values_of(t, d)
    OBVIOUS
  <2>3. a \in Seq(Values) /\ Len(a) = Len(FlattenSeq(Input(t, c).pages))
    BY <1>3, <1>9, <2>1, <2>2, ScannedColumn, RightValues
  <2>4. b \in Seq(Values) /\ Len(b) = Len(FlattenSeq(Input(t, d).pages))
    BY <1>3, <1>9, <2>1, <2>2, ScannedColumn, RightValues
  <2>5. Len(a) = Len(b)
    <3>1. /\ c + 1 \in DOMAIN table_ /\ d + 1 \in DOMAIN table_
          /\ Input(t, c) = table_[c + 1] /\ Input(t, d) = table_[d + 1]
      BY <1>9, <2>1
    <3>2. Len(FlattenSeq(table_[c + 1].pages)) = Len(FlattenSeq(table_[d + 1].pages))
      BY <1>5, <3>1 DEF IsInput
    <3> QED
      BY <2>3, <2>4, <3>1, <3>2
  <2>6. PageSlots \in Nat \ {0}
    BY JoinPagesAssumption
  <2>7. Shape(append_all(<<>>, a, PageSlots)) = Shape(append_all(<<>>, b, PageSlots))
    BY <2>3, <2>4, <2>5, <2>6, FilledPages
  <2>8. /\ c \in Nat /\ columns[k] = copy_scan(t, c) /\ t \in Nat
        /\ Input(t, c).pages \in Seq(Seq(Cells \cup {Null})) /\ Input(t, c).type \in DataTypes
    BY <1>3, <1>9, <2>1
  <2>9. /\ d \in Nat /\ columns[j] = copy_scan(t, d)
        /\ Input(t, d).pages \in Seq(Seq(Cells \cup {Null})) /\ Input(t, d).type \in DataTypes
    BY <1>3, <1>9, <2>1
  <2>10. columns[k].pages = append_all(<<>>, a, PageSlots)
    BY <2>2, <2>8, CopiedColumn
  <2>11. columns[j].pages = append_all(<<>>, b, PageSlots)
    BY <2>2, <2>8, <2>9, CopiedColumn
  <2> QED
    BY <2>7, <2>10, <2>11
<1>12. columns = [k \in 1 .. m |-> columns[k]]
  BY <1>8
<1>13. columns \in Seq(Columns) /\ Len(columns) = m /\ DOMAIN columns = 1 .. m
  BY <1>7, <1>10, <1>12, IsSeq
<1>14. Typed(plan, the, columns)
  <2>1. ASSUME NEW k \in 1 .. m PROVE OfType(plan, the, attrs[k], columns[k].type)
    <3>1. PICK a, type : a = attrs[k] /\ type = columns[k].type
      OBVIOUS
    <3>2. type = a.type \/ plan.inputs[t + 1][a.col + 1].pages = <<>>
      BY <1>10, <3>1
    <3>3. the.op = "scan" /\ the.base_table_id = t
      BY <1>1
    <3>4. OfType(plan, the, a, type)
      BY <3>2, <3>3 DEF OfType
    <3> QED
      BY <3>1, <3>4
  <2> QED
    BY <1>1, <1>13, <2>1 DEF Typed
<1> QED
  BY <1>1, <1>6, <1>10, <1>11, <1>13, <1>14 DEF IsResult

MadeOf(f, pages, W) ==
    /\ f = [p \in DOMAIN pages |-> f[p]]
    /\ \A p \in DOMAIN pages : f[p] = [s \in DOMAIN pages[p] |-> f[p][s]]
    /\ \A p \in DOMAIN pages : \A s \in DOMAIN pages[p] : f[p][s] \in W

(* Pages made slot by slot from others have their shape. *)
LEMMA SameShape ==
    ASSUME NEW V, NEW pages \in Seq(Seq(V)), PagesWithin(pages, PageSlots), NEW W, NEW f,
           MadeOf(f, pages, W)
    PROVE  f \in Seq(Seq(W)) /\ Shape(f) = Shape(pages) /\ PagesWithin(f, PageSlots)
<1>1. PICK n : n = Len(pages)
  OBVIOUS
<1>2. n \in Nat /\ DOMAIN pages = 1 .. n
  BY <1>1
<1>3. ASSUME NEW p \in 1 .. n
      PROVE  f[p] \in Seq(W) /\ Len(f[p]) = Len(pages[p])
  <2>1. PICK m, g : m = Len(pages[p]) /\ g = f[p]
    OBVIOUS
  <2>2. pages[p] \in Seq(V)
    BY <1>2
  <2>3. m \in Nat /\ DOMAIN pages[p] = 1 .. m
    BY <2>1, <2>2
  <2>4. g = [s \in 1 .. m |-> g[s]] /\ \A s \in 1 .. m : g[s] \in W
    BY <1>2, <2>1, <2>3 DEF MadeOf
  <2>5. g \in Seq(W) /\ Len(g) = m
    BY <2>3, <2>4, IsSeq
  <2> QED
    BY <2>1, <2>5
<1>4. f = [p \in 1 .. n |-> f[p]]
  BY <1>2 DEF MadeOf
<1>5. f \in Seq(Seq(W)) /\ Len(f) = n /\ DOMAIN f = 1 .. n
  BY <1>2, <1>3, <1>4, IsSeq
<1>6. Shape(f) = Shape(pages)
  BY <1>2, <1>3, <1>5 DEF Shape
<1>7. PagesWithin(f, PageSlots)
  BY <1>2, <1>3, <1>5 DEF PagesWithin
<1> QED
  BY <1>5, <1>6, <1>7

HaveShape(keys, pages) ==
    \E W : /\ keys \in Seq(Seq(W))
           /\ Shape(keys) = Shape(pages) /\ PagesWithin(keys, PageSlots)

(* The keys of a column lie where its values do. *)
LEMMA KeysOfColumn ==
    ASSUME NEW column, GoodColumn(column)
    PROVE  HaveShape(Keys(column), column.pages)
<1>1. PICK pages : pages = column.pages
  OBVIOUS
<1>2. column \in Columns
  BY DEF GoodColumn
<1>3. pages \in Seq(Seq(Values)) /\ PagesWithin(pages, PageSlots)
  BY <1>1, <1>2 DEF GoodColumn, Columns
<1>4. PICK keys : keys = Keys(column)
  OBVIOUS
<1>5. keys = [p \in DOMAIN pages |-> [s \in DOMAIN pages[p] |-> KeyOf(pages[p][s], column)]]
  BY <1>1, <1>4 DEF Keys
<1>6. PICK W : W = {KeyOf(v, column) : v \in Values}
  OBVIOUS
<1>7. ASSUME NEW p \in DOMAIN pages, NEW s \in DOMAIN pages[p]
      PROVE  keys[p][s] \in W
  <2>1. pages[p] \in Seq(Values)
    BY <1>3
  <2>2. pages[p][s] \in Values
    BY <2>1
  <2>3. keys[p][s] = KeyOf(pages[p][s], column)
    BY <1>5
  <2> QED
    BY <1>6, <2>2, <2>3
<1>8. keys = [p \in DOMAIN pages |-> keys[p]]
  BY <1>5
<1>9. \A p \in DOMAIN pages : keys[p] = [s \in DOMAIN pages[p] |-> keys[p][s]]
  BY <1>5
<1>10. MadeOf(keys, pages, W)
  BY <1>7, <1>8, <1>9 DEF MadeOf
<1>11. keys \in Seq(Seq(W)) /\ Shape(keys) = Shape(pages) /\ PagesWithin(keys, PageSlots)
  BY <1>3, <1>10, SameShape
<1> QED
  BY <1>1, <1>4, <1>11 DEF HaveShape

(* What a join asks for: columns of its inputs. *)
Joins(p, n, attrs, l, r) ==
    /\ attrs \in Seq(Attributes) /\ l \in Nat /\ r \in Nat
    /\ n.left_attr + 1 \in 1 .. l /\ n.right_attr + 1 \in 1 .. r
    /\ n.left \in DOMAIN p.nodes /\ n.right \in DOMAIN p.nodes
    /\ \A k \in DOMAIN attrs : attrs[k].col \in Nat /\ attrs[k].col < l + r

(* A join asks for columns of its inputs, nodes of the plan.               *)
LEMMA JoinNode ==
    ASSUME NEW p, NEW n, n.op = "join", IsNode(p, n),
           \A m \in DOMAIN p.nodes : IsNode(p, p.nodes[m])
    PROVE  /\ Joins(p, n, n.output_attrs, Len(p.nodes[n.left].output_attrs),
                    Len(p.nodes[n.right].output_attrs))
           /\ n.build_left \in BOOLEAN
<1>1. PICK l, r : l = Len(p.nodes[n.left].output_attrs) /\ r = Len(p.nodes[n.right].output_attrs)
  OBVIOUS
<1>2. PICK attrs : attrs = n.output_attrs
  OBVIOUS
<1>3. IsJoin(p, n)
  <2>1. n.op # "scan"
    OBVIOUS
  <2>2. ~IsScan(p, n)
    BY <2>1 DEF IsScan
  <2>3. IsScan(p, n) \/ IsJoin(p, n)
    BY Zenon DEF IsNode
  <2> QED
    BY <2>2, <2>3
<1>4. n.left \in DOMAIN p.nodes /\ n.right \in DOMAIN p.nodes /\ n.build_left \in BOOLEAN
  BY <1>3 DEF IsJoin
<1>5. attrs \in Seq(Attributes) /\ l \in Nat /\ r \in Nat
  <2>1. IsNode(p, p.nodes[n.left]) /\ IsNode(p, p.nodes[n.right])
    BY <1>4
  <2>2. PICK a, b : a = p.nodes[n.left].output_attrs /\ b = p.nodes[n.right].output_attrs
    OBVIOUS
  <2>3. attrs \in Seq(Attributes) /\ a \in Seq(Attributes) /\ b \in Seq(Attributes)
    BY <1>2, <2>1, <2>2 DEF IsNode
  <2> QED
    BY <1>1, <2>2, <2>3, OfAttributes
<1>6. n.left_attr \in 0 .. l - 1 /\ n.right_attr \in 0 .. r - 1
  BY <1>1, <1>3 DEF IsJoin
<1>7. \A k \in DOMAIN attrs : attrs[k].col < l + r
  BY <1>1, <1>2, <1>3 DEF IsJoin
<1>8. \A k \in DOMAIN attrs : attrs[k].col \in Nat
  BY <1>5, OfAttributes
<1>9. n.left_attr + 1 \in 1 .. l /\ n.right_attr + 1 \in 1 .. r
  <2>1. PICK x, y : x = n.left_attr /\ y = n.right_attr
    OBVIOUS
  <2>2. l \in Nat /\ r \in Nat /\ x \in 0 .. l - 1 /\ y \in 0 .. r - 1
    BY <1>5, <1>6, <2>1
  <2>3. x + 1 \in 1 .. l /\ y + 1 \in 1 .. r
    BY <2>2
  <2> QED
    BY <2>1, <2>3
<1>10. Joins(p, n, attrs, l, r)
  BY <1>5, <1>4, <1>7, <1>8, <1>9 DEF Joins
<1> QED
  BY <1>1, <1>2, <1>4, <1>10

(* The flag and the pages of a column of the result are those of the       *)
(* column it is copied from.                                               *)
SameFlag(new, type, from) ==
    \E no_null \in BOOLEAN, original \in Origins :
        /\ new = [type |-> type, pages |-> <<>>, is_no_null |-> no_null,
                  original_pages |-> original]
        /\ no_null = from.is_no_null
        /\ no_null => original = from.original_pages

(* A result column takes over the flag of the column it is copied from.    *)
LEMMA ResultColumn ==
    ASSUME NEW attr, attr.col \in Nat, NEW left \in Seq(Columns), NEW right \in Seq(Columns),
           attr.col < Len(left) + Len(right), NEW join, NEW from,
           from = source(join, attr, left, right).column
    PROVE  SameFlag(result_column(attr, left, right), attr.type, from)
<1>1. PICK c, l, r : c = attr.col /\ l = Len(left) /\ r = Len(right)
  OBVIOUS
<1>2. c \in Nat /\ l \in Nat /\ r \in Nat /\ c < l + r
      /\ DOMAIN left = 1 .. l /\ DOMAIN right = 1 .. r
  BY <1>1
<1>3. PICK type, new : type = attr.type /\ new = result_column(attr, left, right)
  OBVIOUS
<1>4. PICK none : none = NoOriginal
  OBVIOUS
<1>5. none \in Origins
  BY <1>4 DEF NoOriginal, Origins
<1>6. PICK empty : empty = [type |-> type, pages |-> <<>>, is_no_null |-> FALSE,
                            original_pages |-> none]
  OBVIOUS
<1>7. NewColumn(type) = empty
  BY <1>4, <1>6 DEF NewColumn
<1>8. from \in Columns
  <2>1. CASE c < l
    <3>1. from = left[c + 1]
      BY <1>1, <2>1 DEF source
    <3>2. c + 1 \in 1 .. l
      BY <1>2, <2>1
    <3> QED
      BY <1>1, <3>1, <3>2
  <2>2. CASE ~(c < l)
    <3>1. from = right[c - l + 1]
      BY <1>1, <2>2 DEF source
    <3>2. c - l + 1 \in 1 .. r
      BY <1>2, <2>2
    <3> QED
      BY <1>1, <3>1, <3>2
  <2> QED
    BY <2>1, <2>2
<1>9. /\ from.is_no_null \in BOOLEAN
      /\ from.original_pages \in Origins
  BY <1>8 DEF Columns
<1>10. CASE from.is_no_null
  <2>1. new = [empty EXCEPT !.is_no_null = TRUE, !.original_pages = from.original_pages]
    <3>1. CASE c < l
      <4>1. from = left[c + 1]
        BY <1>1, <3>1 DEF source
      <4> QED
        BY <1>1, <1>3, <1>7, <1>10, <3>1, <4>1 DEF result_column
    <3>2. CASE ~(c < l)
      <4>1. from = right[c - l + 1]
        BY <1>1, <3>2 DEF source
      <4>2. c - l \in 0 .. r - 1
        BY <1>2, <3>2
      <4> QED
        BY <1>1, <1>3, <1>7, <1>10, <3>2, <4>1, <4>2 DEF result_column
    <3> QED
      BY <3>1, <3>2
  <2>2. PICK o : o = from.original_pages
    OBVIOUS
  <2>3. new = [type |-> type, pages |-> <<>>, is_no_null |-> TRUE, original_pages |-> o]
    BY <1>6, <2>1, <2>2
  <2>4. from.is_no_null = TRUE
    BY <1>9, <1>10
  <2>5. SameFlag(new, type, from)
    BY <1>9, <2>2, <2>3, <2>4 DEF SameFlag
  <2> QED
    BY <1>3, <2>5
<1>11. CASE ~from.is_no_null
  <2>1. new = empty
    <3>1. CASE c < l
      <4>1. from = left[c + 1]
        BY <1>1, <3>1 DEF source
      <4>2. c - l \notin 0 .. r - 1
        BY <1>2, <3>1
      <4> QED
        BY <1>1, <1>3, <1>7, <1>11, <3>1, <4>1, <4>2 DEF result_column
    <3>2. CASE ~(c < l)
      <4>1. from = right[c - l + 1]
        BY <1>1, <3>2 DEF source
      <4> QED
        BY <1>1, <1>3, <1>7, <1>11, <3>2, <4>1 DEF result_column
    <3> QED
      BY <3>1, <3>2
  <2>2. from.is_no_null = FALSE
    BY <1>9, <1>11
  <2>3. SameFlag(new, type, from)
    BY <1>5, <1>6, <2>1, <2>2 DEF SameFlag
  <2> QED
    BY <1>3, <2>3
<1> QED
  BY <1>10, <1>11

(* Columns that lie side by side. *)
SideBySide(columns) ==
    /\ columns \in Seq(Columns)
    /\ \A k \in DOMAIN columns : GoodColumn(columns[k])
    /\ \A k, m \in DOMAIN columns : Shape(columns[k].pages) = Shape(columns[m].pages)

(* The column that an attribute is copied from lies beside the join column *)
(* of the side whose position is used.                                     *)
LEMMA BesideKeys ==
    ASSUME NEW left, SideBySide(left), NEW right, SideBySide(right),
           NEW join, join.build_left \in BOOLEAN,
           join.left_attr + 1 \in 1 .. Len(left), join.right_attr + 1 \in 1 .. Len(right),
           NEW attr, attr.col \in Nat, attr.col < Len(left) + Len(right),
           NEW src, src = source(join, attr, left, right),
           NEW build, build = JoinColumn(join, left, right, join.build_left),
           NEW probe, probe = JoinColumn(join, left, right, ~join.build_left)
    PROVE  /\ GoodColumn(src.column) /\ GoodColumn(build) /\ GoodColumn(probe)
           /\ \/ src.side = 1 /\ Shape(src.column.pages) = Shape(build.pages)
              \/ src.side = 2 /\ Shape(src.column.pages) = Shape(probe.pages)
<1>1. PICK c, l, r, i, j : /\ c = attr.col /\ l = Len(left) /\ r = Len(right)
                           /\ i = join.left_attr + 1 /\ j = join.right_attr + 1
  OBVIOUS
<1>2. PICK of_left, of_right : of_left = left[i] /\ of_right = right[j]
  OBVIOUS
<1>3. /\ c \in Nat /\ l \in Nat /\ r \in Nat /\ c < l + r
      /\ DOMAIN left = 1 .. l /\ DOMAIN right = 1 .. r /\ i \in 1 .. l /\ j \in 1 .. r
  BY <1>1 DEF SideBySide
<1>4. GoodColumn(of_left) /\ GoodColumn(of_right)
  BY <1>2, <1>3 DEF SideBySide
<1>5. JoinColumn(join, left, right, TRUE) = of_left /\ JoinColumn(join, left, right, FALSE) = of_right
  BY <1>1, <1>2 DEF JoinColumn
<1>6. CASE c < l
  <2>1. PICK from : from = left[c + 1]
    OBVIOUS
  <2>2. c + 1 \in DOMAIN left
    BY <1>3, <1>6
  <2>3. GoodColumn(from) /\ Shape(from.pages) = Shape(of_left.pages)
    BY <1>2, <1>3, <2>1, <2>2 DEF SideBySide
  <2>4. src = [column |-> from, side |-> IF join.build_left THEN 1 ELSE 2]
    BY <1>1, <1>6, <2>1 DEF source
  <2>5. CASE join.build_left
    <3>1. src.column = from /\ src.side = 1
      BY <2>4, <2>5
    <3>2. build = of_left /\ probe = of_right
      BY <1>5, <2>5
    <3> QED
      BY <1>4, <2>3, <3>1, <3>2
  <2>6. CASE ~join.build_left
    <3>1. src.column = from /\ src.side = 2
      BY <2>4, <2>6
    <3>2. build = of_right /\ probe = of_left
      BY <1>5, <2>6
    <3> QED
      BY <1>4, <2>3, <3>1, <3>2
  <2> QED
    BY <2>5, <2>6
<1>7. CASE ~(c < l)
  <2>1. PICK from : from = right[c - l + 1]
    OBVIOUS
  <2>2. c - l + 1 \in DOMAIN right
    BY <1>3, <1>7
  <2>3. GoodColumn(from) /\ Shape(from.pages) = Shape(of_right.pages)
    BY <1>2, <1>3, <2>1, <2>2 DEF SideBySide
  <2>4. src = [column |-> from, side |-> IF join.build_left THEN 2 ELSE 1]
    BY <1>1, <1>7, <2>1 DEF source
  <2>5. CASE join.build_left
    <3>1. src.column = from /\ src.side = 2
      BY <2>4, <2>5
    <3>2. build = of_left /\ probe = of_right
      BY <1>5, <2>5
    <3> QED
      BY <1>4, <2>3, <3>1, <3>2
  <2>6. CASE ~join.build_left
    <3>1. src.column = from /\ src.side = 1
      BY <2>4, <2>6
    <3>2. build = of_right /\ probe = of_left
      BY <1>5, <2>6
    <3> QED
      BY <1>4, <2>3, <3>1, <3>2
  <2> QED
    BY <2>5, <2>6
<1> QED
  BY <1>6, <1>7

(* Pages of pairs of positions of the two join columns. *)
PairPages(pages, build, probe) ==
    \E b, p : /\ HaveShape(b, build.pages) /\ HaveShape(p, probe.pages)
              /\ pages \in Seq(Seq(Positions(b) \X Positions(p)))
              /\ PagesWithin(pages, PageSlots)

(* A column of the result has the flag and the values of the one it is     *)
(* copied from, and the shape of the pairs.                                *)
LEMMA JoinedColumn ==
    ASSUME NEW from, GoodColumn(from), NEW side, NEW build, NEW probe,
           \/ side = 1 /\ Shape(from.pages) = Shape(build.pages)
           \/ side = 2 /\ Shape(from.pages) = Shape(probe.pages),
           NEW pages, PairPages(pages, build, probe),
           NEW type \in DataTypes, NEW empty, SameFlag(empty, type, from),
           NEW column, column = Gathered(empty, from, side, pages)
    PROVE  GoodColumn(column) /\ column.type = type /\ Shape(column.pages) = Shape(pages)
<1>1. PICK new : new = [p \in DOMAIN pages |-> [s \in DOMAIN pages[p] |->
                           CellAt(from.pages, pages[p][s][side])]]
  OBVIOUS
<1>2. PICK no_null \in BOOLEAN, original \in Origins :
         /\ empty = [type |-> type, pages |-> <<>>, is_no_null |-> no_null,
                     original_pages |-> original]
         /\ no_null = from.is_no_null
         /\ no_null => original = from.original_pages
  BY DEF SameFlag
<1>3. column = [type |-> type, pages |-> new, is_no_null |-> no_null, original_pages |-> original]
  BY <1>1, <1>2 DEF Gathered
<1>4. PICK R : R = Right(no_null, original)
  OBVIOUS
<1>5. PICK cells : cells = from.pages
  OBVIOUS
<1>6. cells \in Seq(Seq(R)) /\ PagesWithin(cells, PageSlots)
  <2>1. cells \in Seq(Seq(Right(no_null, from.original_pages))) /\ PagesWithin(cells, PageSlots)
    BY <1>2, <1>5 DEF GoodColumn
  <2>2. R = Right(no_null, from.original_pages)
    <3>1. CASE no_null
      BY <1>2, <1>4, <3>1
    <3>2. CASE ~no_null
      BY <1>4, <3>2 DEF Right
    <3> QED
      BY <3>1, <3>2
  <2> QED
    BY <2>1, <2>2
<1>7. PICK b, q : /\ HaveShape(b, build.pages) /\ HaveShape(q, probe.pages)
                  /\ pages \in Seq(Seq(Positions(b) \X Positions(q)))
                  /\ PagesWithin(pages, PageSlots)
  BY DEF PairPages
<1>8. PICK keys : /\ HaveShape(keys, cells)
                  /\ \A pair \in Positions(b) \X Positions(q) : pair[side] \in Positions(keys)
  <2>1. CASE side = 1 /\ Shape(from.pages) = Shape(build.pages)
    <3>1. HaveShape(b, cells)
      BY <1>5, <1>7, <2>1 DEF HaveShape
    <3>2. \A pair \in Positions(b) \X Positions(q) : pair[1] \in Positions(b)
      OBVIOUS
    <3> QED
      BY <2>1, <3>1, <3>2
  <2>2. CASE side = 2 /\ Shape(from.pages) = Shape(probe.pages)
    <3>1. HaveShape(q, cells)
      BY <1>5, <1>7, <2>2 DEF HaveShape
    <3>2. \A pair \in Positions(b) \X Positions(q) : pair[2] \in Positions(q)
      OBVIOUS
    <3> QED
      BY <2>2, <3>1, <3>2
  <2> QED
    BY <2>1, <2>2
<1>9. PICK W : keys \in Seq(Seq(W)) /\ Shape(keys) = Shape(cells) /\ PagesWithin(keys, PageSlots)
  BY <1>8 DEF HaveShape
<1>10. PICK Pair : Pair = Positions(b) \X Positions(q)
  OBVIOUS
<1>11. pages \in Seq(Seq(Pair)) /\ \A pair \in Pair : pair[side] \in Positions(keys)
  BY <1>7, <1>8, <1>10
<1>12. ASSUME NEW p \in DOMAIN pages, NEW s \in DOMAIN pages[p]
       PROVE  new[p][s] \in R
  <2>1. pages[p] \in Seq(Pair)
    BY <1>11
  <2>2. PICK pair : pair = pages[p][s]
    OBVIOUS
  <2>3. pair \in Pair
    BY <2>1, <2>2
  <2>4. CellAt(cells, pair[side]) \in R
    BY <1>6, <1>9, <1>11, <2>3, CellAtPosition
  <2> QED
    BY <1>1, <1>5, <2>2, <2>4
<1>13. MadeOf(new, pages, R)
  BY <1>1, <1>12 DEF MadeOf
<1>14. new \in Seq(Seq(R)) /\ Shape(new) = Shape(pages) /\ PagesWithin(new, PageSlots)
  BY <1>7, <1>13, SameShape
<1>15. new \in Seq(Seq(Values))
  BY <1>4, <1>14, RightValues
<1>16. column.type = type /\ column.pages = new /\ column.is_no_null = no_null
       /\ column.original_pages = original
  BY <1>3
<1>17. column \in Columns
  <2>1. PICK P : P = Seq(Seq(Values))
    OBVIOUS
  <2>2. column \in [type : DataTypes, pages : P, is_no_null : BOOLEAN, original_pages : Origins]
    BY <1>2, <1>3, <1>15, <2>1
  <2> QED
    BY <2>1, <2>2 DEF Columns
<1> QED
  BY <1>4, <1>14, <1>16, <1>17 DEF GoodColumn

(* A join results in the columns that its node asks for, whatever pages of *)
(* pairs its threads leave.                                                *)
LEMMA JoinResult ==
    ASSUME plan \in Plans, NEW n \in DOMAIN plan.nodes, plan.nodes[n].op = "join",
           NEW left, IsResult(plan, plan.nodes[n].left, left),
           NEW right, IsResult(plan, plan.nodes[n].right, right),
           NEW results \in ResultsOf(plan.nodes[n], left, right)
    PROVE  IsResult(plan, n, results)
<1>1. PICK join : join = plan.nodes[n]
  OBVIOUS
<1>2. PICK attrs, l, r : attrs = join.output_attrs /\ l = Len(left) /\ r = Len(right)
  OBVIOUS
<1>3. /\ SideBySide(left) /\ l = Len(plan.nodes[join.left].output_attrs)
      /\ SideBySide(right) /\ r = Len(plan.nodes[join.right].output_attrs)
  BY <1>1, <1>2 DEF IsResult, SideBySide
<1>4. join.build_left \in BOOLEAN /\ Joins(plan, join, attrs, l, r)
  <2>1. \A m \in DOMAIN plan.nodes : IsNode(plan, plan.nodes[m])
    BY PlansAssumption
  <2>2. IsNode(plan, join) /\ join.op = "join"
    BY <1>1, <2>1
  <2> QED
    BY <1>2, <1>3, <2>1, <2>2, JoinNode
<1>5. /\ attrs \in Seq(Attributes) /\ l \in Nat /\ r \in Nat
      /\ join.left_attr + 1 \in 1 .. l /\ join.right_attr + 1 \in 1 .. r
      /\ \A k \in DOMAIN attrs : attrs[k].col \in Nat /\ attrs[k].col < l + r
  BY <1>4 DEF Joins
<1>6. PICK build, probe : /\ build = JoinColumn(join, left, right, join.build_left)
                          /\ probe = JoinColumn(join, left, right, ~join.build_left)
  OBVIOUS
<1>7. GoodColumn(build) /\ GoodColumn(probe)
  <2>1. PICK i, j : i = join.left_attr + 1 /\ j = join.right_attr + 1
    OBVIOUS
  <2>2. left \in Seq(Columns) /\ right \in Seq(Columns)
    BY <1>3 DEF SideBySide
  <2>3. DOMAIN left = 1 .. l /\ DOMAIN right = 1 .. r
    BY <1>2, <2>2
  <2>4. i \in DOMAIN left /\ j \in DOMAIN right
    BY <1>5, <2>1, <2>3
  <2>5. GoodColumn(left[i]) /\ GoodColumn(right[j])
    BY <1>3, <2>4 DEF SideBySide
  <2>6. CASE join.build_left
    <3>1. build = left[i] /\ probe = right[j]
      BY <1>6, <2>1, <2>6 DEF JoinColumn
    <3> QED
      BY <2>5, <3>1
  <2>7. CASE ~join.build_left
    <3>1. build = right[j] /\ probe = left[i]
      BY <1>6, <2>1, <2>7 DEF JoinColumn
    <3> QED
      BY <2>5, <3>1
  <2> QED
    BY <2>6, <2>7
<1>8. PICK b, q : b = Keys(build) /\ q = Keys(probe)
  OBVIOUS
<1>9. HaveShape(b, build.pages) /\ HaveShape(q, probe.pages)
  BY <1>7, <1>8, KeysOfColumn
<1>10. PICK keys : keys = (UNION {Range(p) : p \in Range(q)}) \ {Null}
  OBVIOUS
<1>11. PICK pages \in IF BuildType(join) = "INT32" THEN JoinOutcomes(b, q, keys) ELSE {<<>>} :
         results = Joined(join, left, right, pages)
  <2>1. results \in {Joined(join, left, right, pages) :
            pages \in IF BuildType(join) = "INT32" THEN JoinOutcomes(b, q, keys) ELSE {<<>>}}
    BY <1>1, <1>6, <1>8, <1>10 DEF ResultsOf
  <2> QED
    BY <2>1
<1>12. PairPages(pages, build, probe)
  <2>1. CASE pages \in JoinOutcomes(b, q, keys)
    <3>1. PICK V : b \in Seq(Seq(V)) /\ PagesWithin(b, PageSlots)
      BY <1>9 DEF HaveShape
    <3>2. PICK W : q \in Seq(Seq(W)) /\ PagesWithin(q, PageSlots)
      BY <1>9 DEF HaveShape
    <3>3. /\ pages \in Seq(Seq(Positions(b) \X Positions(q)))
          /\ PagesWithin(pages, PageSlots)
      BY <2>1, <3>1, <3>2, OutcomeHolds
    <3> QED
      BY <1>9, <3>3 DEF PairPages
  <2>2. CASE pages = <<>>
    <3>1. pages \in Seq(Seq(Positions(b) \X Positions(q)))
      BY <2>2, EmptySeq
    <3>2. DOMAIN pages = {}
      BY <2>2
    <3>3. PagesWithin(pages, PageSlots)
      BY <3>2 DEF PagesWithin
    <3> QED
      BY <1>9, <3>1, <3>3 DEF PairPages
  <2> QED
    BY <1>11, <2>1, <2>2
<1>13. PICK m : m = Len(attrs)
  OBVIOUS
<1>14. m \in Nat /\ DOMAIN attrs = 1 .. m
  BY <1>5, <1>13
<1>15. ASSUME NEW k \in 1 .. m
       PROVE  /\ GoodColumn(results[k]) /\ results[k].type = attrs[k].type
              /\ Shape(results[k].pages) = Shape(pages)
  <2>1. PICK attr : attr = attrs[k]
    OBVIOUS
  <2>2. /\ attr.col \in Nat /\ attr.col < Len(left) + Len(right) /\ attr.type \in DataTypes
    BY <1>2, <1>5, <1>14, <2>1, OfAttributes
  <2>3. PICK src, empty : /\ src = source(join, attr, left, right)
                          /\ empty = result_column(attr, left, right)
    OBVIOUS
  <2>4. PICK from, side : from = src.column /\ side = src.side
    OBVIOUS
  <2>5. /\ join.left_attr + 1 \in 1 .. Len(left) /\ join.right_attr + 1 \in 1 .. Len(right)
    BY <1>2, <1>5
  <2>6. /\ GoodColumn(from)
        /\ \/ side = 1 /\ Shape(from.pages) = Shape(build.pages)
           \/ side = 2 /\ Shape(from.pages) = Shape(probe.pages)
    BY <1>3, <1>4, <1>6, <2>2, <2>3, <2>4, <2>5, BesideKeys
  <2>7. SameFlag(empty, attr.type, from)
    <3>1. left \in Seq(Columns) /\ right \in Seq(Columns)
      BY <1>3 DEF SideBySide
    <3> QED
      BY <2>2, <2>3, <2>4, <3>1, ResultColumn
  <2>8. PICK column, type : column = results[k] /\ type = attr.type
    OBVIOUS
  <2>9. column = Gathered(empty, from, side, pages)
    BY <1>2, <1>11, <1>14, <2>1, <2>3, <2>4, <2>8 DEF Joined
  <2>10. type \in DataTypes /\ SameFlag(empty, type, from)
    BY <2>2, <2>7, <2>8
  <2>11. GoodColumn(column) /\ column.type = type /\ Shape(column.pages) = Shape(pages)
    BY <1>12, <2>6, <2>9, <2>10, JoinedColumn
  <2> QED
    BY <2>1, <2>11, <2>8
<1>16. results = [k \in 1 .. m |-> results[k]]
  BY <1>2, <1>11, <1>14 DEF Joined
<1>17. results \in Seq(Columns) /\ Len(results) = m /\ DOMAIN results = 1 .. m
  BY <1>14, <1>15, <1>16, IsSeq DEF GoodColumn
<1>18. Typed(plan, join, results)
  BY <1>2, <1>15, <1>17 DEF Typed, OfType
<1> QED
  BY <1>1, <1>2, <1>13, <1>15, <1>17, <1>18 DEF IsResult

-----------------------------------------------------------------------------
(* The relations that nodes stand for, and what values stand for. *)

(* What a node stands for, by what the nodes before it do. *)
RelationStep(g, p, n) ==
    LET the == p.nodes[n]
    IN  Projected(IF the.op = "scan" THEN InputRows(p.inputs[the.base_table_id + 1])
                  ELSE Inner(g[the.left], g[the.right], the),
                  the.output_attrs)

(* That needs no more than what the nodes before it stand for: a join      *)
(* comes after its inputs.                                                 *)
LEMMA RelationStepLocal ==
    ASSUME NEW p \in Plans, NEW n \in DOMAIN p.nodes, NEW g, NEW h,
           \A c \in 1 .. n - 1 : g[c] = h[c]
    PROVE  RelationStep(g, p, n) = RelationStep(h, p, n)
<1>1. PICK the : the = p.nodes[n]
  OBVIOUS
<1>2. IsNode(p, the) /\ (the.op = "join" => the.left < n /\ the.right < n)
  BY <1>1, PlansAssumption DEF InOrder
<1>3. p.nodes \in Seq(Range(p.nodes))
  BY PlansAssumption DEF InOrder
<1>4. CASE the.op = "scan"
  BY <1>1, <1>4 DEF RelationStep
<1>5. CASE the.op # "scan"
  <2>1. the.op = "join" /\ the.left \in DOMAIN p.nodes /\ the.right \in DOMAIN p.nodes
    BY <1>2, <1>5 DEF IsNode, IsScan, IsJoin
  <2>2. the.left \in 1 .. n - 1 /\ the.right \in 1 .. n - 1
    BY <1>2, <1>3, <2>1
  <2>3. g[the.left] = h[the.left] /\ g[the.right] = h[the.right]
    BY <2>2
  <2> QED
    BY <1>1, <1>5, <2>3 DEF RelationStep
<1> QED
  BY <1>4, <1>5

(* So the recursive definition of Relation defines it at every node.       *)
LEMMA RelationSteps ==
    ASSUME NEW p \in Plans, NEW n \in DOMAIN p.nodes
    PROVE  Relation(p)[n] = RelationStep(Relation(p), p, n)
<1> DEFINE IsFn(g) == g = [c \in DOMAIN p.nodes |-> RelationStep(g, p, c)]
           IsUpTo(g, k) == g = [c \in 1 .. k |-> RelationStep(g, p, c)]
           M == {k \in Nat : \E g : IsUpTo(g, k)}
<1>1. PICK m : m = Len(p.nodes)
  OBVIOUS
<1>2. m \in Nat /\ DOMAIN p.nodes = 1 .. m
  BY <1>1, PlansAssumption DEF InOrder
<1>3. 0 \in M
  <2>1. PICK g : g = [c \in 1 .. 0 |-> 0]
    OBVIOUS
  <2>2. IsUpTo(g, 0)
    BY <2>1
  <2> QED
    BY <2>2
<1>4. ASSUME NEW k \in 0 .. m - 1, k \in M PROVE k + 1 \in M
  <2>1. PICK g : IsUpTo(g, k)
    BY <1>4
  <2>2. PICK h : h = [c \in 1 .. k + 1 |-> RelationStep(g, p, c)]
    OBVIOUS
  <2>3. \A c \in 1 .. k : h[c] = g[c]
    BY <2>1, <2>2
  <2>4. ASSUME NEW c \in 1 .. k + 1 PROVE RelationStep(g, p, c) = RelationStep(h, p, c)
    <3>1. c \in DOMAIN p.nodes
      BY <1>2
    <3>2. \A d \in 1 .. c - 1 : g[d] = h[d]
      BY <2>3
    <3> QED
      BY <3>1, <3>2, RelationStepLocal
  <2>5. IsUpTo(h, k + 1)
    BY <2>2, <2>4
  <2>6. k + 1 \in Nat /\ \E e : IsUpTo(e, k + 1)
    BY <2>5
  <2> QED
    BY <2>6
<1>5. m \in M
  <2>1. \A k \in 0 .. m : k \in M
    <3> HIDE DEF M
    <3> QED
      BY <1>2, <1>3, <1>4, UpTo
  <2> QED
    BY <1>2, <2>1
<1>6. PICK g : IsFn(g)
  <2>1. PICK g : IsUpTo(g, m)
    BY <1>5
  <2>2. IsFn(g)
    BY <1>2, <2>1
  <2> HIDE DEF IsFn
  <2> QED
    BY <2>2
<1>7. PICK e : e = CHOOSE d : IsFn(d)
  OBVIOUS
<1>8. IsFn(e)
  <2> HIDE DEF IsFn
  <2> QED
    BY <1>6, <1>7
<1>9. Relation(p) = e
  BY <1>7 DEF Relation, RelationStep
<1>10. e[n] = RelationStep(e, p, n)
  BY <1>8
<1> QED
  BY <1>9, <1>10

(* What a value stands for. *)
Denotes(p, v) ==
    IF v.mode = "NULL" THEN Null
    ELSE IF v.mode = "INT32" THEN v.value
    ELSE p.inputs[v.table + 1][v.column + 1].pages[v.page + 1][v.pos + 1]

(* A value is of this type, and what is read for a string is the string.   *)
Proper(p, v, type) ==
    /\ Fits(v, type)
    /\ v.mode = "VARCHAR" =>
         StringAt(p.inputs[v.table + 1][v.column + 1].pages[v.page + 1], v.pos + 1) = Denotes(p, v)

(* A column that has values has the type that is asked for, and so have    *)
(* they.                                                                   *)
Suited(p, column, type) ==
    \A b \in Boxes(column.pages) :
        column.type = type /\ Proper(p, column.pages[b[1]][b[2]], type)

Items == Cells \cup {Null}

(* A family of rows of this length.                                        *)
IsRows(rows, len) ==
    \A name \in DOMAIN rows : rows[name] \in Seq(Items) /\ Len(rows[name]) = len

(* B tells of which row the values of a box are. *)
Names(p, columns, rows, B) ==
    /\ B \in Bijection(Boxes(columns[1].pages), DOMAIN rows)
    /\ \A b \in Boxes(columns[1].pages) : \A k \in 1 .. Len(columns) :
         Denotes(p, columns[k].pages[b[1]][b[2]]) = rows[B[b]][k]

(* The columns stand for the relation of node n. *)
Tells(p, n, columns) ==
    /\ IsRows(Relation(p)[n], Len(p.nodes[n].output_attrs))
    /\ \A k \in 1 .. Len(columns) : Suited(p, columns[k], p.nodes[n].output_attrs[k].type)
    /\ \E B : Names(p, columns, Relation(p)[n], B)

(* A plan whose table is to be the relation.                               *)
Faithful(p) == JoinsIntegers(p) /\ InputsKept(p)

(* A string that has characters is read as it is.                          *)
LEMMA StringRead ==
    ASSUME NEW S, NEW page \in Seq(S), NEW pos \in 1 .. Len(page), page[pos] \notin {Null, Empty}
    PROVE  StringAt(page, pos) = page[pos]
<1>1. PICK n, ends : /\ n = Len(page)
                     /\ ends = {i \in pos .. n : page[i] \notin {Null, Empty}}
  OBVIOUS
<1>2. n \in Nat /\ pos \in Nat /\ pos <= n
  BY <1>1
<1>3. pos \in ends /\ \A i \in ends : i \in Int /\ pos <= i
  BY <1>1, <1>2
<1>4. Min(ends) = pos
  <2>1. \A x \in ends : (\A y \in ends : x <= y) => x = pos
    BY <1>2, <1>3
  <2>2. \E x \in ends : \A y \in ends : x <= y
    BY <1>3
  <2> QED
    BY <2>1, <2>2 DEF Min
<1> QED
  BY <1>1, <1>3, <1>4 DEF StringAt

(* The value made for a row of a page stands for what the page has there,  *)
(* if the column holds nothing that values cannot carry.                   *)
LEMMA ScannedDenotes ==
    ASSUME NEW t \in Nat, NEW c \in Nat, Kept(Input(t, c)),
           Input(t, c).pages \in Seq(Seq(Cells \cup {Null})), Input(t, c).type \in DataTypes,
           NEW p \in 1 .. Len(Input(t, c).pages),
           NEW pos \in 1 .. Len(Input(t, c).pages[p])
    PROVE  /\ Denotes(plan, Scanned(t, c, p)[pos]) = Input(t, c).pages[p][pos]
           /\ Proper(plan, Scanned(t, c, p)[pos], Input(t, c).type)
<1>1. PICK column : column = Input(t, c)
  OBVIOUS
<1>2. PICK cells : cells = column.pages[p]
  OBVIOUS
<1>3. cells \in Seq(Cells \cup {Null}) /\ DOMAIN cells = 1 .. Len(cells)
  BY <1>1, <1>2
<1>4. pos \in 1 .. Len(cells)
  BY <1>1, <1>2
<1>5. PICK v : v = Scanned(t, c, p)[pos]
  OBVIOUS
<1>6. v = IF cells[pos] = Null THEN make_null
          ELSE CASE no_nulls(column)        -> Reference("INT32_NO_NULL", t, c, p - 1, pos - 1)
                 [] column.type = "VARCHAR" -> Reference("VARCHAR", t, c, p - 1, pos - 1)
                 [] OTHER                   -> put_int32(cells[pos])
  BY <1>1, <1>2, <1>3, <1>4, <1>5 DEF Scanned
<1>7. p \in Nat /\ pos \in Nat /\ p - 1 + 1 = p /\ pos - 1 + 1 = pos
  BY <1>4
<1>8. ASSUME NEW mode, v = Reference(mode, t, c, p - 1, pos - 1), mode # "NULL", mode # "INT32"
      PROVE  Denotes(plan, v) = cells[pos] /\ v.mode = mode
  <2>1. /\ v.mode = mode /\ v.table = t /\ v.column = c /\ v.page = p - 1 /\ v.pos = pos - 1
    BY <1>8 DEF Reference
  <2>2. Denotes(plan, v) = plan.inputs[t + 1][c + 1].pages[p - 1 + 1][pos - 1 + 1]
    BY <1>8, <2>1 DEF Denotes
  <2>3. plan.inputs[t + 1][c + 1] = column
    BY <1>1 DEF Input
  <2> QED
    BY <1>2, <1>7, <2>1, <2>2, <2>3
<1>9. ASSUME cells[pos] # Null
      PROVE  IF column.type = "INT32" THEN cells[pos] < 0 => no_nulls(column)
             ELSE cells[pos] # Empty
  <2>1. column.pages \in Seq(Seq(Cells \cup {Null}))
    BY <1>1
  <2>2. cells \in Range(column.pages)
    BY <1>1, <1>2, <2>1 DEF Range
  <2>3. cells[pos] \in Range(cells) \ {Null}
    BY <1>3, <1>4, <1>9 DEF Range
  <2>4. Kept(column)
    BY <1>1
  <2> QED
    BY <2>2, <2>3, <2>4 DEF Kept
<1>10. CASE cells[pos] = Null
  <2>1. v.mode = "NULL"
    BY <1>6, <1>10 DEF make_null
  <2>2. Denotes(plan, v) = Null /\ Proper(plan, v, column.type)
    BY <2>1 DEF Denotes, Fits, Proper
  <2> QED
    BY <1>1, <1>2, <1>5, <1>10, <2>2
<1>11. CASE cells[pos] # Null /\ no_nulls(column)
  <2>1. column.type = "INT32"
    BY <1>11 DEF no_nulls
  <2>2. v = Reference("INT32_NO_NULL", t, c, p - 1, pos - 1)
    BY <1>6, <1>11, <2>1
  <2>3. Denotes(plan, v) = cells[pos] /\ v.mode = "INT32_NO_NULL"
    BY <1>8, <2>2
  <2>4. Proper(plan, v, column.type)
    BY <2>1, <2>3 DEF Fits, Proper
  <2> QED
    BY <1>1, <1>2, <1>5, <2>3, <2>4
<1>12. CASE cells[pos] # Null /\ ~no_nulls(column) /\ column.type = "VARCHAR"
  <2>1. v = Reference("VARCHAR", t, c, p - 1, pos - 1)
    BY <1>6, <1>12
  <2>2. Denotes(plan, v) = cells[pos] /\ v.mode = "VARCHAR"
    BY <1>8, <2>1
  <2>3. Proper(plan, v, column.type)
    <3>1. column.type # "INT32" /\ cells[pos] \notin {Null, Empty}
      BY <1>9, <1>12
    <3>2. StringAt(cells, pos) = cells[pos]
      BY <1>3, <1>4, <3>1, StringRead
    <3>3. /\ v.mode = "VARCHAR" /\ v.table = t /\ v.column = c /\ v.page = p - 1
          /\ v.pos = pos - 1
      BY <2>1 DEF Reference
    <3>4. plan.inputs[v.table + 1][v.column + 1].pages[v.page + 1] = cells /\ v.pos + 1 = pos
      BY <1>1, <1>2, <1>7, <3>3 DEF Input
    <3> QED
      BY <1>12, <2>2, <3>2, <3>4 DEF Fits, Proper
  <2> QED
    BY <1>1, <1>2, <1>5, <2>2, <2>3
<1>13. CASE cells[pos] # Null /\ ~no_nulls(column) /\ column.type # "VARCHAR"
  <2>1. v = put_int32(cells[pos])
    BY <1>6, <1>13
  <2>2. column.type = "INT32"
    BY <1>1, <1>13 DEF DataTypes
  <2>3. ~(cells[pos] < 0)
    BY <1>9, <1>13, <2>2
  <2>4. v.mode = "INT32" /\ v.value = cells[pos]
    BY <2>1, <2>3 DEF put_int32
  <2>5. Denotes(plan, v) = cells[pos] /\ Proper(plan, v, column.type)
    BY <2>2, <2>4 DEF Denotes, Fits, Proper
  <2> QED
    BY <1>1, <1>2, <1>5, <2>5
<1> QED
  BY <1>10, <1>11, <1>12, <1>13

(* So do the values of a column, one after the other.                      *)
LEMMA ValuesDenote ==
    ASSUME NEW t \in Nat, NEW c \in Nat, Kept(Input(t, c)),
           Input(t, c).pages \in Seq(Seq(Cells \cup {Null})), Input(t, c).type \in DataTypes,
           NEW m \in 1 .. Len(Values_of(t, c))
    PROVE  /\ Denotes(plan, Values_of(t, c)[m]) = FlattenSeq(Input(t, c).pages)[m]
           /\ Proper(plan, Values_of(t, c)[m], Input(t, c).type)
<1>1. PICK pages : pages = Input(t, c).pages
  OBVIOUS
<1>2. pages \in Seq(Seq(Cells \cup {Null})) /\ DOMAIN pages = 1 .. Len(pages)
  BY <1>1
<1>3. PICK made : made = [p \in DOMAIN pages |-> Scanned(t, c, p)]
  OBVIOUS
<1>4. PICK n : n = Len(pages)
  OBVIOUS
<1>5. n \in Nat /\ made = [p \in 1 .. n |-> Scanned(t, c, p)]
  BY <1>2, <1>3, <1>4
<1>6. PICK R : R = Right(no_nulls(Input(t, c)),
                         IF no_nulls(Input(t, c)) THEN Original(t, c) ELSE NoOriginal)
  OBVIOUS
<1>7. \A p \in 1 .. n : made[p] \in Seq(R) /\ Len(made[p]) = Len(pages[p])
  BY <1>1, <1>4, <1>5, <1>6, ScannedValues
<1>8. made = [p \in 1 .. n |-> made[p]]
  BY <1>5
<1>9. made \in Seq(Seq(R)) /\ Len(made) = n /\ DOMAIN made = 1 .. n
  <2>1. PICK T : T = Seq(R)
    OBVIOUS
  <2>2. \A p \in 1 .. n : made[p] \in T
    BY <1>7, <2>1
  <2>3. made \in Seq(T) /\ Len(made) = n /\ DOMAIN made = 1 .. n
    BY ONLY <1>5, <1>8, <2>2, IsSeq
  <2> QED
    BY <2>1, <2>3
<1>10. Shape(made) = Shape(pages)
  BY <1>2, <1>4, <1>7, <1>9 DEF Shape
<1>11. PICK fa, fb : fa = FlattenSeq(made) /\ fb = FlattenSeq(pages)
  OBVIOUS
<1>12. Together(made, pages, fa, fb)
  BY <1>2, <1>9, <1>10, <1>11, FlattenTogether
<1>13. Values_of(t, c) = fa
  BY <1>1, <1>3, <1>11 DEF Values_of
<1>14. PICK p \in 1 .. Len(made) : \E i \in 1 .. Len(made[p]) : fa[m] = made[p][i] /\ fb[m] = pages[p][i]
  BY <1>12, <1>13 DEF Together
<1>15. PICK i \in 1 .. Len(made[p]) : fa[m] = made[p][i] /\ fb[m] = pages[p][i]
  BY <1>14
<1>16. p \in 1 .. n /\ i \in 1 .. Len(pages[p]) /\ made[p] = Scanned(t, c, p)
  BY <1>5, <1>7, <1>9, <1>15
<1>17. /\ Denotes(plan, Scanned(t, c, p)[i]) = Input(t, c).pages[p][i]
       /\ Proper(plan, Scanned(t, c, p)[i], Input(t, c).type)
  <2>1. p \in 1 .. Len(Input(t, c).pages) /\ i \in 1 .. Len(Input(t, c).pages[p])
    BY <1>1, <1>4, <1>16
  <2> QED
    BY <2>1, ScannedDenotes
<1> QED
  BY <1>1, <1>11, <1>13, <1>15, <1>16, <1>17

(* The rows of an input, by the cells of any of its columns.               *)
LEMMA InputRowsAre ==
    ASSUME NEW columns, IsInput(columns), NEW c \in DOMAIN columns
    PROVE  /\ DOMAIN InputRows(columns) = 1 .. Len(FlattenSeq(columns[c].pages))
           /\ \A i \in 1 .. Len(FlattenSeq(columns[c].pages)) :
                InputRows(columns)[i][c] = FlattenSeq(columns[c].pages)[i]
<1>1. columns \in Seq(Range(columns)) /\ DOMAIN columns = 1 .. Len(columns)
  BY DEF IsInput
<1>2. 1 \in DOMAIN columns
  BY <1>1
<1>3. PICK values : values = [d \in DOMAIN columns |-> FlattenSeq(columns[d].pages)]
  OBVIOUS
<1>4. InputRows(columns) = [i \in DOMAIN values[1] |-> [d \in DOMAIN columns |-> values[d][i]]]
  BY <1>3 DEF InputRows
<1>5. PICK first, pages : first = values[1] /\ pages = columns[1].pages
  OBVIOUS
<1>6. first = FlattenSeq(pages) /\ pages \in Seq(Seq(Cells \cup {Null}))
  BY <1>2, <1>3, <1>5, InputCells
<1>7. first \in Seq(Cells \cup {Null})
  BY <1>6, FlattenRange
<1>8. DOMAIN first = 1 .. Len(first)
  BY <1>7
<1>9. Len(first) = Len(FlattenSeq(columns[c].pages))
  BY <1>2, <1>5, <1>6 DEF IsInput
<1>10. values[c] = FlattenSeq(columns[c].pages)
  BY <1>3
<1> QED
  BY <1>4, <1>5, <1>8, <1>9, <1>10

(* A projection has the rows of the same names.                            *)
LEMMA ProjectedAre ==
    ASSUME NEW rows, NEW attrs
    PROVE  /\ DOMAIN Projected(rows, attrs) = DOMAIN rows
           /\ \A name \in DOMAIN rows :
                Projected(rows, attrs)[name] = [k \in DOMAIN attrs |-> rows[name][attrs[k].col + 1]]
BY DEF Projected

(* The columns are filled with as many values. *)
FilledBy(columns, vals, n) ==
    /\ Len(columns) \in Nat \ {0} /\ n \in Nat
    /\ \A k \in 1 .. Len(columns) :
         /\ vals[k] \in Seq(Values) /\ Len(vals[k]) = n
         /\ columns[k].pages = append_all(<<>>, vals[k], PageSlots)

(* B tells which of the values is in a box. *)
Places(columns, vals, n, B) ==
    /\ B \in Bijection(Boxes(columns[1].pages), 1 .. n)
    /\ \A k \in 1 .. Len(columns) :
         /\ Boxes(columns[k].pages) = Boxes(columns[1].pages)
         /\ \A b \in Boxes(columns[1].pages) : columns[k].pages[b[1]][b[2]] = vals[k][B[b]]

(* Columns that are filled alike have the value of one number in one box.  *)
LEMMA FilledPlaces ==
    ASSUME NEW columns, NEW vals, NEW n, FilledBy(columns, vals, n)
    PROVE  \E B : Places(columns, vals, n, B)
<1>1. PICK m : m = Len(columns)
  OBVIOUS
<1>2. m \in Nat /\ 1 \in 1 .. m /\ n \in Nat
  BY <1>1 DEF FilledBy
<1>3. PICK e : e = <<>>
  OBVIOUS
<1>4. e \in Seq(Seq(Values)) /\ DOMAIN e = {}
  BY <1>3, EmptySeq
<1>5. PagesWithin(e, PageSlots) /\ Boxes(e) = {}
  BY <1>4 DEF PagesWithin, Boxes
<1>6. PICK C, cols, shape : C = 1 .. m /\ cols = [k \in 1 .. m |-> e] /\ shape = Shape(e)
  OBVIOUS
<1>7. \A k \in C : vals[k] \in Seq(Values) /\ Len(vals[k]) = n
  BY <1>1, <1>6 DEF FilledBy
<1>8. /\ cols \in [C -> Seq(Seq(Values))] /\ C # {}
      /\ \A k \in C : PagesWithin(cols[k], PageSlots) /\ Shape(cols[k]) = shape
  BY <1>2, <1>4, <1>5, <1>6
<1>9. PICK after, box : Filled(C, Values, PageSlots, cols, vals, n, after, box)
  <2>1. PageSlots \in Nat \ {0}
    BY JoinPagesAssumption
  <2> QED
    BY ONLY <1>2, <1>7, <1>8, <2>1, AppendColumns
<1>10. ASSUME NEW k \in 1 .. m, NEW pages, pages = columns[k].pages
       PROVE  /\ Boxes(pages) = {box[i] : i \in 1 .. n}
              /\ \A i \in 1 .. n : pages[box[i][1]][box[i][2]] = vals[k][i]
  <2>1. pages = append_all(cols[k], vals[k], PageSlots)
    BY <1>1, <1>3, <1>6, <1>10 DEF FilledBy
  <2>2. k \in C /\ cols[k] = e
    BY <1>6
  <2>3. /\ Boxes(pages) = Boxes(cols[k]) \cup {box[i] : i \in 1 .. n}
        /\ \A i \in 1 .. n : pages[box[i][1]][box[i][2]] = vals[k][i]
    BY <1>9, <2>1, <2>2 DEF Filled
  <2> QED
    BY <1>5, <2>2, <2>3
<1>11. PICK S : S = Boxes(columns[1].pages)
  OBVIOUS
<1>12. S = {box[i] : i \in 1 .. n}
  BY <1>2, <1>10, <1>11
<1>13. \A i, j \in 1 .. n : box[i] = box[j] => i = j
  BY <1>9 DEF Filled
<1>14. PICK B : B = [b \in S |-> CHOOSE i \in 1 .. n : box[i] = b]
  OBVIOUS
<1>15. ASSUME NEW b \in S PROVE B[b] \in 1 .. n /\ box[B[b]] = b
  <2>1. \E i \in 1 .. n : box[i] = b
    BY <1>12
  <2> QED
    BY <1>14, <2>1
<1>16. \A i \in 1 .. n : box[i] \in S /\ B[box[i]] = i
  BY <1>12, <1>13, <1>15
<1>17. B \in [S -> 1 .. n]
  BY <1>14, <1>15
<1>18. \A a, b \in S : B[a] = B[b] => a = b
  BY <1>15
<1>19. \A i \in 1 .. n : \E b \in S : B[b] = i
  BY <1>16
<1>20. B \in Bijection(S, 1 .. n)
  BY <1>17, <1>18, <1>19, IsBijection
<1>21. ASSUME NEW k \in 1 .. m
       PROVE  /\ Boxes(columns[k].pages) = S
              /\ \A b \in S : columns[k].pages[b[1]][b[2]] = vals[k][B[b]]
  <2>1. PICK pages : pages = columns[k].pages
    OBVIOUS
  <2>2. /\ Boxes(pages) = S
        /\ \A i \in 1 .. n : pages[box[i][1]][box[i][2]] = vals[k][i]
    BY <1>10, <1>12, <2>1
  <2>3. ASSUME NEW b \in S PROVE pages[b[1]][b[2]] = vals[k][B[b]]
    <3>1. PICK i : i = B[b]
      OBVIOUS
    <3>2. i \in 1 .. n /\ box[i] = b
      BY <1>15, <3>1
    <3>3. pages[box[i][1]][box[i][2]] = vals[k][i]
      BY <2>2, <3>2
    <3> QED
      BY <3>1, <3>2, <3>3
  <2> QED
    BY <2>1, <2>2, <2>3
<1> QED
  BY <1>1, <1>11, <1>20, <1>21 DEF Places

(* A scan's columns stand for the rows of its table, as its node asks.     *)
LEMMA ScanTells ==
    ASSUME plan \in Plans, InputsKept(plan),
           NEW n \in DOMAIN plan.nodes, plan.nodes[n].op = "scan",
           NEW columns, columns = Copies(plan.nodes[n]), columns # <<>>
    PROVE  Tells(plan, n, columns)
<1>1. PICK the, attrs, t : the = plan.nodes[n] /\ attrs = the.output_attrs
                           /\ t = the.base_table_id
  OBVIOUS
<1>2. IsNode(plan, the) /\ IsResult(plan, n, columns)
  BY <1>1, PlansAssumption, ScanResult
<1>3. Asks(plan, t, attrs)
  BY <1>1, <1>2, ScanNode
<1>4. PICK table_ : table_ = plan.inputs[t + 1]
  OBVIOUS
<1>5. IsInput(table_)
  BY <1>3, <1>4, PlansAssumption DEF Asks
<1>6. PICK m : m = Len(attrs)
  OBVIOUS
<1>7. m \in Nat /\ DOMAIN attrs = 1 .. m /\ attrs \in Seq(Attributes)
  BY <1>3, <1>6 DEF Asks
<1>8. columns = [k \in 1 .. m |-> copy_scan(t, attrs[k].col)]
  BY <1>1, <1>7 DEF Copies
<1>9. m \in Nat \ {0} /\ Len(columns) = m /\ 1 \in 1 .. m
  <2>1. Len(columns) = m
    BY <1>7, <1>8
  <2>2. m # 0
    BY <1>8
  <2> QED
    BY <1>7, <2>1, <2>2
<1>10. ASSUME NEW k \in 1 .. m, NEW c, c = attrs[k].col
       PROVE  /\ c \in Nat /\ t \in Nat /\ c + 1 \in DOMAIN table_ /\ Input(t, c) = table_[c + 1]
              /\ Input(t, c).pages \in Seq(Seq(Cells \cup {Null})) /\ Input(t, c).type \in DataTypes
              /\ attrs[k].type = Input(t, c).type /\ Kept(Input(t, c))
              /\ columns[k] = copy_scan(t, c)
  <2>1. c \in Nat /\ t \in Nat /\ c + 1 \in DOMAIN table_ /\ attrs[k].type = table_[c + 1].type
    BY <1>3, <1>4, <1>7, <1>10 DEF Asks
  <2>2. Input(t, c) = table_[c + 1]
    BY <1>4 DEF Input
  <2>3. Input(t, c).pages \in Seq(Seq(Cells \cup {Null})) /\ Input(t, c).type \in DataTypes
    BY <1>5, <2>1, <2>2, InputCells
  <2>4. Kept(Input(t, c))
    BY <1>3, <1>4, <2>1, <2>2 DEF Asks, InputsKept
  <2> QED
    BY <1>8, <1>10, <2>1, <2>2, <2>3, <2>4
<1>11. PICK vals : vals = [k \in 1 .. m |-> Values_of(t, attrs[k].col)]
  OBVIOUS
<1>12. PICK rows : rows = InputRows(table_)
  OBVIOUS
<1>13. PICK N : N = Len(vals[1])
  OBVIOUS
<1>14. ASSUME NEW k \in 1 .. m, NEW c, c = attrs[k].col
       PROVE  /\ vals[k] \in Seq(Values) /\ Len(vals[k]) = Len(FlattenSeq(table_[c + 1].pages))
              /\ columns[k].pages = append_all(<<>>, vals[k], PageSlots)
              /\ DOMAIN rows = 1 .. Len(vals[k])
  <2>1. vals[k] = Values_of(t, c) /\ Input(t, c) = table_[c + 1]
    BY <1>10, <1>11, <1>14
  <2>2. /\ c \in Nat /\ t \in Nat
        /\ Input(t, c).pages \in Seq(Seq(Cells \cup {Null})) /\ Input(t, c).type \in DataTypes
    BY <1>10, <1>14
  <2>3. Values_of(t, c) \in Seq(Values) /\ Len(Values_of(t, c)) = Len(FlattenSeq(Input(t, c).pages))
    BY <2>2, ScannedColumn, RightValues
  <2>4. columns[k].pages = append_all(<<>>, Values_of(t, c), PageSlots)
    BY <1>10, <1>14, <2>2, CopiedColumn
  <2>5. PICK d : d = c + 1
    OBVIOUS
  <2>6. d \in DOMAIN table_
    BY <1>10, <1>14, <2>5
  <2>7. DOMAIN rows = 1 .. Len(FlattenSeq(table_[d].pages))
    BY <1>5, <1>12, <2>6, InputRowsAre
  <2> QED
    BY <2>1, <2>3, <2>4, <2>5, <2>7
<1>15. N \in Nat /\ DOMAIN rows = 1 .. N
  BY <1>9, <1>13, <1>14
<1>16. ASSUME NEW k \in 1 .. m PROVE Len(vals[k]) = N
  <2>1. PICK c, d, x, y : c = attrs[k].col /\ d = attrs[1].col /\ x = c + 1 /\ y = d + 1
    OBVIOUS
  <2>2. x \in DOMAIN table_ /\ y \in DOMAIN table_
    BY <1>9, <1>10, <2>1
  <2>3. Len(FlattenSeq(table_[x].pages)) = Len(FlattenSeq(table_[y].pages))
    BY <1>5, <2>2 DEF IsInput
  <2> QED
    BY <1>9, <1>13, <1>14, <2>1, <2>3
<1>17. ASSUME NEW k \in 1 .. m, NEW i \in 1 .. N, NEW c, c = attrs[k].col
       PROVE  /\ Denotes(plan, vals[k][i]) = rows[i][c + 1] /\ Proper(plan, vals[k][i], attrs[k].type)
              /\ columns[k].type = attrs[k].type /\ rows[i][c + 1] \in Items
  <2>1. vals[k] = Values_of(t, c) /\ Input(t, c) = table_[c + 1]
        /\ i \in 1 .. Len(Values_of(t, c))
    BY <1>10, <1>11, <1>16, <1>17
  <2>2. /\ c \in Nat /\ t \in Nat /\ Kept(Input(t, c))
        /\ Input(t, c).pages \in Seq(Seq(Cells \cup {Null})) /\ Input(t, c).type \in DataTypes
    BY <1>10, <1>17
  <2>3. /\ Denotes(plan, Values_of(t, c)[i]) = FlattenSeq(Input(t, c).pages)[i]
        /\ Proper(plan, Values_of(t, c)[i], Input(t, c).type)
    BY <2>1, <2>2, ValuesDenote
  <2>4. PICK d, F : d = c + 1 /\ F = FlattenSeq(table_[d].pages)
    OBVIOUS
  <2>5. d \in DOMAIN table_ /\ i \in 1 .. Len(F)
    BY <1>10, <1>14, <1>16, <1>17, <2>4
  <2>6. rows[i][d] = F[i]
    BY <1>5, <1>12, <2>4, <2>5, InputRowsAre
  <2>7. F \in Seq(Cells \cup {Null})
    BY <2>1, <2>2, <2>4, FlattenRange
  <2>8. F[i] \in Items
    BY <2>5, <2>7 DEF Items
  <2>9. columns[k].type = Input(t, c).type
    <3>1. columns[k] = copy_scan(t, c)
      BY <1>10, <1>17
    <3>2. copy_scan(t, c).type = Input(t, c).type \/ Input(t, c).pages = <<>>
      BY <2>2, CopiedColumn
    <3>3. ASSUME Input(t, c).pages = <<>> PROVE FALSE
      <4>1. F = FlattenSeq(<<>>)
        BY <2>1, <2>4, <3>3
      <4>2. F = <<>>
        BY <4>1, FlattenNone
      <4>3. Len(F) = 0
        BY <4>2
      <4> QED
        BY <2>5, <4>3
    <3> QED
      BY <3>1, <3>2, <3>3
  <2>10. attrs[k].type = Input(t, c).type
    BY <1>10, <1>17
  <2> QED
    BY <2>1, <2>3, <2>4, <2>6, <2>8, <2>9, <2>10
<1>18. FilledBy(columns, vals, N)
  BY <1>9, <1>14, <1>15, <1>16 DEF FilledBy
<1>19. PICK B : Places(columns, vals, N, B)
  BY <1>18, FilledPlaces
<1>20. PICK told : told = Relation(plan)[n]
  OBVIOUS
<1>21. told = Projected(rows, attrs)
  <2>1. told = RelationStep(Relation(plan), plan, n)
    BY <1>20, RelationSteps
  <2> QED
    BY <1>1, <1>4, <1>12, <2>1 DEF RelationStep
<1>22. DOMAIN told = 1 .. N
  BY <1>15, <1>21, ProjectedAre
<1>23. \A i \in 1 .. N : told[i] = [k \in 1 .. m |-> rows[i][attrs[k].col + 1]]
  BY <1>7, <1>15, <1>21, ProjectedAre
<1>24. IsRows(told, m)
  <2>1. ASSUME NEW i \in 1 .. N PROVE told[i] \in Seq(Items) /\ Len(told[i]) = m
    <3>1. PICK row : row = told[i]
      OBVIOUS
    <3>2. row = [k \in 1 .. m |-> rows[i][attrs[k].col + 1]]
      BY <1>23, <3>1
    <3>3. ASSUME NEW k \in 1 .. m PROVE row[k] \in Items
      <4>1. PICK c : c = attrs[k].col
        OBVIOUS
      <4>2. row[k] = rows[i][c + 1]
        BY <3>2, <4>1
      <4> QED
        BY <1>17, <4>1, <4>2
    <3>4. row = [k \in 1 .. m |-> row[k]]
      BY <3>2
    <3> QED
      BY <1>7, <3>1, <3>3, <3>4, IsSeq
  <2> QED
    BY <1>22, <2>1 DEF IsRows
<1>25. PICK S : S = Boxes(columns[1].pages)
  OBVIOUS
<1>26. B \in Bijection(S, 1 .. N) /\ \A b \in S : B[b] \in 1 .. N
  <2>1. B \in Bijection(S, 1 .. N)
    BY <1>19, <1>25 DEF Places
  <2> QED
    BY <2>1 DEF Bijection, Injection
<1>27. ASSUME NEW k \in 1 .. m, NEW b \in S, NEW v, v = columns[k].pages[b[1]][b[2]]
       PROVE  /\ Denotes(plan, v) = told[B[b]][k] /\ Proper(plan, v, attrs[k].type)
              /\ columns[k].type = attrs[k].type
  <2>1. PICK i : i = B[b]
    OBVIOUS
  <2>2. i \in 1 .. N /\ v = vals[k][i]
    BY <1>9, <1>19, <1>25, <1>26, <1>27, <2>1 DEF Places
  <2>3. told[i][k] = rows[i][attrs[k].col + 1]
    BY <1>23, <2>2
  <2> QED
    BY <1>17, <2>1, <2>2, <2>3
<1>28. \A k \in 1 .. m : Boxes(columns[k].pages) = S
  BY <1>9, <1>19, <1>25 DEF Places
<1>29. \A k \in 1 .. m : Suited(plan, columns[k], attrs[k].type)
  BY <1>27, <1>28 DEF Suited
<1>30. Names(plan, columns, told, B)
  <2>1. \A b \in S : \A k \in 1 .. m : Denotes(plan, columns[k].pages[b[1]][b[2]]) = told[B[b]][k]
    BY <1>27
  <2> QED
    BY <1>9, <1>22, <1>25, <1>26, <2>1 DEF Names
<1> QED
  BY <1>1, <1>6, <1>9, <1>20, <1>24, <1>29, <1>30 DEF Tells

-----------------------------------------------------------------------------
(* The rows that a join of integers combines. *)

(* The key of a value of a column of integers is what the value stands     *)
(* for: the pages that the column names are those that the value is in.    *)
LEMMA KeyDenotes ==
    ASSUME NEW column, NEW v \in Right(column.is_no_null, column.original_pages),
           Fits(v, "INT32")
    PROVE  KeyOf(v, column) = Denotes(plan, v)
<1>1. v.mode \in {"NULL", "INT32", "INT32_NO_NULL"}
  BY DEF Fits
<1>2. CASE v.mode = "NULL"
  BY <1>2 DEF KeyOf, Denotes
<1>3. CASE v.mode = "INT32"
  BY <1>3 DEF KeyOf, Denotes
<1>4. CASE v.mode = "INT32_NO_NULL"
  <2>1. column.original_pages = Original(v.table, v.column)
    BY <1>4 DEF Right
  <2>2. column.original_pages.table = v.table /\ column.original_pages.column = v.column
    BY <2>1 DEF Original
  <2>3. KeyOf(v, column) = get_int32_value_from_page(v, column.original_pages)
    BY <1>4 DEF KeyOf
  <2> QED
    BY <1>4, <2>2, <2>3 DEF Denotes, get_int32_value_from_page, Input
<1> QED
  BY <1>1, <1>2, <1>3, <1>4

(* The row that the values at a position are of. *)
Reads(columns, attrs, rows, positions, name) ==
    /\ name \in Bijection(positions, DOMAIN rows)
    /\ \A k \in 1 .. Len(columns) : \A pos \in positions :
         /\ Denotes(plan, CellAt(columns[k].pages, pos)) = rows[name[pos]][k]
         /\ Proper(plan, CellAt(columns[k].pages, pos), attrs[k].type)

(* The keys at the positions are those of the rows, in column a. *)
KeysRead(keys, rows, name, a) ==
    \A pos \in Positions(keys) : CellAt(keys, pos) = rows[name[pos]][a]

LEMMA CellAtBox ==
    ASSUME NEW pages, NEW pos
    PROVE  CellAt(pages, pos) = pages[At(pos)[1]][At(pos)[2]]
BY DEF CellAt, At

(* The columns that tell a relation, read by position: each position is of *)
(* a row of its own, and the key there is that row's.                      *)
LEMMA SideReads ==
    ASSUME NEW n, NEW columns, SideBySide(columns), Tells(plan, n, columns),
           NEW attrs, attrs = plan.nodes[n].output_attrs,
           NEW rows, rows = Relation(plan)[n],
           NEW a \in 1 .. Len(columns), attrs[a].type = "INT32",
           NEW keys, keys = Keys(columns[a])
    PROVE  \E name : /\ Reads(columns, attrs, rows, Positions(keys), name)
                     /\ KeysRead(keys, rows, name, a)
<1>1. PICK m : m = Len(columns)
  OBVIOUS
<1>2. m \in Nat /\ DOMAIN columns = 1 .. m /\ a \in 1 .. m /\ 1 \in 1 .. m
  BY <1>1 DEF SideBySide
<1>3. PICK column : column = columns[a]
  OBVIOUS
<1>4. GoodColumn(column)
  BY <1>2, <1>3 DEF SideBySide
<1>5. HaveShape(keys, column.pages)
  BY <1>3, <1>4, KeysOfColumn
<1>6. PICK W : /\ keys \in Seq(Seq(W)) /\ Shape(keys) = Shape(column.pages)
               /\ PagesWithin(keys, PageSlots)
  BY <1>5 DEF HaveShape
<1>7. PICK S, P : S = Boxes(keys) /\ P = Positions(keys)
  OBVIOUS
<1>8. ASSUME NEW k \in 1 .. m PROVE Boxes(columns[k].pages) = S
  <2>1. PICK pages : pages = columns[k].pages
    OBVIOUS
  <2>2. GoodColumn(columns[k]) /\ Shape(pages) = Shape(column.pages)
    BY <1>2, <1>3, <2>1 DEF SideBySide
  <2>3. pages \in Seq(Seq(Values))
    BY <2>1, <2>2 DEF GoodColumn, Columns
  <2>4. Shape(pages) = Shape(keys)
    BY <1>6, <2>2
  <2>5. keys \in Seq(Seq(W))
    BY <1>6
  <2>6. Boxes(pages) = Boxes(keys)
    BY ONLY <2>3, <2>4, <2>5, SameBoxes
  <2> QED
    BY <1>7, <2>1, <2>6
<1>9. PICK B : Names(plan, columns, rows, B)
  BY DEF Tells
<1>10. /\ B \in Bijection(S, DOMAIN rows)
       /\ \A b \in S : \A k \in 1 .. m : Denotes(plan, columns[k].pages[b[1]][b[2]]) = rows[B[b]][k]
  BY <1>1, <1>2, <1>8, <1>9 DEF Names
<1>11. \A k \in 1 .. m : \A b \in S : Proper(plan, columns[k].pages[b[1]][b[2]], attrs[k].type)
  BY <1>1, <1>8 DEF Tells, Suited
<1>12. PICK f, name : f = [pos \in P |-> At(pos)] /\ name = [pos \in P |-> B[f[pos]]]
  OBVIOUS
<1>13. f \in Bijection(P, S) /\ \A pos \in P : At(pos) \in S
  BY <1>6, <1>7, <1>12, PositionBoxes
<1>14. name \in Bijection(P, DOMAIN rows)
  BY <1>10, <1>12, <1>13, ComposeBijection
<1>15. ASSUME NEW pos \in P, NEW k \in 1 .. m, NEW v, v = CellAt(columns[k].pages, pos)
       PROVE  Denotes(plan, v) = rows[name[pos]][k] /\ Proper(plan, v, attrs[k].type)
  <2>1. PICK b : b = At(pos)
    OBVIOUS
  <2>2. b \in S /\ name[pos] = B[b]
    BY <1>12, <1>13, <2>1
  <2>3. v = columns[k].pages[b[1]][b[2]]
    BY <1>15, <2>1, CellAtBox
  <2> QED
    BY <1>10, <1>11, <2>2, <2>3
<1>16. ASSUME NEW pos \in P PROVE CellAt(keys, pos) = rows[name[pos]][a]
  <2>1. PICK pages, b : pages = column.pages /\ b = At(pos)
    OBVIOUS
  <2>2. pages \in Seq(Seq(Right(column.is_no_null, column.original_pages)))
    BY <1>4, <2>1 DEF GoodColumn
  <2>3. b \in Boxes(pages)
    BY <1>2, <1>3, <1>8, <1>13, <2>1
  <2>4. PICK p \in DOMAIN pages : \E s \in 1 .. Len(pages[p]) : b = <<p, s>>
    BY <2>3, InBoxes
  <2>5. PICK s \in 1 .. Len(pages[p]) : b = <<p, s>>
    BY <2>4
  <2>6. PICK R : R = Right(column.is_no_null, column.original_pages)
    OBVIOUS
  <2>7. pages[p] \in Seq(R)
    BY <2>2, <2>4, <2>6
  <2>8. PICK v : v = pages[p][s]
    OBVIOUS
  <2>9. v \in R /\ s \in DOMAIN pages[p]
    BY <2>5, <2>7, <2>8
  <2>10. keys[p][s] = KeyOf(v, column)
    BY <1>3, <2>1, <2>4, <2>8, <2>9 DEF Keys
  <2>11. At(pos)[1] = p /\ At(pos)[2] = s
    BY <2>1, <2>5
  <2>12. CellAt(keys, pos) = keys[p][s]
    BY <2>11, CellAtBox
  <2>13. CellAt(pages, pos) = v
    BY <2>8, <2>11, CellAtBox
  <2>14. Denotes(plan, v) = rows[name[pos]][a] /\ Proper(plan, v, "INT32")
    BY <1>2, <1>3, <1>15, <2>1, <2>13
  <2>15. KeyOf(v, column) = Denotes(plan, v)
    BY <2>6, <2>9, <2>14, KeyDenotes DEF Proper
  <2> QED
    BY <2>10, <2>12, <2>14, <2>15
<1>17. Reads(columns, attrs, rows, P, name)
  BY <1>1, <1>14, <1>15 DEF Reads
<1>18. KeysRead(keys, rows, name, a)
  BY <1>7, <1>16 DEF KeysRead
<1> QED
  BY <1>7, <1>17, <1>18

(* What the pages hold, renamed. *)
LEMMA HoldBijection ==
    ASSUME NEW pages, NEW S, Hold(pages, S), NEW T, NEW f \in Bijection(S, T)
    PROVE  [b \in Boxes(pages) |-> f[pages[b[1]][b[2]]]] \in Bijection(Boxes(pages), T)
<1>1. PICK D, g : D = Boxes(pages) /\ g = [b \in D |-> pages[b[1]][b[2]]]
  OBVIOUS
<1>2. \A b \in D : g[b] = pages[b[1]][b[2]] /\ g[b] \in S
  BY <1>1 DEF Hold
<1>3. g \in [D -> S]
  BY <1>1, <1>2
<1>4. \A b, c \in D : g[b] = g[c] => b = c
  BY <1>1, <1>2 DEF Hold
<1>5. \A x \in S : \E b \in D : g[b] = x
  BY <1>1, <1>2 DEF Hold
<1>6. g \in Bijection(D, S)
  BY <1>3, <1>4, <1>5, IsBijection
<1>7. [b \in D |-> f[g[b]]] \in Bijection(D, T)
  BY <1>6, ComposeBijection
<1>8. [b \in D |-> f[g[b]]] = [b \in D |-> f[pages[b[1]][b[2]]]]
  BY <1>2
<1> QED
  BY <1>1, <1>7, <1>8

(* A pair of a build and a probe position, by those of the left and the    *)
(* right input.                                                            *)
Pairing(build_left, x, y) == IF build_left THEN <<x, y>> ELSE <<y, x>>

LeftSide(join)  == IF join.build_left THEN 1 ELSE 2
RightSide(join) == IF join.build_left THEN 2 ELSE 1

(* M has the pairs of positions whose rows match. *)
PairsMatching(M, lefts, rights, join, PL, PR, nl, nr) ==
    /\ \A pair \in M : \E x \in PL, y \in PR :
         /\ pair = Pairing(join.build_left, x, y)
         /\ <<nl[x], nr[y]>> \in Matching(lefts, rights, join)
    /\ \A x \in PL, y \in PR :
         <<nl[x], nr[y]>> \in Matching(lefts, rights, join) => Pairing(join.build_left, x, y) \in M

(* Then the pairs of positions are, one by one, the rows of the join.      *)
LEMMA PairsBijection ==
    ASSUME NEW M, NEW lefts, NEW rights, NEW join, NEW PL, NEW PR,
           NEW nl \in Bijection(PL, DOMAIN lefts), NEW nr \in Bijection(PR, DOMAIN rights),
           PairsMatching(M, lefts, rights, join, PL, PR, nl, nr)
    PROVE  [pair \in M |-> <<nl[pair[LeftSide(join)]], nr[pair[RightSide(join)]]>>]
             \in Bijection(M, Matching(lefts, rights, join))
<1>1. PICK f, T : /\ f = [pair \in M |-> <<nl[pair[LeftSide(join)]], nr[pair[RightSide(join)]]>>]
                  /\ T = Matching(lefts, rights, join)
  OBVIOUS
<1>2. ASSUME NEW x \in PL, NEW y \in PR, NEW pair \in M, pair = Pairing(join.build_left, x, y)
      PROVE  f[pair] = <<nl[x], nr[y]>>
  <2>1. pair[LeftSide(join)] = x /\ pair[RightSide(join)] = y
    BY <1>2 DEF Pairing, LeftSide, RightSide
  <2> QED
    BY <1>1, <2>1
<1>3. \A x, z \in PL : nl[x] = nl[z] => x = z
  BY DEF Bijection, Injection, IsInjective
<1>4. \A x, z \in PR : nr[x] = nr[z] => x = z
  BY DEF Bijection, Injection, IsInjective
<1>5. \A pair \in M : f[pair] \in T
  <2>1. ASSUME NEW pair \in M PROVE f[pair] \in T
    <3>1. PICK x \in PL, y \in PR : /\ pair = Pairing(join.build_left, x, y)
                                    /\ <<nl[x], nr[y]>> \in Matching(lefts, rights, join)
      BY DEF PairsMatching
    <3> QED
      BY <1>1, <1>2, <3>1
  <2> QED
    BY <2>1
<1>6. f \in [M -> T]
  BY <1>1, <1>5
<1>7. ASSUME NEW a \in M, NEW b \in M, f[a] = f[b] PROVE a = b
  <2>1. PICK x \in PL, y \in PR : a = Pairing(join.build_left, x, y)
    BY DEF PairsMatching
  <2>2. PICK z \in PL, w \in PR : b = Pairing(join.build_left, z, w)
    BY DEF PairsMatching
  <2>3. <<nl[x], nr[y]>> = <<nl[z], nr[w]>>
    BY <1>2, <1>7, <2>1, <2>2
  <2>4. nl[x] = nl[z] /\ nr[y] = nr[w]
    BY <2>3
  <2>5. x = z /\ y = w
    BY <1>3, <1>4, <2>4
  <2> QED
    BY <2>1, <2>2, <2>5
<1>8. ASSUME NEW t \in T PROVE \E pair \in M : f[pair] = t
  <2>1. t \in (DOMAIN lefts) \X (DOMAIN rights)
    BY <1>1 DEF Matching
  <2>2. PICK l \in DOMAIN lefts, r \in DOMAIN rights : t = <<l, r>>
    BY <2>1
  <2>3. PICK x \in PL : nl[x] = l
    BY DEF Bijection, Surjection
  <2>4. PICK y \in PR : nr[y] = r
    BY DEF Bijection, Surjection
  <2>5. PICK pair : pair = Pairing(join.build_left, x, y)
    OBVIOUS
  <2>6. pair \in M
    BY <1>1, <2>2, <2>3, <2>4, <2>5 DEF PairsMatching
  <2>7. f[pair] = t
    BY <1>2, <2>2, <2>3, <2>4, <2>5, <2>6
  <2> QED
    BY <2>6, <2>7
<1>9. \A a, b \in M : f[a] = f[b] => a = b
  BY <1>7
<1>10. \A t \in T : \E pair \in M : f[pair] = t
  BY <1>8
<1>11. f \in Bijection(M, T)
  BY <1>6, <1>9, <1>10, IsBijection
<1> QED
  BY <1>1, <1>11

(* The cells that are keys: all but NULLs. *)
KeyCells(probe) == (UNION {Range(p) : p \in Range(probe)}) \ {Null}

(* A cell is a key if it is not NULL.                                      *)
LEMMA CellIsKey ==
    ASSUME NEW W, NEW probe \in Seq(Seq(W)), PagesWithin(probe, PageSlots),
           NEW pos \in Positions(probe)
    PROVE  CellAt(probe, pos) \in KeyCells(probe) <=> CellAt(probe, pos) # Null
<1>1. At(pos) \in Boxes(probe)
  BY PositionBoxes
<1>2. PICK p \in DOMAIN probe : \E s \in 1 .. Len(probe[p]) : At(pos) = <<p, s>>
  BY <1>1, InBoxes
<1>3. PICK s \in 1 .. Len(probe[p]) : At(pos) = <<p, s>>
  BY <1>2
<1>4. At(pos)[1] = p /\ At(pos)[2] = s
  BY <1>3
<1>5. CellAt(probe, pos) = probe[p][s]
  BY <1>4, CellAtBox
<1>6. probe[p] \in Range(probe) /\ probe[p][s] \in Range(probe[p])
  <2>1. probe[p] \in Seq(W)
    OBVIOUS
  <2> QED
    BY <1>3, <2>1 DEF Range
<1> QED
  BY <1>5, <1>6 DEF KeyCells

(* What is built and what is probed, of the left and the right.            *)
Build(join, left, right) == IF join.build_left THEN left ELSE right
Probe(join, left, right) == IF join.build_left THEN right ELSE left

(* The positions that a join puts together are those whose rows match. *)
LEMMA MatchedAre ==
    ASSUME NEW join, NEW KL, NEW KR, NEW lefts, NEW rights, NEW keys,
           NEW nl \in Bijection(Positions(KL), DOMAIN lefts),
           NEW nr \in Bijection(Positions(KR), DOMAIN rights),
           KeysRead(KL, lefts, nl, join.left_attr + 1),
           KeysRead(KR, rights, nr, join.right_attr + 1),
           NEW build, build = Build(join, KL, KR), NEW probe, probe = Probe(join, KL, KR),
           \A pos \in Positions(probe) :
               CellAt(probe, pos) \in keys <=> CellAt(probe, pos) # Null
    PROVE  PairsMatching(MatchedPairs(build, probe, keys), lefts, rights, join,
                         Positions(KL), Positions(KR), nl, nr)
<1>1. PICK M, PL, PR, T : /\ M = MatchedPairs(build, probe, keys)
                          /\ PL = Positions(KL) /\ PR = Positions(KR)
                          /\ T = Matching(lefts, rights, join)
  OBVIOUS
<1>2. ASSUME NEW x \in PL, NEW y \in PR
      PROVE  <<nl[x], nr[y]>> \in T <=> CellAt(KL, x) # Null /\ CellAt(KL, x) = CellAt(KR, y)
  <2>1. PICK l, r, pair : l = nl[x] /\ r = nr[y] /\ pair = <<l, r>>
    OBVIOUS
  <2>2. l \in DOMAIN lefts /\ r \in DOMAIN rights
    BY <1>1, <2>1 DEF Bijection, Injection
  <2>3. pair \in (DOMAIN lefts) \X (DOMAIN rights) /\ pair[1] = l /\ pair[2] = r
    BY <2>1, <2>2
  <2>4. /\ CellAt(KL, x) = lefts[l][join.left_attr + 1]
        /\ CellAt(KR, y) = rights[r][join.right_attr + 1]
    BY <1>1, <2>1 DEF KeysRead
  <2>5. pair \in T <=> /\ lefts[l][join.left_attr + 1] # Null
                       /\ lefts[l][join.left_attr + 1] = rights[r][join.right_attr + 1]
    BY <1>1, <2>3 DEF Matching
  <2> QED
    BY <2>1, <2>4, <2>5
<1>3. ASSUME NEW x \in PL, NEW y \in PR
      PROVE  Pairing(join.build_left, x, y) \in M <=> <<nl[x], nr[y]>> \in T
  <2>1. CASE join.build_left
    <3>1. build = KL /\ probe = KR /\ Pairing(join.build_left, x, y) = <<x, y>>
      BY <2>1 DEF Build, Probe, Pairing
    <3>2. <<x, y>> \in M <=> CellAt(KR, y) \in keys /\ CellAt(KL, x) = CellAt(KR, y)
      BY <1>1, <3>1 DEF MatchedPairs
    <3>3. CellAt(KR, y) \in keys <=> CellAt(KR, y) # Null
      BY <1>1, <3>1
    <3> QED
      BY <1>2, <3>1, <3>2, <3>3
  <2>2. CASE ~join.build_left
    <3>1. build = KR /\ probe = KL /\ Pairing(join.build_left, x, y) = <<y, x>>
      BY <2>2 DEF Build, Probe, Pairing
    <3>2. <<y, x>> \in M <=> CellAt(KL, x) \in keys /\ CellAt(KR, y) = CellAt(KL, x)
      BY <1>1, <3>1 DEF MatchedPairs
    <3>3. CellAt(KL, x) \in keys <=> CellAt(KL, x) # Null
      BY <1>1, <3>1
    <3> QED
      BY <1>2, <3>1, <3>2, <3>3
  <2> QED
    BY <2>1, <2>2
<1>4. ASSUME NEW pair \in M
      PROVE  \E x \in PL, y \in PR : pair = Pairing(join.build_left, x, y)
  <2>1. pair \in Positions(build) \X Positions(probe)
    BY <1>1 DEF MatchedPairs
  <2>2. PICK b \in Positions(build), q \in Positions(probe) : pair = <<b, q>>
    BY <2>1
  <2>3. CASE join.build_left
    BY <1>1, <2>2, <2>3 DEF Build, Probe, Pairing
  <2>4. CASE ~join.build_left
    BY <1>1, <2>2, <2>4 DEF Build, Probe, Pairing
  <2> QED
    BY <2>3, <2>4
<1>5. ASSUME NEW pair \in M
      PROVE  \E x \in PL, y \in PR : pair = Pairing(join.build_left, x, y) /\ <<nl[x], nr[y]>> \in T
  <2>1. PICK x \in PL, y \in PR : pair = Pairing(join.build_left, x, y)
    BY <1>4
  <2> QED
    BY <1>3, <2>1
<1>6. PairsMatching(M, lefts, rights, join, PL, PR, nl, nr)
  BY <1>1, <1>3, <1>5 DEF PairsMatching
<1> QED
  BY <1>1, <1>6

(* Both inputs of a join, read by position. *)
SidesRead(left, right, la, ra, lefts, rights, PL, PR, nl, nr) ==
    /\ left \in Seq(Columns) /\ right \in Seq(Columns)
    /\ la \in Seq(Attributes) /\ ra \in Seq(Attributes)
    /\ Len(la) = Len(left) /\ Len(ra) = Len(right)
    /\ IsRows(lefts, Len(left)) /\ IsRows(rights, Len(right))
    /\ Reads(left, la, lefts, PL, nl) /\ Reads(right, ra, rights, PR, nr)

(* The value that is gathered for an attribute at a pair of positions. *)
GatheredAt(v, join, attr, left, right, x, y) ==
    LET src == source(join, attr, left, right)
    IN  v = CellAt(src.column.pages, Pairing(join.build_left, x, y)[src.side])

(* The value is item c of the row and of its type. *)
ItemOf(v, row, types, c) ==
    Denotes(plan, v) = row[c] /\ row[c] \in Items /\ Proper(plan, v, types[c].type)

(* What is gathered for an attribute at a pair of positions is what the    *)
(* two rows have there.                                                    *)
LEMMA SourceReads ==
    ASSUME NEW left, NEW right, NEW join, NEW attr,
           attr.col \in Nat, attr.col < Len(left) + Len(right),
           NEW la, NEW ra, NEW lefts, NEW rights, NEW PL, NEW PR, NEW nl, NEW nr,
           SidesRead(left, right, la, ra, lefts, rights, PL, PR, nl, nr),
           NEW x \in PL, NEW y \in PR,
           NEW v, GatheredAt(v, join, attr, left, right, x, y)
    PROVE  ItemOf(v, lefts[nl[x]] \o rights[nr[y]], la \o ra, attr.col + 1)
<1>1. PICK c, l, r, a, b : /\ c = attr.col /\ l = Len(left) /\ r = Len(right)
                           /\ a = lefts[nl[x]] /\ b = rights[nr[y]]
  OBVIOUS
<1>2. /\ left \in Seq(Columns) /\ right \in Seq(Columns)
      /\ la \in Seq(Attributes) /\ ra \in Seq(Attributes)
      /\ l = Len(la) /\ r = Len(ra)
      /\ IsRows(lefts, l) /\ IsRows(rights, r)
      /\ Reads(left, la, lefts, PL, nl) /\ Reads(right, ra, rights, PR, nr)
  BY <1>1 DEF SidesRead
<1>3. PICK src : src = source(join, attr, left, right)
  OBVIOUS
<1>4. v = CellAt(src.column.pages, Pairing(join.build_left, x, y)[src.side])
  BY <1>3 DEF GatheredAt
<1>5. c \in Nat /\ l \in Nat /\ r \in Nat /\ c < l + r
  BY <1>1, <1>2
<1>6. nl[x] \in DOMAIN lefts /\ nr[y] \in DOMAIN rights
  BY <1>2 DEF Reads, Bijection, Injection
<1>7. a \in Seq(Items) /\ b \in Seq(Items) /\ l = Len(a) /\ r = Len(b)
  BY <1>1, <1>6, <1>2 DEF IsRows
<1>8. /\ \A i \in 1 .. l : (a \o b)[i] = a[i]
      /\ \A i \in 1 .. r : (a \o b)[l + i] = b[i]
  BY ONLY <1>7, ConcatenationAt
<1>9. /\ \A i \in 1 .. l : (la \o ra)[i] = la[i]
      /\ \A i \in 1 .. r : (la \o ra)[l + i] = ra[i]
  BY ONLY <1>2, ConcatenationAt
<1>10. CASE c < l
  <2>1. PICK i : i = c + 1
    OBVIOUS
  <2>2. i \in 1 .. l
    BY <1>5, <1>10, <2>1
  <2>3. src.column = left[i] /\ src.side = LeftSide(join)
    BY <1>1, <1>10, <1>3, <2>1 DEF source, LeftSide
  <2>4. Pairing(join.build_left, x, y)[LeftSide(join)] = x
    BY DEF Pairing, LeftSide
  <2>5. v = CellAt(left[i].pages, x)
    BY <1>4, <2>3, <2>4
  <2>6. Denotes(plan, v) = a[i] /\ Proper(plan, v, la[i].type)
    BY <1>1, <1>2, <2>2, <2>5 DEF Reads
  <2>7. a[i] \in Items
    BY <1>7, <2>2
  <2> QED
    BY <1>1, <1>8, <1>9, <2>1, <2>2, <2>6, <2>7 DEF ItemOf
<1>11. CASE ~(c < l)
  <2>1. PICK i : i = c - l + 1
    OBVIOUS
  <2>2. i \in 1 .. r /\ c + 1 = l + i
    BY <1>5, <1>11, <2>1
  <2>3. src.column = right[i] /\ src.side = RightSide(join)
    BY <1>1, <1>11, <1>3, <2>1 DEF source, RightSide
  <2>4. Pairing(join.build_left, x, y)[RightSide(join)] = y
    BY DEF Pairing, RightSide
  <2>5. v = CellAt(right[i].pages, y)
    BY <1>4, <2>3, <2>4
  <2>6. Denotes(plan, v) = b[i] /\ Proper(plan, v, ra[i].type)
    BY <1>1, <1>2, <2>2, <2>5 DEF Reads
  <2>7. b[i] \in Items
    BY <1>7, <2>2
  <2>8. (a \o b)[c + 1] = b[i] /\ (la \o ra)[c + 1] = ra[i]
    BY <1>8, <1>9, <2>2
  <2> QED
    BY <1>1, <2>6, <2>7, <2>8 DEF ItemOf
<1> QED
  BY <1>10, <1>11

(* The types that a join's attributes and its key columns have. *)
JoinTypes(n, attrs, la, ra) ==
    /\ la[n.left_attr + 1].type = ra[n.right_attr + 1].type
    /\ \A k \in DOMAIN attrs : attrs[k].type = (la \o ra)[attrs[k].col + 1].type

(* The plan gives a join's attributes these types.                         *)
LEMMA TypesOfJoin ==
    ASSUME NEW p, NEW n, n.op = "join", IsNode(p, n),
           NEW attrs, attrs = n.output_attrs, NEW la, la = p.nodes[n.left].output_attrs,
           NEW ra, ra = p.nodes[n.right].output_attrs
    PROVE  JoinTypes(n, attrs, la, ra)
<1>1. IsJoin(p, n)
  <2>1. ~IsScan(p, n)
    BY DEF IsScan
  <2>2. IsScan(p, n) \/ IsJoin(p, n)
    BY Zenon DEF IsNode
  <2> QED
    BY <2>1, <2>2
<1>2. la[n.left_attr + 1].type = ra[n.right_attr + 1].type
  BY <1>1 DEF IsJoin
<1>3. \A k \in DOMAIN attrs : attrs[k].type = (la \o ra)[attrs[k].col + 1].type
  BY <1>1 DEF IsJoin
<1> QED
  BY <1>2, <1>3 DEF JoinTypes

(* A gathered column lies as the pairs do. *)
LEMMA GatheredCells ==
    ASSUME NEW V, NEW pages \in Seq(Seq(V)), NEW empty, NEW type, NEW from,
           SameFlag(empty, type, from), NEW side,
           NEW column, column = Gathered(empty, from, side, pages)
    PROVE  /\ column.type = type /\ Boxes(column.pages) = Boxes(pages)
           /\ \A b \in Boxes(pages) :
                column.pages[b[1]][b[2]] = CellAt(from.pages, pages[b[1]][b[2]][side])
<1>1. PICK new : new = [p \in DOMAIN pages |-> [s \in DOMAIN pages[p] |->
                           CellAt(from.pages, pages[p][s][side])]]
  OBVIOUS
<1>2. PICK no_null, original :
         empty = [type |-> type, pages |-> <<>>, is_no_null |-> no_null,
                  original_pages |-> original]
  BY DEF SameFlag
<1>3. column = [type |-> type, pages |-> new, is_no_null |-> no_null, original_pages |-> original]
  BY <1>1, <1>2 DEF Gathered
<1>4. column.type = type /\ column.pages = new
  BY <1>3
<1>5. ASSUME NEW p \in DOMAIN pages
      PROVE  /\ Len(new[p]) = Len(pages[p])
             /\ \A s \in 1 .. Len(pages[p]) :
                  new[p][s] = CellAt(from.pages, pages[p][s][side])
  <2>1. pages[p] \in Seq(V)
    OBVIOUS
  <2>2. PICK l : l = Len(pages[p])
    OBVIOUS
  <2>3. l \in Nat /\ DOMAIN pages[p] = 1 .. l
    BY <2>1, <2>2
  <2>4. new[p] = [s \in 1 .. l |-> CellAt(from.pages, pages[p][s][side])]
    BY <1>1, <2>3
  <2>5. Len(new[p]) = l
    BY <2>3, <2>4
  <2> QED
    BY <2>2, <2>4, <2>5
<1>6. DOMAIN new = DOMAIN pages
  BY <1>1
<1>7. \A b : b \in Boxes(new) <=> b \in Boxes(pages)
  BY <1>5, <1>6, InBoxes
<1>8. ASSUME NEW b \in Boxes(pages)
      PROVE  new[b[1]][b[2]] = CellAt(from.pages, pages[b[1]][b[2]][side])
  <2>1. PICK p \in DOMAIN pages : \E s \in 1 .. Len(pages[p]) : b = <<p, s>>
    BY InBoxes
  <2>2. PICK s \in 1 .. Len(pages[p]) : b = <<p, s>>
    BY <2>1
  <2>3. b[1] = p /\ b[2] = s
    BY <2>2
  <2> QED
    BY <1>5, <2>3
<1> QED
  BY <1>4, <1>7, <1>8

(* The columns that a join of integers leaves stand for its matching rows. *)
LEMMA JoinTells ==
    ASSUME plan \in Plans, JoinsIntegers(plan),
           NEW n \in DOMAIN plan.nodes, plan.nodes[n].op = "join",
           NEW left, IsResult(plan, plan.nodes[n].left, left),
           Tells(plan, plan.nodes[n].left, left),
           NEW right, IsResult(plan, plan.nodes[n].right, right),
           Tells(plan, plan.nodes[n].right, right),
           NEW results \in ResultsOf(plan.nodes[n], left, right), results # <<>>
    PROVE  Tells(plan, n, results)
<1>1. PICK join : join = plan.nodes[n]
  OBVIOUS
<1>2. PICK attrs, l, r : attrs = join.output_attrs /\ l = Len(left) /\ r = Len(right)
  OBVIOUS
<1>3. PICK la, ra : /\ la = plan.nodes[join.left].output_attrs
                    /\ ra = plan.nodes[join.right].output_attrs
  OBVIOUS
<1>4. /\ SideBySide(left) /\ l = Len(la)
      /\ SideBySide(right) /\ r = Len(ra)
  BY <1>1, <1>2, <1>3 DEF IsResult, SideBySide
<1>5. \A m \in DOMAIN plan.nodes : IsNode(plan, plan.nodes[m])
  BY PlansAssumption
<1>6. IsNode(plan, join) /\ join.op = "join"
  BY <1>1, <1>5
<1>7. join.build_left \in BOOLEAN /\ Joins(plan, join, attrs, l, r)
  BY <1>2, <1>3, <1>4, <1>5, <1>6, JoinNode
<1>8. PICK i, j : i = join.left_attr + 1 /\ j = join.right_attr + 1
  OBVIOUS
<1>9. /\ attrs \in Seq(Attributes) /\ l \in Nat /\ r \in Nat
      /\ i \in 1 .. l /\ j \in 1 .. r
      /\ join.left \in DOMAIN plan.nodes /\ join.right \in DOMAIN plan.nodes
      /\ \A k \in DOMAIN attrs : attrs[k].col \in Nat /\ attrs[k].col < l + r
  BY <1>7, <1>8 DEF Joins
<1>10. JoinTypes(join, attrs, la, ra)
  BY <1>2, <1>3, <1>6, TypesOfJoin
<1>11. la[i].type = "INT32" /\ ra[j].type = "INT32"
  <2>1. la[i].type = "INT32"
    BY <1>1, <1>3, <1>8 DEF JoinsIntegers
  <2> QED
    BY <1>8, <1>10, <2>1 DEF JoinTypes
<1>12. la \in Seq(Attributes) /\ ra \in Seq(Attributes)
  BY <1>3, <1>5, <1>9 DEF IsNode
<1>13. PICK lefts, rights : /\ lefts = Relation(plan)[join.left]
                            /\ rights = Relation(plan)[join.right]
  OBVIOUS
<1>14. IsRows(lefts, l) /\ IsRows(rights, r)
  BY <1>1, <1>3, <1>4, <1>13 DEF Tells
<1>15. PICK KL, KR : KL = Keys(left[i]) /\ KR = Keys(right[j])
  OBVIOUS
<1>16. PICK PL, PR : PL = Positions(KL) /\ PR = Positions(KR)
  OBVIOUS
<1>17. PICK nl : Reads(left, la, lefts, PL, nl) /\ KeysRead(KL, lefts, nl, i)
  <2>1. PICK m : m = join.left
    OBVIOUS
  <2>2. Tells(plan, m, left) /\ la = plan.nodes[m].output_attrs /\ lefts = Relation(plan)[m]
        /\ i \in 1 .. Len(left)
    BY <1>1, <1>2, <1>3, <1>9, <1>13, <2>1
  <2> QED
    BY <1>4, <1>11, <1>15, <1>16, <2>2, SideReads
<1>18. PICK nr : Reads(right, ra, rights, PR, nr) /\ KeysRead(KR, rights, nr, j)
  <2>1. PICK m : m = join.right
    OBVIOUS
  <2>2. Tells(plan, m, right) /\ ra = plan.nodes[m].output_attrs /\ rights = Relation(plan)[m]
        /\ j \in 1 .. Len(right)
    BY <1>1, <1>2, <1>3, <1>9, <1>13, <2>1
  <2> QED
    BY <1>4, <1>11, <1>15, <1>16, <2>2, SideReads
<1>19. PICK build, probe, keys : /\ build = Build(join, KL, KR)
                                 /\ probe = Probe(join, KL, KR) /\ keys = KeyCells(probe)
  OBVIOUS
<1>20. /\ build = Keys(JoinColumn(join, left, right, join.build_left))
       /\ probe = Keys(JoinColumn(join, left, right, ~join.build_left))
  <2>1. CASE join.build_left
    BY <1>8, <1>15, <1>19, <2>1 DEF Build, Probe, JoinColumn
  <2>2. CASE ~join.build_left
    BY <1>8, <1>15, <1>19, <2>2 DEF Build, Probe, JoinColumn
  <2> QED
    BY <2>1, <2>2
<1>21. GoodColumn(left[i]) /\ GoodColumn(right[j])
  <2>1. left \in Seq(Columns) /\ right \in Seq(Columns)
    BY <1>4 DEF SideBySide
  <2>2. i \in DOMAIN left /\ j \in DOMAIN right
    BY <1>2, <1>9, <2>1
  <2> QED
    BY <1>4, <2>2 DEF SideBySide
<1>22. PICK V : build \in Seq(Seq(V)) /\ PagesWithin(build, PageSlots)
  <2>1. HaveShape(KL, left[i].pages) /\ HaveShape(KR, right[j].pages)
    BY <1>15, <1>21, KeysOfColumn
  <2> QED
    BY <1>19, <2>1 DEF HaveShape, Build
<1>23. PICK W : probe \in Seq(Seq(W)) /\ PagesWithin(probe, PageSlots)
  <2>1. HaveShape(KL, left[i].pages) /\ HaveShape(KR, right[j].pages)
    BY <1>15, <1>21, KeysOfColumn
  <2> QED
    BY <1>19, <2>1 DEF HaveShape, Probe
<1>24. BuildType(join) = "INT32"
  BY <1>3, <1>8, <1>11 DEF BuildType
<1>25. PICK pages \in JoinOutcomes(build, probe, keys) : results = Joined(join, left, right, pages)
  <2>1. results \in {Joined(join, left, right, q) :
            q \in IF BuildType(join) = "INT32" THEN JoinOutcomes(build, probe, keys) ELSE {<<>>}}
    BY <1>1, <1>19, <1>20 DEF ResultsOf, KeyCells
  <2> QED
    BY <1>24, <2>1
<1>26. PICK M, T, Pair : /\ M = MatchedPairs(build, probe, keys)
                         /\ T = Matching(lefts, rights, join)
                         /\ Pair = Positions(build) \X Positions(probe)
  OBVIOUS
<1>27. pages \in Seq(Seq(Pair)) /\ Hold(pages, M)
  BY <1>22, <1>23, <1>26, OutcomeHolds
<1>28. PairsMatching(M, lefts, rights, join, PL, PR, nl, nr)
  <2>1. nl \in Bijection(PL, DOMAIN lefts) /\ nr \in Bijection(PR, DOMAIN rights)
    BY <1>17, <1>18 DEF Reads
  <2>2. \A pos \in Positions(probe) : CellAt(probe, pos) \in keys <=> CellAt(probe, pos) # Null
    BY <1>19, <1>23, CellIsKey
  <2>3. /\ KeysRead(KL, lefts, nl, join.left_attr + 1)
        /\ KeysRead(KR, rights, nr, join.right_attr + 1)
    BY <1>8, <1>17, <1>18
  <2> QED
    BY <1>16, <1>19, <1>26, <2>1, <2>2, <2>3, MatchedAre
<1>29. PICK f : f = [pair \in M |-> <<nl[pair[LeftSide(join)]], nr[pair[RightSide(join)]]>>]
  OBVIOUS
<1>30. f \in Bijection(M, T)
  <2>1. nl \in Bijection(PL, DOMAIN lefts) /\ nr \in Bijection(PR, DOMAIN rights)
    BY <1>17, <1>18 DEF Reads
  <2> QED
    BY <1>26, <1>28, <1>29, <2>1, PairsBijection
<1>31. PICK S, H : S = Boxes(pages) /\ H = [b \in S |-> f[pages[b[1]][b[2]]]]
  OBVIOUS
<1>32. H \in Bijection(S, T)
  BY <1>27, <1>30, <1>31, HoldBijection
<1>33. ASSUME NEW b \in S
       PROVE  \E x \in PL, y \in PR : /\ pages[b[1]][b[2]] = Pairing(join.build_left, x, y)
                                      /\ H[b] = <<nl[x], nr[y]>>
  <2>1. PICK pair : pair = pages[b[1]][b[2]]
    OBVIOUS
  <2>2. pair \in M /\ H[b] = f[pair]
    BY <1>27, <1>31, <2>1 DEF Hold
  <2>3. PICK x \in PL, y \in PR : pair = Pairing(join.build_left, x, y)
    BY <1>28, <2>2 DEF PairsMatching
  <2>4. pair[LeftSide(join)] = x /\ pair[RightSide(join)] = y
    BY <2>3 DEF Pairing, LeftSide, RightSide
  <2>5. f[pair] = <<nl[x], nr[y]>>
    BY <1>29, <2>2, <2>4
  <2> QED
    BY <2>1, <2>2, <2>3, <2>5
<1>34. PICK m : m = Len(attrs)
  OBVIOUS
<1>35. m \in Nat /\ DOMAIN attrs = 1 .. m /\ DOMAIN results = 1 .. m /\ Len(results) = m
  BY <1>2, <1>9, <1>25, <1>34 DEF Joined
<1>36. 1 \in 1 .. m
  BY <1>2, <1>25, <1>35 DEF Joined
<1>37. left \in Seq(Columns) /\ right \in Seq(Columns)
  BY <1>4 DEF SideBySide
<1>38. ASSUME NEW k \in 1 .. m, NEW attr, attr = attrs[k], NEW src, src = source(join, attr, left, right)
       PROVE  /\ results[k].type = attr.type /\ Boxes(results[k].pages) = S
              /\ \A b \in S : results[k].pages[b[1]][b[2]] =
                                CellAt(src.column.pages, pages[b[1]][b[2]][src.side])
  <2>1. PICK empty, from, side, type, column :
          /\ empty = result_column(attr, left, right)
          /\ from = src.column /\ side = src.side /\ type = attr.type /\ column = results[k]
    OBVIOUS
  <2>2. attr.col \in Nat /\ attr.col < Len(left) + Len(right)
    BY <1>2, <1>9, <1>35, <1>38
  <2>3. SameFlag(empty, type, from)
    BY <1>37, <1>38, <2>1, <2>2, ResultColumn
  <2>4. column = Gathered(empty, from, side, pages)
    BY <1>2, <1>25, <1>35, <1>38, <2>1 DEF Joined
  <2>5. /\ column.type = type /\ Boxes(column.pages) = Boxes(pages)
        /\ \A b \in Boxes(pages) :
             column.pages[b[1]][b[2]] = CellAt(from.pages, pages[b[1]][b[2]][side])
    BY <1>27, <2>3, <2>4, GatheredCells
  <2> QED
    BY <1>31, <2>1, <2>5
<1>39. PICK told : told = Relation(plan)[n]
  OBVIOUS
<1>40. told = Projected(Inner(lefts, rights, join), attrs)
  <2>1. told = RelationStep(Relation(plan), plan, n)
    BY <1>39, RelationSteps
  <2> QED
    BY <1>1, <1>2, <1>6, <1>13, <2>1 DEF RelationStep
<1>41. PICK inner : inner = Inner(lefts, rights, join)
  OBVIOUS
<1>42. DOMAIN inner = T /\ \A t \in T : inner[t] = lefts[t[1]] \o rights[t[2]]
  BY <1>26, <1>41 DEF Inner
<1>43. DOMAIN told = T /\ \A t \in T : told[t] = [k \in 1 .. m |-> inner[t][attrs[k].col + 1]]
  BY <1>35, <1>40, <1>41, <1>42, ProjectedAre
<1>44. ASSUME NEW b \in S, NEW k \in 1 .. m, NEW v, v = results[k].pages[b[1]][b[2]]
       PROVE  /\ Denotes(plan, v) = told[H[b]][k] /\ told[H[b]][k] \in Items
              /\ Proper(plan, v, attrs[k].type)
  <2>1. PICK x \in PL, y \in PR : /\ pages[b[1]][b[2]] = Pairing(join.build_left, x, y)
                                  /\ H[b] = <<nl[x], nr[y]>>
    BY <1>33
  <2>2. PICK row : row = lefts[nl[x]] \o rights[nr[y]]
    OBVIOUS
  <2>3. /\ Denotes(plan, v) = row[attrs[k].col + 1]
        /\ row[attrs[k].col + 1] \in Items /\ Proper(plan, v, attrs[k].type)
    <3>1. PICK attr, src : attr = attrs[k] /\ src = source(join, attr, left, right)
      OBVIOUS
    <3>2. attr.col \in Nat /\ attr.col < Len(left) + Len(right)
      BY <1>2, <1>9, <1>35, <3>1
    <3>3. GatheredAt(v, join, attr, left, right, x, y)
      BY <1>38, <1>44, <2>1, <3>1 DEF GatheredAt
    <3>4. SidesRead(left, right, la, ra, lefts, rights, PL, PR, nl, nr)
      BY <1>2, <1>4, <1>12, <1>14, <1>17, <1>18, <1>37 DEF SidesRead
    <3>5. ItemOf(v, lefts[nl[x]] \o rights[nr[y]], la \o ra, attr.col + 1)
      BY <2>1, <3>2, <3>3, <3>4, SourceReads
    <3>6. attr.type = (la \o ra)[attr.col + 1].type
      BY <1>10, <1>35, <3>1 DEF JoinTypes
    <3> QED
      BY <2>2, <3>1, <3>5, <3>6 DEF ItemOf
  <2>4. H[b] \in T
    BY <1>32 DEF Bijection, Injection
  <2>5. inner[H[b]] = row
    BY <1>42, <2>1, <2>2, <2>4
  <2>6. told[H[b]][k] = row[attrs[k].col + 1]
    BY <1>43, <2>4, <2>5
  <2> QED
    BY <2>3, <2>6
<1>45. IsRows(told, m)
  <2>1. ASSUME NEW t \in T PROVE told[t] \in Seq(Items) /\ Len(told[t]) = m
    <3>1. PICK b \in S : H[b] = t
      BY <1>32 DEF Bijection, Surjection
    <3>2. PICK row : row = told[t]
      OBVIOUS
    <3>3. \A k \in 1 .. m : row[k] \in Items
      BY <1>44, <3>1, <3>2
    <3>4. row = [k \in 1 .. m |-> row[k]]
      BY <1>43, <3>2
    <3> QED
      BY <1>35, <3>2, <3>3, <3>4, IsSeq
  <2> QED
    BY <1>43, <2>1 DEF IsRows
<1>46. \A k \in 1 .. m : Suited(plan, results[k], attrs[k].type)
  BY <1>38, <1>44 DEF Suited
<1>47. Names(plan, results, told, H)
  <2>1. Boxes(results[1].pages) = S
    BY <1>36, <1>38
  <2>2. \A b \in S : \A k \in 1 .. m : Denotes(plan, results[k].pages[b[1]][b[2]]) = told[H[b]][k]
    BY <1>44
  <2> QED
    BY <1>32, <1>35, <1>43, <2>1, <2>2 DEF Names
<1> QED
  BY <1>1, <1>2, <1>34, <1>35, <1>39, <1>45, <1>46, <1>47 DEF Tells

-----------------------------------------------------------------------------
(* The table. *)

(* The rows of a table's column are what the values of a column stand for. *)
RowsTold(p, column, rows) ==
    /\ Len(rows) = Len(FlattenSeq(column.pages))
    /\ \A i \in 1 .. Len(FlattenSeq(column.pages)) :
         rows[i] = Denotes(p, FlattenSeq(column.pages)[i])

(* A value of the column's type is inserted as what it stands for.         *)
LEMMA InsertedDenotes ==
    ASSUME NEW column, NEW v \in Right(column.is_no_null, column.original_pages),
           column.type \in DataTypes, Proper(plan, v, column.type)
    PROVE  Inserted(v, column) = <<Denotes(plan, v)>>
<1>1. CASE v.mode = "VARCHAR"
  BY <1>1 DEF Inserted, Proper, Input
<1>2. CASE v.mode # "VARCHAR"
  <2>1. Inserted(v, column) = <<KeyOf(v, column)>>
    BY <1>2 DEF Inserted, Proper
  <2>2. Fits(v, "INT32")
    BY <1>2 DEF Fits, Proper, DataTypes
  <2>3. KeyOf(v, column) = Denotes(plan, v)
    BY <2>2, KeyDenotes
  <2> QED
    BY <2>1, <2>3
<1> QED
  BY <1>1, <1>2

(* to_columnar_from_column drops no value of a column of this type.        *)
LEMMA RowsTelling ==
    ASSUME NEW column, GoodColumn(column), NEW type, Suited(plan, column, type)
    PROVE  RowsTold(plan, column, Rows(column))
<1>1. PICK R, pages : /\ R = Right(column.is_no_null, column.original_pages)
                      /\ pages = column.pages
  OBVIOUS
<1>2. pages \in Seq(Seq(R)) /\ column.type \in DataTypes
  BY <1>1 DEF GoodColumn, Columns
<1>3. PICK values, F : values = FlattenSeq(pages) /\ F = FlattenSeq(Tags(pages))
  OBVIOUS
<1>4. values \in Seq(R)
  BY <1>2, <1>3, FlattenRange
<1>5. PICK n : n = Len(values)
  OBVIOUS
<1>6. n \in Nat /\ DOMAIN values = 1 .. n /\ \A i \in 1 .. n : values[i] \in R
  BY <1>4, <1>5
<1>7. F \in Bijection(1 .. n, Boxes(pages))
  BY <1>2, <1>3, <1>5, TagsBijection
<1>8. \A i \in 1 .. n : F[i] \in Boxes(pages)
  BY <1>7 DEF Bijection, Injection
<1>9. \A i \in 1 .. n : values[i] = pages[F[i][1]][F[i][2]]
  BY <1>2, <1>3, <1>5, TagsAt
<1>10. ASSUME NEW i \in 1 .. n PROVE Inserted(values[i], column) = <<Denotes(plan, values[i])>>
  <2>1. PICK b \in Boxes(pages) : values[i] = pages[b[1]][b[2]]
    BY <1>8, <1>9
  <2>2. Proper(plan, values[i], column.type)
    BY <1>1, <2>1 DEF Suited
  <2> QED
    BY <1>1, <1>2, <1>6, <2>2, InsertedDenotes
<1>11. PICK made, D : /\ made = [i \in DOMAIN values |-> Inserted(values[i], column)]
                      /\ D = {Denotes(plan, values[i]) : i \in 1 .. n}
  OBVIOUS
<1>12. Rows(column) = FlattenSeq(made)
  BY <1>1, <1>3, <1>11 DEF Rows
<1>13. ASSUME NEW i \in 1 .. n
       PROVE  made[i] \in Seq(D) /\ Len(made[i]) = 1 /\ made[i][1] = Denotes(plan, values[i])
  <2>1. PICK d : d = Denotes(plan, values[i])
    OBVIOUS
  <2>2. made[i] = <<d>> /\ d \in D
    BY <1>6, <1>10, <1>11, <2>1
  <2> QED
    BY <2>1, <2>2
<1>14. made = [i \in 1 .. n |-> made[i]]
  BY <1>6, <1>11
<1>15. made \in Seq(Seq(D)) /\ Len(made) = n
  BY <1>6, <1>13, <1>14, IsSeq
<1>16. /\ Len(FlattenSeq(made)) = n
       /\ \A i \in 1 .. n : FlattenSeq(made)[i] = made[i][1]
  BY <1>13, <1>15, FlattenSingles
<1> QED
  BY <1>1, <1>3, <1>5, <1>12, <1>13, <1>16 DEF RowsTold

(* The columns t of num rows are those of a relation: its rows, each as    *)
(* many times.                                                             *)
HasRowsOf(t, num, expected) ==
    LET rows == [i \in 1 .. num |-> [k \in DOMAIN t |-> t[k].rows[i]]]
    IN  /\ \A k \in DOMAIN t : Len(t[k].rows) = num
        /\ num = Cardinality(DOMAIN expected)
        /\ \A row \in Range(expected) : Times(row, rows) = Times(row, expected)

(* A table that tells what the columns of a result stand for has the rows  *)
(* of the node's relation.                                                 *)
LEMMA TableTells ==
    ASSUME NEW n, NEW columns, IsResult(plan, n, columns), columns # <<>>,
           Tells(plan, n, columns),
           NEW t, DOMAIN t = 1 .. Len(columns),
           \A k \in 1 .. Len(columns) : RowsTold(plan, columns[k], t[k].rows)
    PROVE  HasRowsOf(t, Len(FlattenSeq(columns[1].pages)), Relation(plan)[n])
<1>1. PICK expected, num, rows : /\ expected = Relation(plan)[n]
                                 /\ num = Len(FlattenSeq(columns[1].pages))
                                 /\ rows = [i \in 1 .. num |-> [k \in DOMAIN t |-> t[k].rows[i]]]
  OBVIOUS
<1>2. PICK m, pages, F : /\ m = Len(columns) /\ pages = columns[1].pages
                         /\ F = FlattenSeq(Tags(pages))
  OBVIOUS
<1>3. m \in Nat /\ DOMAIN columns = 1 .. m /\ 1 \in 1 .. m /\ DOMAIN t = 1 .. m
  <2>1. columns \in Seq(Columns)
    BY DEF IsResult
  <2> QED
    BY <1>2, <2>1
<1>4. ASSUME NEW k \in 1 .. m
      PROVE  columns[k].pages \in Seq(Seq(Values)) /\ Shape(columns[k].pages) = Shape(pages)
  <2>1. GoodColumn(columns[k]) /\ Shape(columns[k].pages) = Shape(pages)
    BY <1>2, <1>3 DEF IsResult
  <2> QED
    BY <2>1 DEF GoodColumn, Columns
<1>5. pages \in Seq(Seq(Values))
  BY <1>2, <1>3, <1>4
<1>6. ASSUME NEW k \in 1 .. m
      PROVE  /\ Len(FlattenSeq(columns[k].pages)) = num
             /\ \A i \in 1 .. num :
                  FlattenSeq(columns[k].pages)[i] = columns[k].pages[F[i][1]][F[i][2]]
  <2>1. PICK cells : cells = columns[k].pages
    OBVIOUS
  <2>2. /\ cells \in Seq(Seq(Values)) /\ pages \in Seq(Seq(Values))
        /\ Shape(cells) = Shape(pages) /\ F = FlattenSeq(Tags(pages))
    BY <1>2, <1>4, <1>5, <2>1
  <2>3. /\ Len(FlattenSeq(cells)) = Len(FlattenSeq(pages))
        /\ \A i \in 1 .. Len(FlattenSeq(pages)) : FlattenSeq(cells)[i] = cells[F[i][1]][F[i][2]]
    BY ONLY <2>2, TagsAt
  <2> QED
    BY <1>2, <1>1, <2>1, <2>3
<1>7. num \in Nat /\ F \in Bijection(1 .. num, Boxes(pages))
  <2>1. FlattenSeq(pages) \in Seq(Values)
    BY <1>5, FlattenRange
  <2> QED
    BY <1>2, <1>5, <1>1, <2>1, TagsBijection
<1>8. PICK B : Names(plan, columns, expected, B)
  BY <1>1 DEF Tells
<1>9. PICK D : D = [i \in 1 .. num |-> B[F[i]]]
  OBVIOUS
<1>10. B \in Bijection(Boxes(pages), DOMAIN expected)
  BY <1>2, <1>8 DEF Names
<1>11. D \in Bijection(1 .. num, DOMAIN expected)
  <2>1. PICK S, T, U : S = 1 .. num /\ T = Boxes(pages) /\ U = DOMAIN expected
    OBVIOUS
  <2>2. [s \in S |-> B[F[s]]] \in Bijection(S, U)
    BY <1>7, <1>10, <2>1, ComposeBijection
  <2> QED
    BY <1>9, <2>1, <2>2
<1>12. \A i \in 1 .. num : F[i] \in Boxes(pages) /\ D[i] \in DOMAIN expected
  BY <1>7, <1>11 DEF Bijection, Injection
<1>13. ASSUME NEW i \in 1 .. num, NEW k \in 1 .. m
       PROVE  t[k].rows[i] = expected[D[i]][k]
  <2>1. PICK b : b = F[i] /\ b \in Boxes(pages) /\ D[i] = B[b]
    BY <1>9, <1>12
  <2>2. Denotes(plan, columns[k].pages[b[1]][b[2]]) = expected[D[i]][k]
    BY <1>2, <1>8, <2>1 DEF Names
  <2>3. RowsTold(plan, columns[k], t[k].rows)
    BY <1>2
  <2>4. t[k].rows[i] = Denotes(plan, FlattenSeq(columns[k].pages)[i])
    BY <1>6, <2>3 DEF RowsTold
  <2> QED
    BY <1>6, <2>1, <2>2, <2>4
<1>14. ASSUME NEW i \in 1 .. num PROVE rows[i] = expected[D[i]]
  <2>1. PICK e : e = expected[D[i]]
    OBVIOUS
  <2>2. e \in Seq(Items) /\ Len(e) = m
    <3>1. IsRows(expected, m)
      BY <1>2, <1>1 DEF Tells, IsResult
    <3> QED
      BY <1>12, <2>1, <3>1 DEF IsRows
  <2>3. e = [k \in 1 .. m |-> e[k]]
    BY <2>2
  <2>4. rows[i] = [k \in 1 .. m |-> t[k].rows[i]]
    BY <1>3, <1>1
  <2> QED
    BY <1>13, <2>1, <2>3, <2>4
<1>15. IsFiniteSet(1 .. num) /\ Cardinality(1 .. num) = num
  <2>1. 1 \in Int /\ num \in Int
    BY <1>7
  <2>2. IsFiniteSet(1 .. num) /\ Cardinality(1 .. num) = IF 1 > num THEN 0 ELSE num - 1 + 1
    BY <2>1, FS_Interval
  <2> QED
    BY <1>7, <2>2
<1>16. num = Cardinality(DOMAIN expected)
  <2>1. PICK S, T : S = 1 .. num /\ T = DOMAIN expected
    OBVIOUS
  <2>2. D \in Bijection(S, T) /\ IsFiniteSet(S) /\ \A s \in S : s \in S <=> D[s] \in T
    BY <1>11, <1>12, <1>15, <2>1
  <2>3. Cardinality(S) = Cardinality(T)
    BY <2>2, CountBijection
  <2> QED
    BY <1>15, <2>1, <2>3
<1>17. ASSUME NEW row PROVE Times(row, rows) = Times(row, expected)
  <2>1. PICK S, T, P, Q : /\ S = 1 .. num /\ T = DOMAIN expected
                          /\ P = {name \in DOMAIN rows : rows[name] = row}
                          /\ Q = {name \in DOMAIN expected : expected[name] = row}
    OBVIOUS
  <2>2. DOMAIN rows = S
    BY <1>1, <2>1
  <2>3. /\ D \in Bijection(S, T) /\ IsFiniteSet(S) /\ P \subseteq S /\ Q \subseteq T
        /\ \A s \in S : s \in P <=> D[s] \in Q
    BY <1>11, <1>12, <1>14, <1>15, <2>1, <2>2
  <2>4. Cardinality(P) = Cardinality(Q)
    BY <2>3, CountBijection
  <2> QED
    BY <2>1, <2>4 DEF Times
<1> QED
  <2>1. \A k \in DOMAIN t : Len(t[k].rows) = num
    BY <1>2, <1>3, <1>6 DEF RowsTold
  <2> QED
    BY <1>16, <1>17, <1>1, <2>1 DEF HasRowsOf

-----------------------------------------------------------------------------
(* The invariant. *)

(* What a node of a plan results in, and in a faithful plan the relation   *)
(* that it tells.                                                          *)
Answers(p, n, columns) ==
    /\ IsResult(p, n, columns)
    /\ Faithful(p) /\ columns # <<>> => Tells(p, n, columns)

(* The calls under way: their arguments are answers of their nodes, and    *)
(* each is for the next child of the one below.                            *)
Child(n, k) == IF k = 1 THEN n.left ELSE n.right

(* A call: an argument is the result of a child, and only a join has any. *)
IsCall(p, f) ==
    /\ f \in [node : DOMAIN p.nodes, args : Seq(Seq(Columns))]
    /\ Len(f.args) <= 2
    /\ f.args # <<>> => p.nodes[f.node].op = "join"
    /\ \A k \in DOMAIN f.args : Answers(p, Child(p.nodes[f.node], k), f.args[k])

(* A call above another is for its next child. *)
Calls(p, f, g) ==
    /\ p.nodes[f.node].op = "join" /\ Len(f.args) < 2
    /\ g.node = Child(p.nodes[f.node], Len(f.args) + 1)

IsStack(p, fs) ==
    /\ fs \in Seq([node : DOMAIN p.nodes, args : Seq(Seq(Columns))])
    /\ fs # <<>> /\ fs[1].node = p.root
    /\ \A i \in 1 .. Len(fs) : IsCall(p, fs[i])
    /\ \A i \in 1 .. Len(fs) - 1 : Calls(p, fs[i], fs[i + 1])

(* While the plan is executed, the calls are a stack; then root answers    *)
(* for the plan's root.                                                    *)
StackInv ==
    /\ plan \in Plans
    /\ IF phase = "execute" THEN IsStack(plan, frames) /\ root = <<>> /\ table = <<>>
       ELSE frames = <<>> /\ Answers(plan, plan.root, root)

(* The columns of the table so far tell what those of a result stand for.  *)
Told(p, columns, t) ==
    \A k \in 1 .. Len(t) : RowsTold(p, columns[k], t[k].rows)

(* The table has the types of root's columns, in a faithful plan also      *)
(* their rows, and is complete when it is returned.                        *)
TableInv ==
    /\ table = [k \in 1 .. Len(table) |-> table[k]]
    /\ Len(table) \in 0 .. Len(root)
    /\ \A k \in 1 .. Len(table) : table[k].type = root[k].type
    /\ Faithful(plan) => Told(plan, root, table)
    /\ phase = "returned" => Len(table) = Len(root)

ExecuteInv == StackInv /\ TableInv

-----------------------------------------------------------------------------
(* The calls under way. *)

Call(p) == [node : DOMAIN p.nodes, args : Seq(Seq(Columns))]

(* A call for a child returns to the call below. *)
LEMMA StackReturns ==
    ASSUME NEW p, NEW fs, IsStack(p, fs), Len(fs) # 1,
           NEW columns, Answers(p, Last(fs).node, columns)
    PROVE  IsStack(p, Answered(fs, columns))
<1>1. PICK rest, gs : rest = Front(fs) /\ gs = Answered(fs, columns)
  OBVIOUS
<1>2. PICK n, C : n = Len(fs) /\ C = Call(p)
  OBVIOUS
<1>3. fs \in Seq(C) /\ fs # <<>> /\ fs[1].node = p.root
  BY <1>2 DEF IsStack, Call
<1>4. n \in Nat /\ n > 1
  BY <1>2, <1>3
<1>5. PICK m : m = n - 1
  OBVIOUS
<1>6. m \in Nat /\ m >= 1 /\ m < n /\ n = m + 1
  BY <1>4, <1>5
<1>7. rest = [i \in 1 .. m |-> fs[i]] /\ Len(rest) = m
  <2>1. rest = SubSeq(fs, 1, m)
    BY <1>2, <1>5, <1>1 DEF Front
  <2> QED
    BY <1>2, <1>3, <1>6, <2>1
<1>8. PICK f, g : f = fs[m] /\ g = fs[n]
  OBVIOUS
<1>9. f \in C /\ g \in C
  <2>1. fs \in Seq(C) /\ Len(fs) = n /\ m \in 1 .. n /\ n \in 1 .. n
    BY <1>2, <1>3, <1>4, <1>6
  <2> QED
    BY <1>8, <2>1
<1>10. IsCall(p, f) /\ Calls(p, f, g)
  BY <1>2, <1>6, <1>8 DEF IsStack
<1>11. Answers(p, g.node, columns)
  BY <1>2, <1>8 DEF Last
<1>12. PICK args, node_ : args = f.args /\ node_ = f.node
  OBVIOUS
<1>13. args \in Seq(Seq(Columns)) /\ node_ \in DOMAIN p.nodes /\ f = [node |-> node_, args |-> args]
  BY <1>2, <1>9, <1>12 DEF Call
<1>14. PICK new : new = [node |-> node_, args |-> Append(args, columns)]
  OBVIOUS
<1>15. gs = [i \in 1 .. m |-> IF i = m THEN new ELSE fs[i]]
  <2>1. gs = [i \in 1 .. m |-> IF i = m THEN [f EXCEPT !.args = Append(f.args, columns)] ELSE fs[i]]
    BY <1>6, <1>7, <1>8, <1>1 DEF Answered
  <2>2. [f EXCEPT !.args = Append(f.args, columns)] = new
    <3>1. PICK a : a = Append(f.args, columns)
      OBVIOUS
    <3>2. [f EXCEPT !.args = a] = [node |-> node_, args |-> a]
      BY <1>13
    <3> QED
      BY <1>12, <1>14, <3>1, <3>2
  <2> QED
    BY <2>1, <2>2
<1>16. columns \in Seq(Columns)
  BY DEF Answers, IsResult
<1>17. IsCall(p, new)
  <2>1. PICK a : a = Append(args, columns)
    OBVIOUS
  <2>2. PICK z : z = Len(args)
    OBVIOUS
  <2>3. z \in Nat
    BY <1>13, <2>2, LenOf
  <2>4. z < 2
    BY <1>10, <1>12, <2>2 DEF Calls
  <2>5. z \in 0 .. 1
    BY <2>3, <2>4
  <2>6. /\ a \in Seq(Seq(Columns)) /\ Len(a) = z + 1 /\ DOMAIN a = 1 .. z + 1
        /\ a[z + 1] = columns /\ \A k \in 1 .. z : a[k] = args[k]
    BY <1>13, <1>16, <2>1, <2>2
  <2>7. new.args = a /\ new.node = node_ /\ new \in C
    BY <1>2, <1>13, <1>14, <2>1, <2>6 DEF Call
  <2>8. p.nodes[node_].op = "join" /\ g.node = Child(p.nodes[node_], z + 1)
    BY <1>10, <1>12, <2>2 DEF Calls
  <2>9. ASSUME NEW k \in DOMAIN a PROVE Answers(p, Child(p.nodes[node_], k), a[k])
    <3>1. CASE k = z + 1
      BY <1>11, <2>6, <2>8, <3>1
    <3>2. CASE k # z + 1
      <4>1. k \in 1 .. z
        BY <2>5, <2>6, <3>2
      <4>2. DOMAIN args = 1 .. z
        BY <1>13, <2>2
      <4>3. k \in DOMAIN args /\ a[k] = args[k]
        BY <2>6, <4>1, <4>2
      <4> QED
        BY <1>10, <1>12, <4>3 DEF IsCall
    <3> QED
      BY <3>1, <3>2
  <2>10. Len(a) <= 2
    BY <2>5, <2>6
  <2> QED
    BY <1>2, <2>7, <2>8, <2>9, <2>10 DEF IsCall, Call
<1>18. ASSUME NEW i \in 1 .. m
       PROVE  gs[i] \in C /\ IsCall(p, gs[i]) /\ gs[i].node = fs[i].node
  <2>1. CASE i = m
    <3>1. gs[i] = new /\ new.node = fs[i].node
      BY <1>8, <1>12, <1>14, <1>15, <2>1
    <3>2. new \in C
      BY <1>2, <1>17 DEF IsCall, Call
    <3> QED
      BY <1>17, <3>1, <3>2
  <2>2. CASE i # m
    <3>1. gs[i] = fs[i] /\ i \in 1 .. n
      BY <1>6, <1>15, <2>2
    <3> QED
      BY <1>2, <1>3, <3>1 DEF IsStack
  <2> QED
    BY <2>1, <2>2
<1>19. gs = [i \in 1 .. m |-> gs[i]]
  BY <1>15
<1>20. gs \in Seq(C) /\ Len(gs) = m
  BY <1>6, <1>18, <1>19, IsSeq
<1>21. ASSUME NEW i \in 1 .. m - 1 PROVE Calls(p, gs[i], gs[i + 1])
  <2>1. i \in 1 .. m /\ i + 1 \in 1 .. m /\ i # m /\ i \in 1 .. n - 1
    BY <1>6
  <2>2. gs[i] = fs[i] /\ gs[i + 1].node = fs[i + 1].node
    BY <1>15, <1>18, <2>1
  <2>3. Calls(p, fs[i], fs[i + 1])
    BY <1>2, <2>1 DEF IsStack
  <2> QED
    BY <2>2, <2>3 DEF Calls
<1>22. gs # <<>> /\ gs[1].node = p.root
  BY <1>3, <1>6, <1>18, <1>20
<1> QED
  BY <1>2, <1>18, <1>20, <1>21, <1>22, <1>1 DEF IsStack, Call

(* A join calls for its next child. *)
LEMMA StackDescends ==
    ASSUME NEW p \in Plans, NEW fs, IsStack(p, fs), NEW f, f = Last(fs),
           p.nodes[f.node].op = "join", Len(f.args) < 2,
           NEW child, child = NextChild(p.nodes[f.node], f)
    PROVE  IsStack(p, Append(fs, Frame(child)))
<1>1. PICK n, C : n = Len(fs) /\ C = Call(p)
  OBVIOUS
<1>2. fs \in Seq(C) /\ fs # <<>> /\ fs[1].node = p.root
  BY <1>1 DEF IsStack, Call
<1>3. n \in Nat /\ n >= 1 /\ f = fs[n] /\ DOMAIN fs = 1 .. n
  BY <1>1, <1>2 DEF Last
<1>4. PICK new : new = Frame(child)
  OBVIOUS
<1>5. new = [node |-> child, args |-> <<>>]
  BY <1>4 DEF Frame
<1>6. f.node \in DOMAIN p.nodes /\ f.args \in Seq(Seq(Columns))
  <2>1. f \in C
    BY <1>2, <1>3
  <2> QED
    BY <1>1, <2>1 DEF Call
<1>7. child \in DOMAIN p.nodes
  <2>1. PICK join : join = p.nodes[f.node]
    OBVIOUS
  <2>2. \A k \in DOMAIN p.nodes : IsNode(p, p.nodes[k])
    BY PlansAssumption
  <2>3. IsNode(p, join) /\ join.op = "join"
    BY <1>6, <2>1, <2>2
  <2>4. join.left \in DOMAIN p.nodes /\ join.right \in DOMAIN p.nodes
    BY <2>2, <2>3, JoinNode DEF Joins
  <2> QED
    BY <2>1, <2>4 DEF NextChild
<1>8. IsCall(p, new) /\ new \in C
  <2>1. <<>> \in Seq(Seq(Columns))
    BY EmptySeq
  <2>2. PICK a : a = <<>>
    OBVIOUS
  <2>3. a \in Seq(Seq(Columns)) /\ Len(a) = 0 /\ DOMAIN a = {}
    BY <2>1, <2>2
  <2>4. new = [node |-> child, args |-> a]
    BY <1>5, <2>2
  <2>5. new \in [node : DOMAIN p.nodes, args : Seq(Seq(Columns))] /\ new.args = a
    BY <1>7, <2>3, <2>4
  <2> QED
    BY <1>1, <2>2, <2>3, <2>5 DEF IsCall, Call
<1>9. Calls(p, f, new)
  <2>1. PICK z : z = Len(f.args)
    OBVIOUS
  <2>2. PICK a : a = f.args
    OBVIOUS
  <2>3. a \in Seq(Seq(Columns)) /\ z = Len(a) /\ z < 2
    BY <1>6, <2>1, <2>2
  <2>4. z \in 0 .. 1 /\ (a = <<>> <=> z = 0)
    BY <2>3
  <2>5. z \in 0 .. 1 /\ (f.args = <<>> <=> z = 0)
    BY <2>2, <2>4
  <2>6. child = Child(p.nodes[f.node], z + 1)
    BY <2>5 DEF Child, NextChild
  <2>7. new.node = child
    BY <1>5
  <2> QED
    BY <2>1, <2>6, <2>7 DEF Calls
<1>10. PICK gs : gs = Append(fs, new)
  OBVIOUS
<1>11. /\ gs \in Seq(C) /\ Len(gs) = n + 1 /\ gs # <<>>
       /\ gs[n + 1] = new /\ \A i \in 1 .. n : gs[i] = fs[i]
  BY <1>1, <1>2, <1>8, <1>10
<1>12. ASSUME NEW i \in 1 .. n + 1 PROVE IsCall(p, gs[i])
  <2>1. CASE i = n + 1
    BY <1>8, <1>11, <2>1
  <2>2. CASE i # n + 1
    <3>1. i \in 1 .. n
      BY <1>3, <2>2
    <3> QED
      BY <1>1, <1>11, <3>1 DEF IsStack
  <2> QED
    BY <2>1, <2>2
<1>13. ASSUME NEW i \in 1 .. n PROVE Calls(p, gs[i], gs[i + 1])
  <2>1. CASE i = n
    BY <1>3, <1>9, <1>11, <2>1
  <2>2. CASE i # n
    <3>1. i \in 1 .. n - 1 /\ i + 1 \in 1 .. n
      BY <1>3, <2>2
    <3>2. gs[i] = fs[i] /\ gs[i + 1] = fs[i + 1]
      BY <1>11, <3>1
    <3> QED
      BY <1>1, <3>1, <3>2 DEF IsStack
  <2> QED
    BY <2>1, <2>2
<1>14. gs[1].node = p.root
  BY <1>2, <1>3, <1>11
<1>15. \A i \in 1 .. Len(gs) - 1 : Calls(p, gs[i], gs[i + 1])
  BY <1>3, <1>11, <1>13
<1>16. IsStack(p, gs)
  BY <1>1, <1>11, <1>12, <1>14, <1>15 DEF IsStack, Call
<1> QED
  BY <1>4, <1>10, <1>16

-----------------------------------------------------------------------------
(* The steps of an execution. *)

LEMMA ResultLen ==
    ASSUME NEW p, NEW n, NEW columns, Answers(p, n, columns)
    PROVE  columns \in Seq(Columns) /\ Len(columns) \in Nat /\ DOMAIN columns = 1 .. Len(columns)
<1>1. columns \in Seq(Columns)
  BY DEF Answers, IsResult
<1> QED
  BY <1>1

(* The invariant holds at first, and every step keeps it.                  *)
LEMMA InitExecute == Init => ExecuteInv
<1> SUFFICES ASSUME Init PROVE ExecuteInv
  OBVIOUS
<1>1. /\ plan \in Plans /\ frames = <<Frame(plan.root)>> /\ phase = "execute"
      /\ root = <<>> /\ table = <<>>
  BY DEF Init
<1>2. PICK f : f = Frame(plan.root)
  OBVIOUS
<1>3. PICK a : a = <<>>
  OBVIOUS
<1>4. a \in Seq(Seq(Columns)) /\ Len(a) = 0 /\ DOMAIN a = {}
  BY <1>3, EmptySeq
<1>5. plan.root \in DOMAIN plan.nodes
  BY <1>1, PlansAssumption
<1>6. f = [node |-> plan.root, args |-> a]
  BY <1>2, <1>3 DEF Frame
<1>7. f \in Call(plan) /\ f.args = a /\ f.node = plan.root
  BY <1>4, <1>5, <1>6 DEF Call
<1>8. IsCall(plan, f)
  BY <1>3, <1>4, <1>7 DEF IsCall, Call
<1>9. PICK C, fs : C = Call(plan) /\ fs = <<f>>
  OBVIOUS
<1>10. fs \in Seq(C) /\ Len(fs) = 1 /\ fs # <<>> /\ fs[1] = f
  BY <1>7, <1>9
<1>11. 1 .. Len(fs) - 1 = {} /\ \A i \in 1 .. Len(fs) : fs[i] = f
  BY <1>10
<1>12. IsStack(plan, fs)
  BY <1>7, <1>8, <1>9, <1>10, <1>11 DEF IsStack, Call
<1>13. StackInv
  BY <1>1, <1>2, <1>9, <1>12 DEF StackInv
<1>14. TableInv
  BY <1>1 DEF TableInv, Told
<1> QED
  BY <1>13, <1>14 DEF ExecuteInv

(* What the last call returns is put where it is waited for. *)
LEMMA ReturnsStep ==
    ASSUME StackInv, phase = "execute", NEW columns, Answers(plan, top.node, columns),
           Returns(columns), plan' = plan, table' = table
    PROVE  ExecuteInv'
<1>1. PICK p, fs : p = plan /\ fs = frames
  OBVIOUS
<1>2. p \in Plans /\ IsStack(p, fs) /\ root = <<>> /\ table = <<>> /\ plan' = p
  BY <1>1 DEF StackInv
<1>3. Answers(p, Last(fs).node, columns)
  BY <1>1 DEF top
<1>4. CASE Len(frames) = 1
  <2>1. frames' = <<>> /\ root' = columns /\ phase' = "convert"
    BY <1>4 DEF Returns
  <2>2. Answers(p, p.root, columns)
    BY <1>1, <1>2, <1>3, <1>4 DEF IsStack, Last
  <2>3. StackInv'
    BY <1>2, <2>1, <2>2 DEF StackInv
  <2>4. Len(columns) \in Nat
    BY <1>3, ResultLen
  <2>5. table' = <<>>
    BY <1>2
  <2>6. TableInv'
    BY <2>1, <2>4, <2>5 DEF TableInv, Told
  <2> QED
    BY <2>3, <2>6 DEF ExecuteInv
<1>5. CASE Len(frames) # 1
  <2>1. frames' = Answered(fs, columns) /\ root' = <<>> /\ phase' = "execute"
    BY <1>1, <1>2, <1>5 DEF Returns
  <2>2. IsStack(p, Answered(fs, columns))
    BY <1>1, <1>2, <1>3, <1>5, StackReturns
  <2>3. table' = <<>>
    BY <1>2
  <2>4. StackInv'
    BY <1>2, <2>1, <2>2, <2>3 DEF StackInv
  <2>5. TableInv'
    BY <2>1, <2>3 DEF TableInv, Told
  <2> QED
    BY <2>4, <2>5 DEF ExecuteInv
<1> QED
  BY <1>4, <1>5

LEMMA StepExecute == ExecuteInv /\ [Next]_vars => ExecuteInv'
<1> SUFFICES ASSUME ExecuteInv, [Next]_vars PROVE ExecuteInv'
  OBVIOUS
<1>1. StackInv /\ TableInv
  BY DEF ExecuteInv
<1>2. PICK p, fs, n : p = plan /\ fs = frames /\ n = top.node
  OBVIOUS
<1>3. p \in Plans /\ plan \in Plans
  BY <1>1, <1>2 DEF StackInv
<1>4. ASSUME phase = "execute"
      PROVE  IsStack(p, fs) /\ Last(fs) = top /\ IsCall(p, top) /\ n \in DOMAIN plan.nodes
             /\ node = plan.nodes[n]
  <2>1. IsStack(p, fs)
    BY <1>1, <1>2, <1>4 DEF StackInv
  <2>2. fs \in Seq(Call(p)) /\ fs # <<>>
    BY <2>1 DEF IsStack, Call
  <2>3. PICK m : m = Len(fs)
    OBVIOUS
  <2>4. m \in 1 .. Len(fs) /\ Last(fs) = fs[m]
    BY <2>2, <2>3 DEF Last
  <2>5. IsCall(p, fs[m])
    BY <2>1, <2>4 DEF IsStack
  <2>6. top = fs[m]
    BY <1>2, <2>4 DEF top
  <2>7. fs[m].node \in DOMAIN p.nodes
    BY <2>5 DEF IsCall
  <2> QED
    BY <1>2, <2>1, <2>4, <2>5, <2>6, <2>7 DEF node
<1>5. CASE ExecuteScan
  <2>1. phase = "execute" /\ node.op = "scan" /\ plan' = plan /\ table' = table
    BY <1>5 DEF ExecuteScan
  <2>2. PICK columns : columns = Copies(node)
    OBVIOUS
  <2>3. Returns(columns)
    BY <1>5, <2>2 DEF ExecuteScan, Copies
  <2>4. Answers(plan, n, columns)
    <3>1. IsResult(plan, n, columns)
      BY <1>3, <1>4, <2>1, <2>2, ScanResult
    <3>2. Faithful(plan) /\ columns # <<>> => Tells(plan, n, columns)
      BY <1>3, <1>4, <2>1, <2>2, ScanTells DEF Faithful
    <3> QED
      BY <3>1, <3>2 DEF Answers
  <2> QED
    BY <1>1, <1>2, <2>1, <2>3, <2>4, ReturnsStep
<1>6. CASE Descend
  <2>1. /\ phase = "execute" /\ node.op = "join" /\ Len(top.args) < 2
        /\ frames' = Append(frames, Frame(NextChild(node, top)))
        /\ plan' = plan /\ phase' = phase /\ root' = root /\ table' = table
    BY <1>6 DEF Descend, Incomplete
  <2>2. PICK f, child : f = top /\ child = NextChild(node, top)
    OBVIOUS
  <2>3. /\ IsStack(p, fs) /\ f = Last(fs) /\ p.nodes[f.node].op = "join" /\ Len(f.args) < 2
        /\ child = NextChild(p.nodes[f.node], f)
    BY <1>2, <1>4, <2>1, <2>2
  <2>4. IsStack(p, Append(fs, Frame(child)))
    BY <1>3, <2>3, StackDescends
  <2>5. frames' = Append(fs, Frame(child))
    BY <1>2, <2>1, <2>2
  <2>6. root = <<>> /\ table = <<>>
    BY <1>1, <2>1 DEF StackInv
  <2>7. StackInv'
    BY <1>2, <1>3, <2>1, <2>4, <2>5, <2>6 DEF StackInv
  <2>8. TableInv'
    BY <1>1, <2>1 DEF TableInv
  <2> QED
    BY <2>7, <2>8 DEF ExecuteInv
<1>7. CASE ExecuteJoin
  <2>1. /\ phase = "execute" /\ node.op = "join" /\ ~Incomplete(top)
        /\ plan' = plan /\ table' = table
    BY <1>7 DEF ExecuteJoin
  <2>2. PICK columns \in ResultsOf(node, top.args[1], top.args[2]) : Returns(columns)
    BY <1>7 DEF ExecuteJoin
  <2>3. PICK args, left, right : args = top.args /\ left = top.args[1] /\ right = top.args[2]
    OBVIOUS
  <2>4. IsCall(plan, top) /\ n \in DOMAIN plan.nodes /\ node = plan.nodes[n]
    BY <1>2, <1>4, <2>1
  <2>5. args \in Seq(Seq(Columns)) /\ Len(args) <= 2 /\ ~(Len(args) < 2)
    BY <2>1, <2>3, <2>4 DEF IsCall, Incomplete
  <2>6. 1 \in DOMAIN args /\ 2 \in DOMAIN args
    BY <2>5
  <2>7. Answers(plan, Child(node, 1), left) /\ Answers(plan, Child(node, 2), right)
    BY <1>2, <2>3, <2>4, <2>6 DEF IsCall
  <2>8. Answers(plan, node.left, left) /\ Answers(plan, node.right, right)
    BY <2>7 DEF Child
  <2>9. columns \in ResultsOf(plan.nodes[n], left, right)
    BY <2>2, <2>3, <2>4
  <2>10. Answers(plan, n, columns)
    <3>1. IsResult(plan, node.left, left) /\ IsResult(plan, node.right, right)
      BY <2>8 DEF Answers
    <3>2. IsResult(plan, n, columns)
      BY <1>3, <2>1, <2>4, <2>9, <3>1, JoinResult
    <3>3. left # <<>> /\ right # <<>>
      <4>1. /\ \A m \in DOMAIN plan.nodes : IsNode(plan, plan.nodes[m])
            /\ IsNode(plan, node) /\ node.op = "join"
        BY <1>3, <2>1, <2>4, PlansAssumption
      <4>2. PICK l, r : /\ l = Len(plan.nodes[node.left].output_attrs)
                        /\ r = Len(plan.nodes[node.right].output_attrs)
        OBVIOUS
      <4>3. node.left_attr + 1 \in 1 .. l /\ node.right_attr + 1 \in 1 .. r
        BY <4>1, <4>2, JoinNode DEF Joins
      <4>4. Len(left) = l /\ Len(right) = r
        BY <3>1, <4>2 DEF IsResult
      <4>5. left \in Seq(Columns) /\ right \in Seq(Columns)
        BY <3>1 DEF IsResult
      <4>6. Len(left) \in Nat /\ Len(right) \in Nat
        BY <4>5
      <4>7. Len(left) # 0 /\ Len(right) # 0
        BY <4>3, <4>4, <4>6
      <4> QED
        BY <4>7
    <3>4. Faithful(plan) /\ columns # <<>> => Tells(plan, n, columns)
      <4> SUFFICES ASSUME Faithful(plan), columns # <<>> PROVE Tells(plan, n, columns)
        OBVIOUS
      <4>1. node = plan.nodes[n] /\ n \in DOMAIN plan.nodes /\ plan \in Plans
        BY <1>3, <2>4
      <4>2. Tells(plan, node.left, left) /\ Tells(plan, node.right, right)
        BY <2>8, <3>3 DEF Answers
      <4> QED
        BY <2>1, <2>9, <3>1, <4>1, <4>2, JoinTells DEF Faithful
    <3> QED
      BY <3>2, <3>4 DEF Answers
  <2> QED
    BY <1>1, <1>2, <2>1, <2>2, <2>10, ReturnsStep
<1>8. CASE ConvertColumn
  <2>1. /\ phase = "convert" /\ Len(table) < Len(root)
        /\ table' = Append(table, Materialised(root[Len(table) + 1]))
        /\ plan' = plan /\ frames' = frames /\ phase' = phase /\ root' = root
    BY <1>8 DEF ConvertColumn
  <2>2. StackInv'
    BY <1>1, <2>1 DEF StackInv
  <2>3. PICK k : k = Len(table)
    OBVIOUS
  <2>4. PICK t, r : t = table /\ r = root
    OBVIOUS
  <2>5. t = table /\ r = root /\ k = Len(table)
    BY <2>3, <2>4
  <2>6. PICK c : c = r[k + 1]
    OBVIOUS
  <2>7. PICK new : new = Materialised(c)
    OBVIOUS
  <2>8. new.type = r[k + 1].type
    BY <2>7, <2>6 DEF Materialised
  <2>9. Len(r) \in Nat
    BY <1>1, <2>1, <2>5, ResultLen DEF StackInv
  <2>10. t = [i \in 1 .. k |-> t[i]] /\ k \in Nat /\ k < Len(r)
         /\ \A i \in 1 .. k : t[i].type = r[i].type
    BY <1>1, <2>1, <2>5, <2>9 DEF TableInv
  <2>11. PICK S : S = {t[i] : i \in 1 .. k} \cup {new}
    OBVIOUS
  <2>12. t \in Seq(S) /\ Len(t) = k /\ new \in S
    BY <2>10, <2>11, IsSeq
  <2>13. PICK u : u = Append(t, new)
    OBVIOUS
  <2>14. /\ u \in Seq(S) /\ Len(u) = k + 1 /\ u[k + 1] = new
         /\ \A i \in 1 .. k : u[i] = t[i]
    BY <2>12, <2>13
  <2>15. \A i \in 1 .. k + 1 : u[i].type = r[i].type
    BY <2>8, <2>10, <2>14
  <2>16. u = [i \in 1 .. Len(u) |-> u[i]] /\ Len(u) \in 0 .. Len(r)
         /\ \A i \in 1 .. Len(u) : u[i].type = r[i].type
    BY <2>9, <2>10, <2>14, <2>15
  <2>17. table' = u /\ root' = r /\ plan' = p /\ phase' # "returned"
    BY <1>2, <2>1, <2>5, <2>7, <2>13, <2>6
  <2>18. ASSUME Faithful(p) PROVE Told(p, r, u)
    <3>1. RowsTold(p, c, new.rows)
      <4>1. IsResult(plan, plan.root, r) /\ r # <<>> /\ plan = p
        <5>1. IsResult(plan, plan.root, root)
          BY <1>1, <2>1 DEF StackInv, Answers
        <5> QED
          BY <1>2, <2>5, <2>9, <2>10, <5>1
      <4>2. Tells(plan, plan.root, r)
        BY <1>1, <2>1, <2>5, <2>18, <4>1 DEF StackInv, Answers
      <4>3. k + 1 \in 1 .. Len(r) /\ DOMAIN r = 1 .. Len(r)
        <5>1. r \in Seq(Columns)
          BY <4>1 DEF IsResult
        <5> QED
          BY <2>9, <2>10, <5>1
      <4>4. GoodColumn(c)
        BY <2>6, <4>1, <4>3 DEF IsResult
      <4>5. PICK type : Suited(plan, c, type)
        BY <2>6, <4>2, <4>3 DEF Tells
      <4> QED
        BY <2>7, <4>1, <4>4, <4>5, RowsTelling DEF Materialised
    <3>2. ASSUME NEW i \in 1 .. k + 1 PROVE RowsTold(p, r[i], u[i].rows)
      <4>1. CASE i = k + 1
        BY <2>14, <2>6, <3>1, <4>1
      <4>2. CASE i # k + 1
        <5>1. i \in 1 .. k
          BY <2>10, <4>2
        <5>2. Told(p, r, t)
          BY <1>1, <1>2, <2>5, <2>18 DEF TableInv
        <5> QED
          BY <2>5, <2>14, <5>1, <5>2 DEF Told
      <4> QED
        BY <4>1, <4>2
    <3> QED
      BY <2>14, <3>2 DEF Told
  <2>19. TableInv'
    BY <2>16, <2>17, <2>18 DEF TableInv
  <2> QED
    BY <2>2, <2>19 DEF ExecuteInv
<1>9. CASE Return
  <2>1. /\ phase = "convert" /\ phase' = "returned" /\ Len(table) = Len(root)
        /\ plan' = plan /\ frames' = frames /\ root' = root /\ table' = table
    BY <1>9 DEF Return
  <2>2. StackInv'
    BY <1>1, <2>1 DEF StackInv
  <2>3. TableInv'
    BY <1>1, <2>1 DEF TableInv
  <2> QED
    BY <2>2, <2>3 DEF ExecuteInv
<1>10. CASE UNCHANGED vars
  <2>1. plan' = plan /\ frames' = frames /\ phase' = phase /\ root' = root /\ table' = table
    BY <1>10 DEF vars
  <2> QED
    BY <1>1, <2>1 DEF ExecuteInv, StackInv, TableInv
<1> QED
  BY <1>5, <1>6, <1>7, <1>8, <1>9, <1>10 DEF Next

-----------------------------------------------------------------------------
(* The theorems. *)

(* Whatever is at hand is the result of a node. *)
LEMMA AtHand ==
    ASSUME ExecuteInv, NEW columns \in Results
    PROVE  SideBySide(columns)
<1>1. CASE columns = <<>>
  <2>1. PICK c : c = <<>>
    OBVIOUS
  <2>2. c \in Seq(Columns) /\ DOMAIN c = {}
    BY <2>1, EmptySeq
  <2>3. SideBySide(c)
    BY <2>2 DEF SideBySide
  <2> QED
    BY <1>1, <2>1, <2>3
<1>2. CASE columns # <<>>
  <2>1. StackInv
    BY DEF ExecuteInv
  <2>2. CASE phase = "execute"
    <3>1. IsStack(plan, frames) /\ root = <<>>
      BY <2>1, <2>2 DEF StackInv
    <3>2. PICK f \in Range(frames) : columns \in Range(f.args)
      BY <1>2, <3>1 DEF Results
    <3>3. PICK C : C = Call(plan)
      OBVIOUS
    <3>4. frames \in Seq(C)
      BY <3>1, <3>3 DEF IsStack, Call
    <3>5. PICK i \in 1 .. Len(frames) : f = frames[i]
      BY <3>2, <3>4 DEF Range
    <3>6. IsCall(plan, f)
      BY <3>1, <3>5 DEF IsStack
    <3>7. PICK k \in DOMAIN f.args : columns = f.args[k]
      BY <3>2 DEF Range
    <3>8. PICK n : Answers(plan, n, columns)
      BY <3>6, <3>7 DEF IsCall
    <3> QED
      BY <3>8 DEF Answers, IsResult, SideBySide
  <2>3. CASE phase # "execute"
    <3>1. frames = <<>> /\ Answers(plan, plan.root, root)
      BY <2>1, <2>3 DEF StackInv
    <3>2. DOMAIN frames = {}
      BY <3>1
    <3>3. Range(frames) = {}
      BY <3>2 DEF Range
    <3>4. columns = root
      BY <3>3 DEF Results
    <3>5. PICK n : Answers(plan, n, columns)
      BY <3>1, <3>4
    <3> QED
      BY <3>5 DEF Answers, IsResult, SideBySide
  <2> QED
    BY <2>2, <2>3
<1> QED
  BY <1>1, <1>2

LEMMA AlwaysExecuteInv == Spec => []ExecuteInv
BY InitExecute, StepExecute, PTL DEF Spec

(* The columns of every result, copied in scans and gathered in joins,     *)
(* have the same pages with as many values.                                *)
THEOREM ResultsAligned == Spec => []ColumnsAligned
<1>1. ExecuteInv => ColumnsAligned
  BY AtHand DEF ColumnsAligned, SideBySide
<1> QED
  BY <1>1, AlwaysExecuteInv, PTL

(* A column's flag, and the pages that it names, are those of its values,  *)
(* through any number of joins.                                            *)
THEOREM ReferencesFollow == Spec => []ReferencesRight
<1>1. ASSUME ExecuteInv, NEW columns \in Results, NEW column \in Range(columns),
             NEW v \in Range(FlattenSeq(column.pages))
      PROVE  IF column.is_no_null
             THEN /\ v.mode = "INT32_NO_NULL"
                  /\ column.original_pages = Original(v.table, v.column)
             ELSE v.mode # "INT32_NO_NULL"
  <2>1. SideBySide(columns)
    BY <1>1, AtHand
  <2>2. PICK k \in DOMAIN columns : column = columns[k]
    BY DEF Range
  <2>3. GoodColumn(column)
    BY <2>1, <2>2 DEF SideBySide
  <2>4. PICK R : R = Right(column.is_no_null, column.original_pages)
    OBVIOUS
  <2>5. PICK pages : pages = column.pages
    OBVIOUS
  <2>6. pages \in Seq(Seq(R))
    BY <2>3, <2>4, <2>5 DEF GoodColumn
  <2>7. FlattenSeq(pages) \in Seq(R)
    BY <2>6, FlattenRange
  <2>8. v \in R
    BY <2>5, <2>7 DEF Range
  <2> QED
    BY <2>4, <2>8 DEF Right
<1>2. ExecuteInv => ReferencesRight
  BY <1>1 DEF ReferencesRight
<1> QED
  BY <1>2, AlwaysExecuteInv, PTL

(* What execute returns is the relation of the plan, when its joins are of *)
(* integers and no input has a negative integer beside NULLs or an empty   *)
(* string: the columns of the root tell of which of the relation's rows    *)
(* each of their values is, and the table has what the values stand for.   *)
THEOREM ReturnsTheRelation == Spec => []PlanCorrect
<1>1. ASSUME ExecuteInv, phase = "returned", Faithful(plan)
      PROVE  HasRowsOf(table, num_rows, Relation(plan)[plan.root])
  <2>1. plan \in Plans /\ Answers(plan, plan.root, root)
    BY <1>1 DEF ExecuteInv, StackInv
  <2>2. IsResult(plan, plan.root, root)
    BY <2>1 DEF Answers
  <2>3. root # <<>>
    <3>1. PICK attrs : attrs = plan.nodes[plan.root].output_attrs
      OBVIOUS
    <3>2. attrs \in Seq(Attributes) /\ attrs # <<>>
      BY <2>1, <3>1, PlansAssumption DEF IsNode
    <3>3. Len(attrs) # 0 /\ Len(root) = Len(attrs)
      BY <2>2, <3>1, <3>2 DEF IsResult
    <3> QED
      BY <3>3
  <2>4. Tells(plan, plan.root, root)
    BY <1>1, <2>1, <2>3 DEF Answers
  <2>5. /\ DOMAIN table = 1 .. Len(root)
        /\ \A k \in 1 .. Len(root) : RowsTold(plan, root[k], table[k].rows)
    BY <1>1 DEF ExecuteInv, TableInv, Told
  <2> QED
    BY <2>2, <2>3, <2>4, <2>5, TableTells DEF num_rows
<1>2. ExecuteInv => PlanCorrect
  BY <1>1 DEF PlanCorrect, HasRowsOf, Faithful
<1> QED
  BY <1>2, AlwaysExecuteInv, PTL

(* The table's columns have the types that the plan asks for, except those *)
(* scanned from a column without pages.                                    *)
THEOREM TypesAsAsked == Spec => []ResultTypes
<1>1. ASSUME ExecuteInv, phase = "returned", NEW k \in DOMAIN table
      PROVE  \/ table[k].type = plan.nodes[plan.root].output_attrs[k].type
             \/ /\ plan.nodes[plan.root].op = "scan"
                /\ Input(plan.nodes[plan.root].base_table_id,
                         plan.nodes[plan.root].output_attrs[k].col).pages = <<>>
  <2>1. Answers(plan, plan.root, root)
    BY <1>1 DEF ExecuteInv, StackInv
  <2>2. /\ table = [i \in 1 .. Len(table) |-> table[i]] /\ Len(table) \in 0 .. Len(root)
        /\ \A i \in 1 .. Len(table) : table[i].type = root[i].type
    BY <1>1 DEF ExecuteInv, TableInv
  <2>3. DOMAIN root = 1 .. Len(root) /\ Len(root) \in Nat
    BY <2>1, ResultLen
  <2>4. PICK t : t = Len(table)
    OBVIOUS
  <2>5. k \in 1 .. t
    BY <2>2, <2>4
  <2>6. k \in DOMAIN root /\ table[k].type = root[k].type
    BY <2>2, <2>3, <2>4, <2>5
  <2>7. Typed(plan, plan.nodes[plan.root], root)
    BY <2>1 DEF Answers, IsResult
  <2>8. PICK n, a : n = plan.nodes[plan.root] /\ a = plan.nodes[plan.root].output_attrs[k]
    OBVIOUS
  <2>9. OfType(plan, n, a, root[k].type)
    BY <2>6, <2>7, <2>8 DEF Typed
  <2>10. \/ root[k].type = a.type
         \/ n.op = "scan" /\ Input(n.base_table_id, a.col).pages = <<>>
    BY <2>9 DEF OfType, Input
  <2> QED
    BY <2>6, <2>8, <2>10
<1>2. ExecuteInv => ResultTypes
  BY <1>1 DEF ResultTypes
<1> QED
  BY <1>2, AlwaysExecuteInv, PTL
=============================================================================
