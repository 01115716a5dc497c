------------------------------- MODULE Lemmas -------------------------------
(***************************************************************************)
(* What the proofs about several components need: facts about slices, an   *)
(* induction over numbers, and facts about sequences, folds and pages.     *)
(***************************************************************************)
EXTENDS ColumnPages, FiniteSetTheorems, SequenceTheorems, WellFoundedInduction,
        TLAPS

-----------------------------------------------------------------------------
(* Cutting 0 .. n - 1 into N consecutive slices whose lengths differ by at *)
(* most one, as the thread pool does with tasks (inner_column.h) and the   *)
(* hash table with partitions (Uhashtable.cpp).                            *)

Lesser(a, b) == IF a < b THEN a ELSE b

(* Where slice i begins and slice i - 1 ends. *)
Bound(i, n, N) == i * (n \div N) + Lesser(i, n % N)

Slice(i, n, N) == {k \in Nat : Bound(i, n, N) <= k /\ k < Bound(i + 1, n, N)}

(* Quotient and remainder of the numbers to cut, as the bounds use them. *)
LEMMA DivMod ==
    ASSUME NEW N \in Nat \ {0}, NEW n \in Nat
    PROVE  /\ n \div N \in Nat
           /\ n % N \in 0 .. N - 1
           /\ n = N * (n \div N) + (n % N)
OBVIOUS

(* Multiplication is monotone and distributes over the successor. *)
LEMMA MulStep ==
    ASSUME NEW a \in Nat, NEW b \in Nat, NEW q \in Nat, a < b
    PROVE  /\ (a + 1) * q = a * q + q
           /\ (a + 1) * q <= b * q
           /\ a * q \in Nat /\ b * q \in Nat
<1>1. PICK d \in Nat : b = (a + 1) + d
  <2>1. b - (a + 1) \in Nat
    OBVIOUS
  <2> QED
    BY <2>1
<1>2. b * q = (a + 1) * q + d * q
  BY <1>1
<1>3. d * q \in Nat /\ a * q \in Nat /\ b * q \in Nat
  OBVIOUS
<1>4. (a + 1) * q = a * q + q
  OBVIOUS
<1> QED
  BY <1>2, <1>3, <1>4

(* A bound is a natural number and grows with the slice. *)
LEMMA BoundMonotone ==
    ASSUME NEW N \in Nat \ {0}, NEW n \in Nat, NEW i \in Nat, NEW j \in Nat, i < j
    PROVE  /\ Bound(i, n, N) \in Nat /\ Bound(j, n, N) \in Nat
           /\ Bound(i, n, N) <= Bound(i + 1, n, N)
           /\ Bound(i + 1, n, N) <= Bound(j, n, N)
<1> DEFINE q == n \div N
           r == n % N
<1>1. q \in Nat /\ r \in Nat
  BY DivMod
<1>2. /\ (i + 1) * q = i * q + q
      /\ (i + 1) * q <= j * q
      /\ i * q \in Nat /\ j * q \in Nat
  BY <1>1, MulStep
<1>3. /\ Bound(i, n, N) = i * q + Lesser(i, r)
      /\ Bound(i + 1, n, N) = (i + 1) * q + Lesser(i + 1, r)
      /\ Bound(j, n, N) = j * q + Lesser(j, r)
  BY DEF Bound
<1> HIDE DEF q, r
<1> QED
  BY <1>1, <1>2, <1>3 DEF Lesser

(* The first slice begins at 0 and the last one ends at the last number. *)
LEMMA BoundEnds ==
    ASSUME NEW N \in Nat \ {0}, NEW n \in Nat
    PROVE  Bound(0, n, N) = 0 /\ Bound(N, n, N) = n
<1> DEFINE q == n \div N
           r == n % N
<1>1. q \in Nat /\ r \in 0 .. N - 1 /\ n = N * q + r
  BY DivMod
<1>2. Bound(0, n, N) = 0 * q + Lesser(0, r)
  BY DEF Bound
<1>3. Bound(N, n, N) = N * q + Lesser(N, r)
  BY DEF Bound
<1> HIDE DEF q, r
<1>4. 0 * q = 0
  BY <1>1
<1> QED
  BY <1>1, <1>2, <1>3, <1>4 DEF Lesser

(* Both bounds of a slice lie in 0 .. n. *)
LEMMA BoundRange ==
    ASSUME NEW N \in Nat \ {0}, NEW n \in Nat, NEW i \in 0 .. N - 1
    PROVE  /\ Bound(i, n, N) \in 0 .. n
           /\ Bound(i + 1, n, N) \in 0 .. n
           /\ Bound(i, n, N) <= Bound(i + 1, n, N)
<1>1. i \in Nat /\ N \in Nat /\ i < N
  OBVIOUS
<1>2. /\ Bound(i, n, N) \in Nat
      /\ Bound(i, n, N) <= Bound(i + 1, n, N)
      /\ Bound(i + 1, n, N) <= Bound(N, n, N)
  BY <1>1, BoundMonotone
<1>3. Bound(i + 1, n, N) \in Nat
  <2>1. i + 1 \in Nat /\ i + 2 \in Nat /\ i + 1 < i + 2
    BY <1>1
  <2> QED
    BY <2>1, BoundMonotone
<1> QED
  BY <1>2, <1>3, BoundEnds

(* Two slices do not overlap. *)
LEMMA SlicesDisjoint ==
    ASSUME NEW N \in Nat \ {0}, NEW n \in Nat,
           NEW i \in 0 .. N - 1, NEW j \in 0 .. N - 1, i # j,
           NEW k \in Slice(i, n, N)
    PROVE  k \notin Slice(j, n, N)
<1>1. i \in Nat /\ j \in Nat /\ k \in Nat
  BY DEF Slice
<1>2. CASE i < j
  BY SMTT(30), <1>1, <1>2, BoundMonotone, BoundRange DEF Slice
<1>3. CASE j < i
  BY SMTT(30), <1>1, <1>3, BoundMonotone, BoundRange DEF Slice
<1> QED
  BY <1>1, <1>2, <1>3

(* Every number below n is in some slice. *)
LEMMA SlicesCover ==
    ASSUME NEW N \in Nat \ {0}, NEW n \in Nat, NEW k \in 0 .. n - 1
    PROVE  \E i \in 0 .. N - 1 : k \in Slice(i, n, N)
<1> DEFINE q == n \div N
           r == n % N
<1>1. q \in Nat /\ r \in Nat /\ r < N /\ n = N * q + r
  BY DivMod
<1>2. \A i \in Nat : /\ Bound(i, n, N) = i * q + Lesser(i, r)
                     /\ Bound(i + 1, n, N) = (i + 1) * q + Lesser(i + 1, r)
  BY DEF Bound
<1> HIDE DEF q, r
<1>3. CASE k < r * (q + 1)
  <2> DEFINE i == k \div (q + 1)
  <2>1. i \in Nat /\ i * (q + 1) <= k /\ k < (i + 1) * (q + 1)
    <3>1. k = (q + 1) * i + (k % (q + 1)) /\ k % (q + 1) \in 0 .. q /\ i \in Nat
      <4>1. q + 1 \in Nat \ {0} /\ k \in Nat
        BY <1>1
      <4>2. /\ k \div (q + 1) \in Nat
            /\ k % (q + 1) \in 0 .. (q + 1) - 1
            /\ k = (q + 1) * (k \div (q + 1)) + (k % (q + 1))
        BY ONLY <4>1, DivMod
      <4> QED
        BY <1>1, <4>2
    <3>2. (q + 1) * i = i * (q + 1) /\ (i + 1) * (q + 1) = i * (q + 1) + (q + 1)
      BY <1>1, <3>1
    <3> QED
      BY <1>1, <3>1, <3>2
  <2> HIDE DEF i
  <2>2. i < r
    <3>1. SUFFICES ASSUME r <= i PROVE FALSE
      BY <1>1, <2>1
    <3>2. r * (q + 1) <= i * (q + 1)
      <4>1. CASE r = i
        BY <4>1, <2>1, <1>1
      <4>2. CASE r < i
        <5>1. q + 1 \in Nat
          BY <1>1
        <5>2. (r + 1) * (q + 1) = r * (q + 1) + (q + 1) /\ (r + 1) * (q + 1) <= i * (q + 1)
              /\ r * (q + 1) \in Nat /\ i * (q + 1) \in Nat
          BY <4>2, <2>1, <1>1, <5>1, MulStep
        <5> QED
          BY <5>1, <5>2
      <4> QED
        BY <4>1, <4>2, <3>1, <2>1, <1>1
    <3> QED
      BY <3>2, <2>1, <1>3, <1>1
  <2>3. i * (q + 1) = i * q + i /\ (i + 1) * (q + 1) = (i + 1) * q + (i + 1)
    BY <1>1, <2>1
  <2>4. k \in Slice(i, n, N)
    BY <1>1, <1>2, <2>1, <2>2, <2>3 DEF Slice, Lesser
  <2>5. i \in 0 .. N - 1
    BY <1>1, <2>1, <2>2
  <2> QED
    BY <2>4, <2>5
<1>4. CASE ~(k < r * (q + 1))
  <2>1. r * (q + 1) = r * q + r /\ r * q \in Nat /\ N * q \in Nat
    BY <1>1
  <2>2. k - r \in Nat /\ k - r < N * q
    BY <1>1, <1>4, <2>1
  <2>3. q # 0
    BY <2>2, <1>1
  <2> DEFINE i == (k - r) \div q
  <2>4. i \in Nat /\ i * q <= k - r /\ k - r < (i + 1) * q
    <3>1. k - r = q * i + ((k - r) % q) /\ (k - r) % q \in 0 .. q - 1 /\ i \in Nat
      BY <1>1, <2>2, <2>3
    <3>2. q * i = i * q /\ (i + 1) * q = i * q + q
      BY <1>1, <3>1
    <3> QED
      BY <1>1, <2>2, <3>1, <3>2
  <2> HIDE DEF i
  <2>5. r <= i
    <3>1. SUFFICES ASSUME i < r PROVE FALSE
      BY <1>1, <2>4
    <3>2. (i + 1) * q <= r * q
      BY <3>1, <1>1, <2>4, MulStep
    <3>3. r * q <= k - r
      BY <2>1, <2>2, <1>1, <1>4
    <3>4. \A a, b, c \in Int : a <= b /\ b <= c => ~(c < a)
      OBVIOUS
    <3>5. (i + 1) * q \in Int /\ r * q \in Int /\ k - r \in Int
      BY <2>1, <2>2, <2>4, <1>1
    <3> QED
      BY ONLY <3>2, <3>3, <3>4, <3>5, <2>4
  <2>6. i < N
    <3>1. SUFFICES ASSUME N <= i PROVE FALSE
      BY <2>4
    <3>2. CASE N = i
      BY ONLY <3>2, <2>4, <2>2, <2>1
    <3>3. CASE N < i
      <4>1. (N + 1) * q <= i * q /\ (N + 1) * q = N * q + q
        BY <3>3, <1>1, <2>4, MulStep
      <4> QED
        BY <4>1, <2>1, <2>2, <2>4, <1>1
    <3> QED
      BY <3>1, <3>2, <3>3, <2>4
  <2>7. k \in Slice(i, n, N)
    BY <1>1, <1>2, <2>4, <2>5 DEF Slice, Lesser
  <2>8. i \in 0 .. N - 1
    BY <2>4, <2>6
  <2> QED
    BY <2>7, <2>8
<1> QED
  BY <1>3, <1>4

-----------------------------------------------------------------------------
(* Induction.  The library's induction theorems take an operator, which    *)
(* the provers cannot instantiate; these take a set, and rest on the fact  *)
(* that a set of natural numbers has a least element.                      *)

(* A set with 0 and with the successor of each of its numbers. *)
LEMMA NatSet ==
    ASSUME NEW S, 0 \in S, \A n \in Nat : n \in S => n + 1 \in S
    PROVE  Nat \subseteq S
<1> DEFINE T == {n \in Nat : n \notin S}
           R == {ss \in Nat \X Nat : ss[1] < ss[2]}
<1>1. IsWellFoundedOn(R, Nat)
  BY NatLessThanWellFounded DEF OpToRel
<1>2. ASSUME T # {} PROVE FALSE
  <2>1. T \subseteq Nat
    OBVIOUS
  <2>2. PICK x \in T : \A y \in T : ~ (<<y, x>> \in R)
    <3> HIDE DEF T, R
    <3> QED
    BY <1>1, <1>2, <2>1, WFMin
  <2>3. x # 0 /\ x - 1 \in Nat
    OBVIOUS
  <2>4. x - 1 \in T
    BY <2>3
  <2>5. <<x - 1, x>> \in R
    BY <2>3
  <2> QED
    BY <2>2, <2>4, <2>5
<1> QED
  BY <1>2

(* The same for the numbers up to n. *)
LEMMA UpTo ==
    ASSUME NEW n \in Nat, NEW S, 0 \in S, \A m \in 0 .. n - 1 : m \in S => m + 1 \in S
    PROVE  \A m \in 0 .. n : m \in S
<1> DEFINE T == {m \in Nat : m <= n => m \in S}
<1>1. 0 \in T
  OBVIOUS
<1>2. \A m \in Nat : m \in T => m + 1 \in T
  OBVIOUS
<1>3. Nat \subseteq T
  <2> HIDE DEF T
  <2> QED
    BY <1>1, <1>2, NatSet
<1> QED
  BY <1>3

(* The largest number of a set that ends with it. *)
LEMMA MaxOfSet ==
    ASSUME NEW n \in Nat, NEW s \in SUBSET (1 .. n), n \in s
    PROVE  Max(s) = n
<1>1. \A x \in s : n >= x
  OBVIOUS
<1>2. \A y \in s : (\A x \in s : y >= x) => y = n
  OBVIOUS
<1> QED
  BY <1>1, <1>2 DEF Max

(* The pages after each of the values that append_all appends. *)
LEMMA FoldSteps ==
    ASSUME NEW S, NEW values \in Seq(S), NEW pages, NEW slots
    PROVE  \E h : /\ h[0] = pages
                  /\ \A m \in 1 .. Len(values) : h[m] = append(h[m - 1], values[m], slots)
                  /\ append_all(pages, values, slots) = h[Len(values)]
<1> DEFINE n == Len(values)
           Def(g, s) == IF s = {} THEN pages
                        ELSE append(g[s \ {Max(s)}], values[Max(s)], slots)
           IsFold(g, k) == g = [s \in SUBSET (1 .. k) |-> Def(g, s)]
<1>1. n \in Nat /\ DOMAIN values = 1 .. n
  OBVIOUS
<1>2. \E g : IsFold(g, n)
  <2> DEFINE K == {k \in Nat : \E g : IsFold(g, k)}
  <2>1. 0 \in K
    <3>1. SUBSET (1 .. 0) = {{}}
      OBVIOUS
    <3>2. IsFold([s \in {{}} |-> pages], 0)
      BY <3>1
    <3> QED
      BY <3>2
  <2>2. ASSUME NEW k \in Nat, k \in K PROVE k + 1 \in K
    <3>1. PICK g : IsFold(g, k)
      BY <2>2
    <3> DEFINE G == [s \in SUBSET (1 .. k + 1) |->
                       IF k + 1 \in s THEN append(g[s \ {k + 1}], values[k + 1], slots) ELSE g[s]]
    <3>2. ASSUME NEW s \in SUBSET (1 .. k + 1) PROVE G[s] = Def(G, s)
      <4>1. CASE k + 1 \in s
        <5>1. Max(s) = k + 1
          BY <4>1, MaxOfSet
        <5>2. s \ {k + 1} \in SUBSET (1 .. k + 1) /\ k + 1 \notin s \ {k + 1} /\ s # {}
          BY <4>1
        <5>3. G[s \ {k + 1}] = g[s \ {k + 1}]
          BY <5>2
        <5> QED
          BY <4>1, <5>1, <5>2, <5>3
      <4>2. CASE k + 1 \notin s
        <5>1. /\ s \in SUBSET (1 .. k)
              /\ s \ {Max(s)} \in SUBSET (1 .. k + 1)
              /\ k + 1 \notin s \ {Max(s)}
          <6>1. \A x \in s : x \in 1 .. k
            BY <4>2
          <6>2. \A x \in s \ {Max(s)} : x \in s
            OBVIOUS
          <6> HIDE DEF Def, IsFold
          <6> QED
            BY <6>1, <6>2, <4>2
        <5>2. G[s] = g[s] /\ g[s] = Def(g, s)
          BY <4>2, <5>1, <3>1
        <5>3. G[s \ {Max(s)}] = g[s \ {Max(s)}]
          BY <5>1
        <5> QED
          BY <5>2, <5>3
      <4> QED
        BY <4>1, <4>2
    <3>3. IsFold(G, k + 1)
      <4> HIDE DEF Def
      <4>1. G = [s \in SUBSET (1 .. k + 1) |-> G[s]]
        OBVIOUS
      <4> QED
        BY <3>2, <4>1
    <3>4. k + 1 \in Nat
      OBVIOUS
    <3> HIDE DEF IsFold
    <3> QED
      BY <3>3, <3>4
  <2>3. Nat \subseteq K
    <3> HIDE DEF K
    <3> QED
      BY <2>1, <2>2, NatSet
  <2> QED
    BY <1>1, <2>3
<1> DEFINE f == CHOOSE g : IsFold(g, n)
<1>3. append_all(pages, values, slots) = f[1 .. n]
  BY <1>1 DEF append_all, FoldLeft, MapThenFoldSet
<1>4. IsFold(f, n)
  BY <1>2
<1> HIDE DEF f
<1> DEFINE h == [m \in 0 .. n |-> f[1 .. m]]
<1>5. h[0] = pages
  <2>1. 1 .. 0 = {}
    OBVIOUS
  <2> QED
    BY <1>1, <1>4, <2>1
<1>6. ASSUME NEW m \in 1 .. n PROVE h[m] = append(h[m - 1], values[m], slots)
  <2>1. m \in 0 .. n /\ m - 1 \in 0 .. n /\ m \in 1 .. m
    BY <1>1
  <2>2. 1 .. m \in SUBSET (1 .. n) /\ 1 .. m # {}
    <3>1. \A x \in 1 .. m : x \in 1 .. n
      BY <1>1
    <3> QED
      BY <2>1, <3>1
  <2>3. Max(1 .. m) = m
    BY <2>1, MaxOfSet
  <2>4. (1 .. m) \ {m} = 1 .. m - 1
    OBVIOUS
  <2>5. f[1 .. m] = append(f[(1 .. m) \ {m}], values[m], slots)
    BY <1>4, <2>3, <2>2
  <2> HIDE DEF n
  <2> QED
    BY <2>1, <2>4, <2>5
<1>7. h[n] = f[1 .. n]
  BY <1>1
<1> QED
  BY <1>3, <1>5, <1>6, <1>7

-----------------------------------------------------------------------------
(* Pages and sequences of values.                                          *)

(* The box that the next value goes to, and the shape that it leaves. *)
NextBox(shape, slots) ==
    IF shape = <<>> \/ shape[Len(shape)] = slots
    THEN <<Len(shape) + 1, 1>>
    ELSE <<Len(shape), shape[Len(shape)] + 1>>

NextShape(shape, slots) ==
    IF shape = <<>> \/ shape[Len(shape)] = slots
    THEN Append(shape, 1)
    ELSE [shape EXCEPT ![Len(shape)] = @ + 1]

(* The shape of a column has the counts of its pages. *)
LEMMA ShapeIsSeq ==
    ASSUME NEW V, NEW pages \in Seq(Seq(V))
    PROVE  /\ Shape(pages) \in Seq(Nat)
           /\ Len(Shape(pages)) = Len(pages)
           /\ DOMAIN pages = 1 .. Len(pages)
           /\ Shape(pages) = <<>> <=> pages = <<>>
           /\ \A p \in 1 .. Len(pages) : Shape(pages)[p] = Len(pages[p])
BY DEF Shape

(* A box is a page and a slot of that page. *)
LEMMA InBoxes ==
    ASSUME NEW pages, NEW b
    PROVE  b \in Boxes(pages) <=> \E p, s : p \in DOMAIN pages /\ s \in 1 .. Len(pages[p]) /\ b = <<p, s>>
BY DEF Boxes

(* Appending puts the value into the next box and leaves the others alone. *)
LEMMA AppendPages ==
    ASSUME NEW V, NEW slots \in Nat \ {0}, NEW pages \in Seq(Seq(V)), NEW v \in V,
           PagesWithin(pages, slots)
    PROVE  LET new == append(pages, v, slots)
               box == NextBox(Shape(pages), slots)
           IN  /\ new \in Seq(Seq(V)) /\ PagesWithin(new, slots)
               /\ Shape(new) = NextShape(Shape(pages), slots)
               /\ box \notin Boxes(pages)
               /\ Boxes(new) = Boxes(pages) \cup {box}
               /\ new[box[1]][box[2]] = v
               /\ \A b \in Boxes(pages) : new[b[1]][b[2]] = pages[b[1]][b[2]]
<1> DEFINE new == append(pages, v, slots)
           n == Len(pages)
           box == NextBox(Shape(pages), slots)
<1>1. /\ Shape(pages) \in Seq(Nat) /\ Len(Shape(pages)) = n
      /\ n \in Nat /\ DOMAIN pages = 1 .. n
      /\ Shape(pages) = <<>> <=> pages = <<>>
      /\ \A p \in 1 .. n : Shape(pages)[p] = Len(pages[p])
      /\ \A p \in 1 .. n : pages[p] \in Seq(V) /\ Len(pages[p]) \in Nat
      /\ pages = <<>> <=> n = 0
  BY ShapeIsSeq
<1>2. \A p \in 1 .. n : Len(pages[p]) \in 1 .. slots
  BY <1>1 DEF PagesWithin
<1>3. CASE pages = <<>> \/ Len(pages[n]) = slots
  <2>1. new = Append(pages, <<v>>)
    BY <1>3 DEF append, Last
  <2>2. <<v>> \in Seq(V) /\ Len(<<v>>) = 1 /\ <<v>>[1] = v
    OBVIOUS
  <2>3. /\ new \in Seq(Seq(V)) /\ Len(new) = n + 1 /\ DOMAIN new = 1 .. n + 1
        /\ new[n + 1] = <<v>>
        /\ \A p \in 1 .. n : new[p] = pages[p]
    BY <2>1, <2>2, <1>1
  <2>4. box = <<n + 1, 1>> /\ NextShape(Shape(pages), slots) = Append(Shape(pages), 1)
    BY <1>1, <1>3 DEF NextBox, NextShape
  <2> HIDE DEF new, box, n
  <2>5. PagesWithin(new, slots)
    <3>1. ASSUME NEW p \in 1 .. n + 1 PROVE Len(new[p]) \in 1 .. slots
      <4>1. CASE p = n + 1
        BY <4>1, <2>2, <2>3
      <4>2. CASE p # n + 1
        <5>1. p \in 1 .. n
          BY <4>2, <1>1
        <5> QED
          BY <5>1, <2>3, <1>2
      <4> QED
        BY <4>1, <4>2
    <3> QED
      BY <3>1, <2>3 DEF PagesWithin
  <2>6. Shape(new) = Append(Shape(pages), 1)
    <3>1. Shape(new) \in Seq(Nat) /\ Len(Shape(new)) = n + 1
          /\ \A p \in 1 .. n + 1 : Shape(new)[p] = Len(new[p])
      BY <2>3, ShapeIsSeq
    <3> DEFINE shape == Shape(pages)
               longer == Append(shape, 1)
    <3>2. /\ longer \in Seq(Nat) /\ Len(longer) = n + 1 /\ longer[n + 1] = 1
          /\ \A p \in 1 .. n : longer[p] = shape[p]
      <4>1. shape \in Seq(Nat) /\ Len(shape) = n
        BY <1>1
      <4> HIDE DEF shape
      <4> QED
        BY <4>1
    <3>3. ASSUME NEW p \in 1 .. n + 1 PROVE Shape(new)[p] = longer[p]
      <4> HIDE DEF longer
      <4>1. CASE p = n + 1
        BY <4>1, <3>1, <3>2, <2>2, <2>3
      <4>2. CASE p # n + 1
        <5>1. p \in 1 .. n
          BY <4>2, <1>1
        <5> QED
          BY SMTT(30), <5>1, <3>1, <3>2, <2>3, <1>1
      <4> QED
        BY <4>1, <4>2
    <3> HIDE DEF longer
    <3>4. Shape(new) = longer
      BY <3>1, <3>2, <3>3
    <3> QED
      BY <3>4 DEF longer
  <2>7. box \notin Boxes(pages)
    BY <2>4, <1>1, InBoxes
  <2>8. Boxes(new) = Boxes(pages) \cup {box}
    <3>1. ASSUME NEW b \in Boxes(new) PROVE b \in Boxes(pages) \cup {box}
      <4>1. PICK p, s : p \in 1 .. n + 1 /\ s \in 1 .. Len(new[p]) /\ b = <<p, s>>
        BY <2>3, InBoxes
      <4>2. CASE p = n + 1
        BY <4>1, <4>2, <2>2, <2>3, <2>4
      <4>3. CASE p # n + 1
        <5>1. p \in 1 .. n /\ new[p] = pages[p]
          BY <4>1, <4>3, <2>3, <1>1
        <5> QED
          BY <4>1, <5>1, <1>1, InBoxes
      <4> QED
        BY <4>2, <4>3
    <3>2. ASSUME NEW b \in Boxes(pages) PROVE b \in Boxes(new)
      <4>1. PICK p, s : p \in 1 .. n /\ s \in 1 .. Len(pages[p]) /\ b = <<p, s>>
        BY <1>1, InBoxes
      <4>2. p \in 1 .. n + 1 /\ new[p] = pages[p]
        BY <4>1, <2>3, <1>1
      <4> QED
        BY <4>1, <4>2, <2>3, InBoxes
    <3>3. box \in Boxes(new)
      <4>1. n + 1 \in DOMAIN new /\ 1 \in 1 .. Len(new[n + 1])
        BY <2>2, <2>3, <1>1
      <4> QED
        BY <4>1, <2>4, InBoxes
    <3> QED
      BY <3>1, <3>2, <3>3
  <2>9. new[box[1]][box[2]] = v
    BY <2>2, <2>3, <2>4
  <2>10. \A b \in Boxes(pages) : new[b[1]][b[2]] = pages[b[1]][b[2]]
    BY SMTT(30), <1>1, <2>3, InBoxes
  <2> QED
    BY <2>3, <2>4, <2>5, <2>6, <2>7, <2>8, <2>9, <2>10 DEF new, box
<1>4. CASE ~(pages = <<>> \/ Len(pages[n]) = slots)
  <2> DEFINE k == Len(pages[n])
  <2>1. n \in 1 .. n /\ k \in 1 .. slots - 1 /\ pages[n] \in Seq(V)
    BY <1>1, <1>4, <1>2
  <2>2. new = Append(Front(pages), Append(pages[n], v))
    BY <1>4 DEF append, Last
  <2>3. /\ Append(pages[n], v) \in Seq(V) /\ Len(Append(pages[n], v)) = k + 1
        /\ Append(pages[n], v)[k + 1] = v
        /\ \A s \in 1 .. k : Append(pages[n], v)[s] = pages[n][s]
    BY <2>1
  <2>4. /\ Front(pages) \in Seq(Seq(V)) /\ Len(Front(pages)) = n - 1
        /\ \A p \in 1 .. n - 1 : Front(pages)[p] = pages[p]
    BY <1>1, <2>1 DEF Front
  <2> HIDE DEF k
  <2>5. /\ new \in Seq(Seq(V)) /\ Len(new) = n /\ DOMAIN new = 1 .. n
        /\ new[n] = Append(pages[n], v)
        /\ \A p \in 1 .. n - 1 : new[p] = pages[p]
    <3> DEFINE f == Front(pages)
               a == Append(pages[n], v)
    <3>1. new = Append(f, a)
      BY <2>2
    <3> HIDE DEF new, f, a, n
    <3> QED
      BY <3>1, <2>3, <2>4, <1>1, <2>1 DEF f, a
  <2>6. box = <<n, k + 1>> /\ NextShape(Shape(pages), slots) = [Shape(pages) EXCEPT ![n] = @ + 1]
        /\ Shape(pages)[n] = k
    BY <1>1, <1>4, <2>1 DEF NextBox, NextShape, k
  <2>7. new[n] \in Seq(V) /\ Len(new[n]) = k + 1 /\ new[n][k + 1] = v
        /\ \A s \in 1 .. k : new[n][s] = pages[n][s]
    BY <2>3, <2>5
  <2>8. k = Len(pages[n])
    BY DEF k
  <2> HIDE DEF new, box, n
  <2>9. PagesWithin(new, slots)
    <3>1. ASSUME NEW p \in 1 .. n PROVE Len(new[p]) \in 1 .. slots
      <4>1. CASE p = n
        BY <4>1, <2>1, <2>7
      <4>2. CASE p # n
        BY <4>2, <2>5, <1>1, <1>2
      <4> QED
        BY <4>1, <4>2
    <3> QED
      BY <3>1, <2>5 DEF PagesWithin
  <2>10. Shape(new) = [Shape(pages) EXCEPT ![n] = @ + 1]
    <3>1. Shape(new) \in Seq(Nat) /\ Len(Shape(new)) = n
          /\ \A p \in 1 .. n : Shape(new)[p] = Len(new[p])
      BY <2>5, ShapeIsSeq
    <3> DEFINE shape == Shape(pages)
               fuller == [shape EXCEPT ![n] = @ + 1]
    <3>2. /\ fuller \in Seq(Nat) /\ Len(fuller) = n /\ fuller[n] = shape[n] + 1
          /\ \A p \in 1 .. n - 1 : fuller[p] = shape[p]
      <4>1. shape \in Seq(Nat) /\ Len(shape) = n
        BY <1>1
      <4> HIDE DEF shape
      <4> QED
        BY <4>1, <2>1
    <3>3. ASSUME NEW p \in 1 .. n PROVE Shape(new)[p] = fuller[p]
      <4> HIDE DEF fuller
      <4>1. CASE p = n
        BY <4>1, <3>1, <3>2, <2>6, <2>7
      <4>2. CASE p # n
        <5>1. p \in 1 .. n - 1
          BY <4>2, <1>1
        <5> QED
          BY <5>1, <3>1, <3>2, <2>5, <1>1
      <4> QED
        BY <4>1, <4>2
    <3> HIDE DEF fuller
    <3>4. Shape(new) = fuller
      BY <3>1, <3>2, <3>3
    <3> QED
      BY <3>4 DEF fuller
  <2>11. box \notin Boxes(pages)
    BY <2>1, <2>6, <2>8, <1>1, InBoxes
  <2>12. Boxes(new) = Boxes(pages) \cup {box}
    <3>1. ASSUME NEW b \in Boxes(new) PROVE b \in Boxes(pages) \cup {box}
      <4>1. PICK p, s : p \in 1 .. n /\ s \in 1 .. Len(new[p]) /\ b = <<p, s>>
        BY <2>5, InBoxes
      <4>2. CASE p = n /\ s = k + 1
        BY <4>1, <4>2, <2>6
      <4>3. CASE p = n /\ s # k + 1
        <5>1. s \in 1 .. Len(pages[n])
          BY <4>1, <4>3, <2>1, <2>7, <2>8
        <5> QED
          BY <4>1, <4>3, <5>1, <1>1, InBoxes
      <4>4. CASE p # n
        <5>1. p \in 1 .. n - 1 /\ new[p] = pages[p]
          BY <4>1, <4>4, <2>5, <1>1
        <5> QED
          BY <4>1, <5>1, <1>1, InBoxes
      <4> QED
        BY <4>2, <4>3, <4>4
    <3>2. ASSUME NEW b \in Boxes(pages) PROVE b \in Boxes(new)
      <4>1. PICK p, s : p \in 1 .. n /\ s \in 1 .. Len(pages[p]) /\ b = <<p, s>>
        BY <1>1, InBoxes
      <4>2. CASE p = n
        <5>1. s \in 1 .. Len(new[n])
          BY <4>1, <4>2, <2>1, <2>7, <2>8
        <5> QED
          BY <4>1, <4>2, <5>1, <2>5, InBoxes
      <4>3. CASE p # n
        <5>1. p \in 1 .. n - 1 /\ new[p] = pages[p]
          BY <4>1, <4>3, <2>5, <1>1
        <5> QED
          BY <4>1, <5>1, <2>5, InBoxes
      <4> QED
        BY <4>2, <4>3
    <3>3. box \in Boxes(new)
      <4>1. n \in DOMAIN new /\ k + 1 \in 1 .. Len(new[n])
        BY <2>1, <2>7, <2>5
      <4> QED
        BY <4>1, <2>6, InBoxes
    <3> QED
      BY <3>1, <3>2, <3>3
  <2>13. new[box[1]][box[2]] = v
    BY <2>7, <2>6
  <2>14. ASSUME NEW b \in Boxes(pages) PROVE new[b[1]][b[2]] = pages[b[1]][b[2]]
    <3>1. PICK p, s : p \in 1 .. n /\ s \in 1 .. Len(pages[p]) /\ b = <<p, s>>
      BY <1>1, InBoxes
    <3>2. CASE p = n
      BY <3>1, <3>2, <2>7, <2>8
    <3>3. CASE p # n
      BY SMTT(30), <3>1, <3>3, <2>5, <1>1
    <3> QED
      BY <3>2, <3>3
  <2> QED
    BY <2>5, <2>6, <2>9, <2>10, <2>11, <2>12, <2>13, <2>14 DEF new, box
<1> QED
  BY <1>3, <1>4

(* A function on 1 .. n is a sequence. *)
LEMMA IsSeq ==
    ASSUME NEW S, NEW n \in Nat, NEW f, f = [i \in 1 .. n |-> f[i]],
           \A i \in 1 .. n : f[i] \in S
    PROVE  f \in Seq(S) /\ Len(f) = n /\ DOMAIN f = 1 .. n
OBVIOUS

(* Where the elements of two sequences put together lie. *)
LEMMA Concatenation ==
    ASSUME NEW V, NEW a \in Seq(V), NEW b \in Seq(V)
    PROVE  /\ a \o b \in Seq(V) /\ Len(a \o b) = Len(a) + Len(b)
           /\ DOMAIN (a \o b) = 1 .. Len(a) + Len(b)
           /\ \A p \in 1 .. Len(a) : (a \o b)[p] = a[p]
           /\ \A p \in 1 .. Len(b) : (a \o b)[Len(a) + p] = b[p]
OBVIOUS

(* The same for sequences of given lengths. *)
LEMMA ConcatenationAt ==
    ASSUME NEW V, NEW a \in Seq(V), NEW b \in Seq(V),
           NEW m, m = Len(a), NEW k, k = Len(b)
    PROVE  /\ a \o b \in Seq(V) /\ Len(a \o b) = m + k
           /\ \A p \in 1 .. m : (a \o b)[p] = a[p]
           /\ \A p \in 1 .. k : (a \o b)[m + p] = b[p]
BY Concatenation

(* The boxes of new are those of pages and, behind them, those of more. *)
Behind(new, pages, more) ==
    /\ \A b : b \in Boxes(new) <=>
         \/ b \in Boxes(pages)
         \/ \E c \in Boxes(more) : b = <<Len(pages) + c[1], c[2]>>
    /\ \A b \in Boxes(pages) : new[b[1]][b[2]] = pages[b[1]][b[2]]
    /\ \A c \in Boxes(more) : new[Len(pages) + c[1]][c[2]] = more[c[1]][c[2]]

LEMMA ConcatPages ==
    ASSUME NEW V, NEW slots \in Nat, NEW pages \in Seq(Seq(V)), NEW more \in Seq(Seq(V)),
           PagesWithin(pages, slots), PagesWithin(more, slots)
    PROVE  /\ pages \o more \in Seq(Seq(V)) /\ PagesWithin(pages \o more, slots)
           /\ Shape(pages \o more) = Shape(pages) \o Shape(more)
           /\ Behind(pages \o more, pages, more)
<1> DEFINE new == pages \o more
           n == Len(pages)
           m == Len(more)
<1>1. /\ n \in Nat /\ m \in Nat /\ DOMAIN pages = 1 .. n /\ DOMAIN more = 1 .. m
      /\ new \in Seq(Seq(V)) /\ Len(new) = n + m /\ DOMAIN new = 1 .. n + m
      /\ \A p \in 1 .. n : new[p] = pages[p]
      /\ \A p \in 1 .. m : new[n + p] = more[p]
  OBVIOUS
<1> HIDE DEF new, n, m
<1>2. \A p \in 1 .. n + m : p \in 1 .. n \/ \E q \in 1 .. m : p = n + q
  <2>1. \A p \in 1 .. n + m : p \in 1 .. n \/ (p - n \in 1 .. m /\ p = n + (p - n))
    BY <1>1
  <2> QED
    BY <2>1
<1>3. ASSUME NEW p \in 1 .. n + m PROVE Len(new[p]) \in 1 .. slots
  <2>1. CASE p \in 1 .. n
    BY <2>1, <1>1 DEF PagesWithin
  <2>2. CASE p \notin 1 .. n
    <3>1. PICK q \in 1 .. m : p = n + q
      BY <2>2, <1>2
    <3> QED
      BY <3>1, <1>1 DEF PagesWithin
  <2> QED
    BY <2>1, <2>2
<1>4. Shape(new) = Shape(pages) \o Shape(more)
  <2> DEFINE a == Shape(pages)
             b == Shape(more)
             both == a \o b
  <2>1. /\ a \in Seq(Nat) /\ Len(a) = n
        /\ b \in Seq(Nat) /\ Len(b) = m
        /\ Shape(new) \in Seq(Nat) /\ Len(Shape(new)) = n + m
        /\ \A p \in 1 .. n : a[p] = Len(pages[p])
        /\ \A p \in 1 .. m : b[p] = Len(more[p])
        /\ \A p \in 1 .. n + m : Shape(new)[p] = Len(new[p])
    BY ZenonT(60), <1>1, ShapeIsSeq DEF n, m
  <2>2. /\ both \in Seq(Nat) /\ Len(both) = n + m
        /\ \A p \in 1 .. n : both[p] = a[p]
        /\ \A p \in 1 .. m : both[n + p] = b[p]
    <3>1. a \in Seq(Nat) /\ b \in Seq(Nat) /\ Len(a) = n /\ Len(b) = m
      BY <2>1
    <3>2. \A x, y \in Seq(Nat) :
            /\ x \o y \in Seq(Nat) /\ Len(x \o y) = Len(x) + Len(y)
            /\ \A p \in 1 .. Len(x) : (x \o y)[p] = x[p]
            /\ \A p \in 1 .. Len(y) : (x \o y)[Len(x) + p] = y[p]
      BY Concatenation
    <3> HIDE DEF a, b
    <3> QED
      BY <3>1, <3>2
  <2> HIDE DEF a, b, both
  <2>3. ASSUME NEW p \in 1 .. n + m PROVE Shape(new)[p] = both[p]
    <3>1. CASE p \in 1 .. n
      BY <3>1, <1>1, <2>1, <2>2
    <3>2. CASE p \notin 1 .. n
      <4>1. PICK q \in 1 .. m : p = n + q
        BY <3>2, <1>2
      <4>2. Shape(new)[n + q] = Len(new[n + q])
        BY <4>1, <2>1
      <4>3. new[n + q] = more[q] /\ b[q] = Len(more[q]) /\ both[n + q] = b[q]
        BY <1>1, <2>1, <2>2
      <4> QED
        BY <4>1, <4>2, <4>3
    <3> QED
      BY <3>1, <3>2
  <2>4. Shape(new) = both
    BY <2>1, <2>2, <2>3
  <2> QED
    BY <2>4 DEF a, b, both
<1>5. ASSUME NEW b
      PROVE  b \in Boxes(new) <=>
                \/ b \in Boxes(pages)
                \/ \E c \in Boxes(more) : b = <<n + c[1], c[2]>>
  <2>1. ASSUME b \in Boxes(new)
        PROVE  b \in Boxes(pages) \/ \E c \in Boxes(more) : b = <<n + c[1], c[2]>>
    <3>1. PICK p, s : p \in 1 .. n + m /\ s \in 1 .. Len(new[p]) /\ b = <<p, s>>
      BY <2>1, <1>1, InBoxes
    <3>2. CASE p \in 1 .. n
      BY <3>1, <3>2, <1>1, InBoxes
    <3>3. CASE p \notin 1 .. n
      <4>1. PICK q \in 1 .. m : p = n + q
        BY <3>1, <3>3, <1>2
      <4>2. <<q, s>> \in Boxes(more)
        BY <4>1, <3>1, <1>1, InBoxes
      <4> QED
        BY <4>1, <4>2, <3>1
    <3> QED
      BY <3>2, <3>3
  <2>2. ASSUME b \in Boxes(pages) PROVE b \in Boxes(new)
    <3>1. PICK p, s : p \in 1 .. n /\ s \in 1 .. Len(pages[p]) /\ b = <<p, s>>
      BY SMTT(30), <2>2, <1>1, InBoxes
    <3>2. p \in 1 .. n + m
      BY <3>1, <1>1
    <3> QED
      BY <3>1, <3>2, <1>1, InBoxes
  <2>3. ASSUME NEW c \in Boxes(more), b = <<n + c[1], c[2]>> PROVE b \in Boxes(new)
    <3>1. PICK p, s : p \in 1 .. m /\ s \in 1 .. Len(more[p]) /\ c = <<p, s>>
      BY SMTT(30), <1>1, InBoxes
    <3>2. n + p \in 1 .. n + m /\ new[n + p] = more[p] /\ b = <<n + p, s>>
      BY <1>1, <2>3, <3>1
    <3> QED
      BY <3>1, <3>2, <1>1, InBoxes
  <2> QED
    BY <2>1, <2>2, <2>3
<1>6. ASSUME NEW b \in Boxes(pages) PROVE new[b[1]][b[2]] = pages[b[1]][b[2]]
  <2>1. PICK p, s : p \in 1 .. n /\ s \in 1 .. Len(pages[p]) /\ b = <<p, s>>
    BY <1>1, InBoxes
  <2> QED
    BY <2>1, <1>1
<1>7. ASSUME NEW c \in Boxes(more) PROVE new[n + c[1]][c[2]] = more[c[1]][c[2]]
  <2>1. PICK p, s : p \in 1 .. m /\ s \in 1 .. Len(more[p]) /\ c = <<p, s>>
    BY <1>1, InBoxes
  <2> QED
    BY <2>1, <1>1
<1>8. Behind(new, pages, more)
  BY <1>5, <1>6, <1>7 DEF Behind, n
<1> QED
  BY <1>1, <1>3, <1>4, <1>8 DEF new, PagesWithin

(* The columns of C have the shape after when vals are appended to cols,   *)
(* and in all of them value m lies in the same new box m.                  *)
Filled(C, V, slots, cols, vals, n, after, box) ==
    /\ \A c \in C :
         LET new == append_all(cols[c], vals[c], slots)
         IN  /\ new \in Seq(Seq(V)) /\ PagesWithin(new, slots)
             /\ Shape(new) = after
             /\ Boxes(new) = Boxes(cols[c]) \cup {box[m] : m \in 1 .. n}
             /\ \A m \in 1 .. n : /\ box[m] \notin Boxes(cols[c])
                                  /\ new[box[m][1]][box[m][2]] = vals[c][m]
             /\ \A b \in Boxes(cols[c]) : new[b[1]][b[2]] = cols[c][b[1]][b[2]]
    /\ \A m, k \in 1 .. n : m # k => box[m] # box[k]

(* Values appended to columns of one shape leave columns of one shape. *)
LEMMA AppendColumns ==
    ASSUME NEW V, NEW slots \in Nat \ {0}, NEW C, C # {},
           NEW cols \in [C -> Seq(Seq(V))], NEW n \in Nat,
           NEW vals, \A c \in C : vals[c] \in Seq(V) /\ Len(vals[c]) = n,
           NEW shape,
           \A c \in C : PagesWithin(cols[c], slots) /\ Shape(cols[c]) = shape
    PROVE  \E after, box : Filled(C, V, slots, cols, vals, n, after, box)
<1> DEFINE IsRun(c, h) == /\ h[0] = cols[c]
                          /\ \A m \in 1 .. n : h[m] = append(h[m - 1], vals[c][m], slots)
                          /\ append_all(cols[c], vals[c], slots) = h[n]
           H == [c \in C |-> CHOOSE h : IsRun(c, h)]
<1>1. ASSUME NEW c \in C PROVE IsRun(c, H[c])
  <2>1. vals[c] \in Seq(V) /\ Len(vals[c]) = n
    OBVIOUS
  <2>2. PICK h : /\ h[0] = cols[c]
                 /\ \A m \in 1 .. Len(vals[c]) :
                      h[m] = append(h[m - 1], vals[c][m], slots)
                 /\ append_all(cols[c], vals[c], slots) = h[Len(vals[c])]
    <3> DEFINE v == vals[c]
               p == cols[c]
    <3>1. v \in Seq(V)
      BY <2>1
    <3> HIDE DEF v, p
    <3>2. \E h : /\ h[0] = p
                 /\ \A m \in 1 .. Len(v) : h[m] = append(h[m - 1], v[m], slots)
                 /\ append_all(p, v, slots) = h[Len(v)]
      BY ONLY <3>1, FoldSteps
    <3> QED
      BY <3>2 DEF v, p
  <2>3. IsRun(c, h)
    BY <2>1, <2>2
  <2> HIDE DEF IsRun
  <2> QED
    BY <2>3
<1>2. \A c \in C : /\ H[c][0] = cols[c]
                   /\ \A m \in 1 .. n : H[c][m] = append(H[c][m - 1], vals[c][m], slots)
                   /\ append_all(cols[c], vals[c], slots) = H[c][n]
  BY <1>1
<1> HIDE DEF H, IsRun
<1> DEFINE Holds(m, after, box) ==
             /\ \A c \in C :
                  /\ H[c][m] \in Seq(Seq(V)) /\ PagesWithin(H[c][m], slots)
                  /\ Shape(H[c][m]) = after
                  /\ Boxes(H[c][m]) = Boxes(cols[c]) \cup {box[k] : k \in 1 .. m}
                  /\ \A k \in 1 .. m : /\ box[k] \notin Boxes(cols[c])
                                       /\ H[c][m][box[k][1]][box[k][2]] = vals[c][k]
                  /\ \A b \in Boxes(cols[c]) : H[c][m][b[1]][b[2]] = cols[c][b[1]][b[2]]
             /\ \A j, k \in 1 .. m : j # k => box[j] # box[k]
           M == {m \in Nat : \E after, box : Holds(m, after, box)}
<1>3. 0 \in M
  <2>1. Holds(0, shape, <<>>)
    BY SMTT(30), <1>2
  <2> HIDE DEF Holds
  <2> QED
    BY <2>1
<1>4. ASSUME NEW k \in 0 .. n - 1, k \in M PROVE k + 1 \in M
  <2>1. PICK after, box : Holds(k, after, box)
    BY <1>4
  <2> DEFINE next == NextBox(after, slots)
             box2 == [m \in 1 .. k + 1 |-> IF m = k + 1 THEN next ELSE box[m]]
             more == NextShape(after, slots)
  <2>2. /\ k \in Nat /\ k + 1 \in 1 .. n /\ k + 1 \in Nat /\ (k + 1) - 1 = k
        /\ \A m \in 1 .. k + 1 : m = k + 1 \/ (m # k + 1 /\ m \in 1 .. k)
        /\ \A m \in 1 .. k : m # k + 1 /\ m \in 1 .. k + 1 /\ m \in 1 .. n
        /\ k + 1 \in 1 .. k + 1
    OBVIOUS
  <2>3. /\ box2[k + 1] = next
        /\ \A m \in 1 .. k : box2[m] = box[m]
    BY <2>2
  <2>4. ASSUME NEW c \in C
        PROVE  /\ H[c][k] \in Seq(Seq(V)) /\ PagesWithin(H[c][k], slots)
               /\ Shape(H[c][k]) = after
               /\ Boxes(H[c][k]) = Boxes(cols[c]) \cup {box[m] : m \in 1 .. k}
               /\ \A m \in 1 .. k : /\ box[m] \notin Boxes(cols[c])
                                    /\ H[c][k][box[m][1]][box[m][2]] = vals[c][m]
               /\ \A b \in Boxes(cols[c]) : H[c][k][b[1]][b[2]] = cols[c][b[1]][b[2]]
    BY <2>1
  <2>5. \A i, j \in 1 .. k : i # j => box[i] # box[j]
    BY SMTT(30), <2>1
  <2>6. ASSUME NEW c \in C
        PROVE  /\ H[c][k + 1] \in Seq(Seq(V)) /\ PagesWithin(H[c][k + 1], slots)
               /\ Shape(H[c][k + 1]) = more
               /\ next \notin Boxes(H[c][k])
               /\ Boxes(H[c][k + 1]) = Boxes(H[c][k]) \cup {next}
               /\ H[c][k + 1][next[1]][next[2]] = vals[c][k + 1]
               /\ \A b \in Boxes(H[c][k]) : H[c][k + 1][b[1]][b[2]] = H[c][k][b[1]][b[2]]
    <3>1. H[c][k + 1] = append(H[c][k], vals[c][k + 1], slots)
      BY <1>2, <2>2
    <3>2. vals[c][k + 1] \in V
      <4>1. vals[c] \in Seq(V) /\ Len(vals[c]) = n
        OBVIOUS
      <4> QED
        BY <4>1, <2>2
    <3> DEFINE old == H[c][k]
               v == vals[c][k + 1]
    <3>3. old \in Seq(Seq(V)) /\ PagesWithin(old, slots) /\ Shape(old) = after
      BY <2>4
    <3> HIDE DEF old, v
    <3>4. LET new == append(old, v, slots)
              nb == NextBox(Shape(old), slots)
          IN  /\ new \in Seq(Seq(V)) /\ PagesWithin(new, slots)
              /\ Shape(new) = NextShape(Shape(old), slots)
              /\ nb \notin Boxes(old)
              /\ Boxes(new) = Boxes(old) \cup {nb}
              /\ new[nb[1]][nb[2]] = v
              /\ \A b \in Boxes(old) : new[b[1]][b[2]] = old[b[1]][b[2]]
      <4>1. v \in V
        BY <3>2 DEF v
      <4>2. slots \in Nat \ {0}
        OBVIOUS
      <4> QED
        BY ONLY SMTT(30), <3>3, <4>1, <4>2, AppendPages
    <3> QED
      BY <3>1, <3>3, <3>4 DEF old, v
  <2> HIDE DEF box2, next, more
  <2>7. ASSUME NEW c \in C
        PROVE  /\ Boxes(H[c][k + 1]) = Boxes(cols[c]) \cup {box2[m] : m \in 1 .. k + 1}
               /\ \A m \in 1 .. k + 1 : /\ box2[m] \notin Boxes(cols[c])
                                        /\ H[c][k + 1][box2[m][1]][box2[m][2]] = vals[c][m]
               /\ \A b \in Boxes(cols[c]) : H[c][k + 1][b[1]][b[2]] = cols[c][b[1]][b[2]]
    <3>1. {box2[m] : m \in 1 .. k + 1} = {box[m] : m \in 1 .. k} \cup {next}
      <4>1. ASSUME NEW x \in {box2[m] : m \in 1 .. k + 1}
            PROVE  x \in {box[m] : m \in 1 .. k} \cup {next}
        BY <2>2, <2>3
      <4>2. ASSUME NEW x \in {box[m] : m \in 1 .. k} \cup {next}
            PROVE  x \in {box2[m] : m \in 1 .. k + 1}
        BY <2>2, <2>3
      <4> QED
        BY <4>1, <4>2
    <3>2. \A m \in 1 .. k : box[m] \in Boxes(H[c][k])
      BY <2>4
    <3>3. Boxes(H[c][k + 1]) = Boxes(cols[c]) \cup {box2[m] : m \in 1 .. k + 1}
      BY ZenonT(60), <2>4, <2>6, <3>1
    <3>4. ASSUME NEW m \in 1 .. k + 1
          PROVE  /\ box2[m] \notin Boxes(cols[c])
                 /\ H[c][k + 1][box2[m][1]][box2[m][2]] = vals[c][m]
      <4>1. CASE m = k + 1
        BY <4>1, <2>3, <2>4, <2>6
      <4>2. CASE m # k + 1
        <5>1. m \in 1 .. k /\ box2[m] = box[m]
          BY <4>2, <2>2, <2>3
        <5>2. /\ box[m] \in Boxes(H[c][k]) /\ box[m] \notin Boxes(cols[c])
              /\ H[c][k][box[m][1]][box[m][2]] = vals[c][m]
          BY SMTT(30), <5>1, <3>2, <2>4
        <5>3. H[c][k + 1][box[m][1]][box[m][2]] = H[c][k][box[m][1]][box[m][2]]
          BY <5>2, <2>6
        <5> QED
          BY <5>1, <5>2, <5>3
      <4> QED
        BY <4>1, <4>2
    <3>5. \A b \in Boxes(cols[c]) : H[c][k + 1][b[1]][b[2]] = cols[c][b[1]][b[2]]
      BY <2>4, <2>6
    <3> QED
      BY <3>3, <3>4, <3>5
  <2>8. ASSUME NEW i \in 1 .. k + 1, NEW j \in 1 .. k + 1, i # j PROVE box2[i] # box2[j]
    <3>1. PICK c : c \in C
      OBVIOUS
    <3>2. \A m \in 1 .. k : box[m] # next
      BY <3>1, <2>4, <2>6
    <3> QED
      BY <2>2, <2>3, <2>5, <2>8, <3>2
  <2>9. Holds(k + 1, more, box2)
    BY <2>6, <2>7, <2>8
  <2> HIDE DEF Holds
  <2> QED
    BY <2>2, <2>9
<1>5. n \in M
  <2> HIDE DEF M
  <2>1. \A m \in 0 .. n : m \in M
    BY <1>3, <1>4, UpTo
  <2> QED
    BY <2>1
<1>6. PICK after, box : Holds(n, after, box)
  BY <1>5
<1>7. ASSUME NEW c \in C
      PROVE  LET new == append_all(cols[c], vals[c], slots)
             IN  /\ new \in Seq(Seq(V)) /\ PagesWithin(new, slots)
                 /\ Shape(new) = after
                 /\ Boxes(new) = Boxes(cols[c]) \cup {box[m] : m \in 1 .. n}
                 /\ \A m \in 1 .. n : /\ box[m] \notin Boxes(cols[c])
                                      /\ new[box[m][1]][box[m][2]] = vals[c][m]
                 /\ \A b \in Boxes(cols[c]) : new[b[1]][b[2]] = cols[c][b[1]][b[2]]
  <2> DEFINE new == append_all(cols[c], vals[c], slots)
  <2>1. new = H[c][n]
    BY <1>2
  <2> HIDE DEF new
  <2>2. /\ new \in Seq(Seq(V)) /\ PagesWithin(new, slots)
        /\ Shape(new) = after
        /\ Boxes(new) = Boxes(cols[c]) \cup {box[m] : m \in 1 .. n}
        /\ \A m \in 1 .. n : /\ box[m] \notin Boxes(cols[c])
                             /\ new[box[m][1]][box[m][2]] = vals[c][m]
        /\ \A b \in Boxes(cols[c]) : new[b[1]][b[2]] = cols[c][b[1]][b[2]]
    BY ZenonT(60), <1>6, <2>1
  <2> QED
    BY <2>2 DEF new
<1>8. \A m, k \in 1 .. n : m # k => box[m] # box[k]
  BY <1>6
<1> HIDE DEF Holds, M
<1>9. Filled(C, V, slots, cols, vals, n, after, box)
  BY <1>7, <1>8 DEF Filled
<1> QED
  BY <1>9

(* The sequence after each of the parts that FlattenSeq puts together. *)
LEMMA FlattenSteps ==
    ASSUME NEW V, NEW seqs \in Seq(Seq(V))
    PROVE  \E h : /\ h[0] = <<>>
                  /\ \A m \in 1 .. Len(seqs) : h[m] = h[m - 1] \o seqs[m]
                  /\ FlattenSeq(seqs) = h[Len(seqs)]
<1> DEFINE n == Len(seqs)
           IsFlat(g, k) == g = [m \in 1 .. k |-> IF m = 1 THEN seqs[m] ELSE g[m - 1] \o seqs[m]]
<1>1. n \in Nat /\ DOMAIN seqs = 1 .. n /\ \A m \in 1 .. n : seqs[m] \in Seq(V)
  OBVIOUS
<1>2. CASE n = 0
  <2>1. FlattenSeq(seqs) = <<>>
    BY <1>2 DEF FlattenSeq
  <2> DEFINE h == [m \in {0} |-> <<>>]
  <2>2. h[0] = <<>> /\ \A m \in 1 .. n : h[m] = h[m - 1] \o seqs[m]
    BY <1>2
  <2> HIDE DEF h
  <2>3. h[0] = <<>> /\ FlattenSeq(seqs) = h[n]
    BY <2>1, <2>2, <1>2
  <2> QED
    BY <2>2, <2>3
<1>3. CASE n # 0
  <2> DEFINE K == {k \in Nat : \E g : IsFlat(g, k)}
  <2>1. 0 \in K
    <3>1. IsFlat(<<>>, 0)
      OBVIOUS
    <3> QED
      BY <3>1
  <2>2. ASSUME NEW k \in Nat, k \in K PROVE k + 1 \in K
    <3>1. PICK g : IsFlat(g, k)
      BY <2>2
    <3> DEFINE last == IF k = 0 THEN seqs[1] ELSE g[k] \o seqs[k + 1]
               G == [m \in 1 .. k + 1 |-> IF m = k + 1 THEN last ELSE g[m]]
    <3>2. ASSUME NEW m \in 1 .. k + 1
          PROVE  G[m] = IF m = 1 THEN seqs[m] ELSE G[m - 1] \o seqs[m]
      <4>1. CASE m = k + 1 /\ k = 0
        BY <4>1
      <4>2. CASE m = k + 1 /\ k # 0
        <5>1. m # 1 /\ m - 1 = k /\ k \in 1 .. k + 1 /\ k # k + 1
          BY <4>2
        <5>2. G[m - 1] = g[k]
          BY <5>1
        <5> QED
          BY <4>2, <5>1, <5>2
      <4>3. CASE m # k + 1
        <5>1. m \in 1 .. k
          BY <4>3
        <5>2. G[m] = g[m]
          BY <4>3
        <5>3. g[m] = IF m = 1 THEN seqs[m] ELSE g[m - 1] \o seqs[m]
          BY <3>1, <5>1
        <5>4. m # 1 => m - 1 \in 1 .. k + 1 /\ m - 1 # k + 1
          OBVIOUS
        <5>5. m # 1 => G[m - 1] = g[m - 1]
          BY <5>4
        <5> QED
          BY <5>2, <5>3, <5>5
      <4> QED
        BY <4>1, <4>2, <4>3
    <3>3. IsFlat(G, k + 1)
      <4>1. G = [m \in 1 .. k + 1 |-> G[m]]
        OBVIOUS
      <4> HIDE DEF G
      <4> QED
        BY <3>2, <4>1
    <3>4. k + 1 \in Nat
      OBVIOUS
    <3> HIDE DEF IsFlat
    <3> QED
      BY <3>3, <3>4
  <2>3. \E g : IsFlat(g, n)
    <3> HIDE DEF K
    <3>1. Nat \subseteq K
      BY <2>1, <2>2, NatSet
    <3>2. n \in K
      BY <1>1, <3>1
    <3> QED
      BY <3>2 DEF K
  <2> DEFINE f == CHOOSE g : IsFlat(g, n)
  <2>4. FlattenSeq(seqs) = f[n]
    BY <1>3 DEF FlattenSeq
  <2>5. IsFlat(f, n)
    BY <2>3
  <2> HIDE DEF f
  <2> DEFINE h == [m \in 0 .. n |-> IF m = 0 THEN <<>> ELSE f[m]]
  <2>6. h[0] = <<>> /\ h[n] = f[n]
    BY <1>1, <1>3
  <2>7. ASSUME NEW m \in 1 .. n PROVE h[m] = h[m - 1] \o seqs[m]
    <3>1. h[m] = f[m] /\ m \in Nat
      BY <1>1
    <3>2. CASE m = 1
      <4>1. h[m - 1] = <<>>
        BY <3>2, <1>1
      <4>2. f[m] = seqs[m]
        BY <3>2, <2>5
      <4>3. <<>> \o seqs[m] = seqs[m]
        BY <1>1
      <4> QED
        BY <3>1, <4>1, <4>2, <4>3
    <3>3. CASE m # 1
      <4>1. h[m - 1] = f[m - 1]
        BY <3>3, <1>1
      <4>2. f[m] = f[m - 1] \o seqs[m]
        BY <3>3, <2>5
      <4> QED
        BY <3>1, <4>1, <4>2
    <3> QED
      BY <3>2, <3>3
  <2> QED
    BY <2>4, <2>6, <2>7
<1> QED
  BY <1>2, <1>3

(* A flattened sequence has the elements of its parts. *)
LEMMA FlattenRange ==
    ASSUME NEW V, NEW seqs \in Seq(Seq(V))
    PROVE  /\ FlattenSeq(seqs) \in Seq(V)
           /\ Range(FlattenSeq(seqs)) = UNION {Range(seqs[m]) : m \in 1 .. Len(seqs)}
<1> DEFINE n == Len(seqs)
<1>1. PICK h : /\ h[0] = <<>>
               /\ \A m \in 1 .. n : h[m] = h[m - 1] \o seqs[m]
               /\ FlattenSeq(seqs) = h[n]
  BY FlattenSteps
<1>2. n \in Nat /\ \A m \in 1 .. n : seqs[m] \in Seq(V)
  OBVIOUS
<1> HIDE DEF n
<1> DEFINE M == {m \in Nat : /\ h[m] \in Seq(V)
                             /\ Range(h[m]) = UNION {Range(seqs[k]) : k \in 1 .. m}}
<1>3. 0 \in M
  <2>1. {Range(seqs[k]) : k \in 1 .. 0} = {} /\ Range(<<>>) = {} /\ <<>> \in Seq(V)
    BY DEF Range
  <2> QED
    BY <1>1, <2>1
<1>4. ASSUME NEW m \in 0 .. n - 1, m \in M PROVE m + 1 \in M
  <2>1. /\ m + 1 \in 1 .. n /\ (m + 1) - 1 = m /\ m \in Nat /\ m + 1 \in Nat
    BY <1>2
  <2>2. h[m + 1] = h[m] \o seqs[m + 1] /\ seqs[m + 1] \in Seq(V)
    BY <1>1, <1>2, <2>1
  <2>3. /\ h[m] \in Seq(V) /\ Range(h[m]) = UNION {Range(seqs[k]) : k \in 1 .. m}
    BY <1>4
  <2>4. h[m + 1] \in Seq(V) /\ Range(h[m + 1]) = Range(h[m]) \cup Range(seqs[m + 1])
    <3> DEFINE a == h[m]
               b == seqs[m + 1]
    <3>1. a \in Seq(V) /\ b \in Seq(V) /\ h[m + 1] = a \o b
      BY <2>2, <2>3
    <3> HIDE DEF a, b
    <3>2. /\ a \o b \in Seq(V) /\ DOMAIN (a \o b) = 1 .. Len(a) + Len(b)
          /\ \A p \in 1 .. Len(a) : (a \o b)[p] = a[p]
          /\ \A p \in 1 .. Len(b) : (a \o b)[Len(a) + p] = b[p]
      BY <3>1, Concatenation
    <3>3. /\ DOMAIN a = 1 .. Len(a) /\ DOMAIN b = 1 .. Len(b) /\ Len(a) \in Nat /\ Len(b) \in Nat
      BY <3>1
    <3>4. ASSUME NEW x \in Range(a \o b) PROVE x \in Range(a) \cup Range(b)
      <4>1. PICK p \in 1 .. Len(a) + Len(b) : x = (a \o b)[p]
        BY <3>2 DEF Range
      <4>2. CASE p \in 1 .. Len(a)
        BY <4>1, <4>2, <3>2, <3>3 DEF Range
      <4>3. CASE p \notin 1 .. Len(a)
        <5>1. p - Len(a) \in 1 .. Len(b) /\ Len(a) + (p - Len(a)) = p
          BY <4>3, <3>3
        <5>2. x = b[p - Len(a)]
          BY <5>1, <4>1, <3>2
        <5> QED
          BY <5>1, <5>2, <3>3 DEF Range
      <4> QED
        BY <4>2, <4>3
    <3>5. ASSUME NEW x \in Range(a) \cup Range(b) PROVE x \in Range(a \o b)
      <4>1. CASE x \in Range(a)
        <5>1. PICK p \in 1 .. Len(a) : x = a[p]
          BY <4>1, <3>3 DEF Range
        <5>2. p \in 1 .. Len(a) + Len(b)
          BY <3>3
        <5> QED
          BY <5>1, <5>2, <3>2 DEF Range
      <4>2. CASE x \in Range(b)
        <5>1. PICK p \in 1 .. Len(b) : x = b[p]
          BY <4>2, <3>3 DEF Range
        <5>2. Len(a) + p \in 1 .. Len(a) + Len(b)
          BY <3>3
        <5> QED
          BY <5>1, <5>2, <3>2 DEF Range
      <4> QED
        BY <4>1, <4>2
    <3>6. Range(a \o b) = Range(a) \cup Range(b)
      BY <3>4, <3>5
    <3> QED
      BY <3>1, <3>2, <3>6 DEF a, b
  <2>5. UNION {Range(seqs[k]) : k \in 1 .. m + 1}
          = (UNION {Range(seqs[k]) : k \in 1 .. m}) \cup Range(seqs[m + 1])
    <3>1. \A k : k \in 1 .. m + 1 <=> k \in 1 .. m \/ k = m + 1
      BY <2>1
    <3> QED
      BY <3>1
  <2> QED
    BY <2>1, <2>3, <2>4, <2>5
<1>5. n \in M
  <2> HIDE DEF M
  <2>1. \A m \in 0 .. n : m \in M
    BY <1>2, <1>3, <1>4, UpTo
  <2> QED
    BY <2>1, <1>2
<1> QED
  BY <1>1, <1>5 DEF n

(* A position tells its page and its slot. *)
LEMMA PositionParts ==
    ASSUME NEW slots \in Nat \ {0}, NEW p \in Nat, NEW s \in 0 .. slots - 1
    PROVE  /\ p * slots + s \in Nat
           /\ (p * slots + s) \div slots = p
           /\ (p * slots + s) % slots = s
<1> DEFINE pos == p * slots + s
           q == pos \div slots
           r == pos % slots
<1>1. pos \in Nat
  OBVIOUS
<1>2. q \in Nat /\ r \in 0 .. slots - 1 /\ pos = slots * q + r
  BY <1>1, DivMod
<1>3. slots * q = q * slots /\ q * slots \in Nat /\ p * slots \in Nat
  BY <1>2
<1>4. pos = p * slots + s /\ s \in 0 .. slots - 1
  OBVIOUS
<1> HIDE DEF pos, q, r
<1>5. q = p
  <2>1. CASE q < p
    <3>1. (q + 1) * slots = q * slots + slots /\ (q + 1) * slots <= p * slots
      BY <2>1, <1>2, MulStep
    <3> QED
      BY <3>1, <1>2, <1>3, <1>4
  <2>2. CASE p < q
    <3>1. (p + 1) * slots = p * slots + slots /\ (p + 1) * slots <= q * slots
      BY <2>2, <1>2, MulStep
    <3> QED
      BY <3>1, <1>2, <1>3, <1>4
  <2> QED
    BY <2>1, <2>2, <1>2
<1>6. r = s
  BY <1>2, <1>3, <1>4, <1>5
<1> QED
  BY <1>1, <1>5, <1>6 DEF pos, q, r

-----------------------------------------------------------------------------
(* Bijections.                                                             *)

(* D extends the bijection B of S and T by x[m] |-> y[m]. *)
Extends(D, B, S, T, x, y, n) ==
    /\ D \in Bijection(S \cup {x[m] : m \in 1 .. n}, T \cup {y[m] : m \in 1 .. n})
    /\ \A s \in S : D[s] = B[s]
    /\ \A m \in 1 .. n : D[x[m]] = y[m]

(* A bijection takes in pairs of new elements. *)
LEMMA ExtendBijection ==
    ASSUME NEW S, NEW T, NEW B \in Bijection(S, T), NEW n \in Nat, NEW x, NEW y,
           \A m \in 1 .. n : x[m] \notin S /\ y[m] \notin T,
           \A m, k \in 1 .. n : m # k => x[m] # x[k] /\ y[m] # y[k]
    PROVE  \E D : Extends(D, B, S, T, x, y, n)
<1> DEFINE X == {x[m] : m \in 1 .. n}
           Y == {y[m] : m \in 1 .. n}
           D == [s \in S \cup X |-> IF s \in S THEN B[s]
                                    ELSE y[CHOOSE m \in 1 .. n : x[m] = s]]
<1>1. /\ B \in [S -> T]
      /\ \A a, b \in S : B[a] = B[b] => a = b
      /\ \A t \in T : \E s \in S : B[s] = t
  BY DEF Bijection, Injection, Surjection, IsInjective
<1>2. \A s \in S : D[s] = B[s] /\ D[s] \in T
  BY <1>1
<1>3. ASSUME NEW m \in 1 .. n PROVE D[x[m]] = y[m] /\ x[m] \in X /\ y[m] \in Y
  <2>1. x[m] \in X /\ x[m] \notin S
    OBVIOUS
  <2>2. (CHOOSE k \in 1 .. n : x[k] = x[m]) = m
    OBVIOUS
  <2> QED
    BY <2>1, <2>2
<1>4. \A s \in S \cup X : s \in S \/ \E m \in 1 .. n : s = x[m]
  OBVIOUS
<1>5. D \in [S \cup X -> T \cup Y]
  <2>1. \A s \in S \cup X : D[s] \in T \cup Y
    BY <1>2, <1>3, <1>4
  <2>2. D = [s \in S \cup X |-> D[s]]
    OBVIOUS
  <2> HIDE DEF D
  <2> QED
    BY <2>1, <2>2
<1> HIDE DEF D
<1>6. ASSUME NEW a \in S \cup X, NEW b \in S \cup X, D[a] = D[b] PROVE a = b
  <2>1. CASE a \in S /\ b \in S
    BY <2>1, <1>1, <1>2, <1>6
  <2>2. CASE a \in S /\ b \notin S
    BY <2>2, <1>2, <1>3, <1>4, <1>6
  <2>3. CASE a \notin S /\ b \in S
    BY <2>3, <1>2, <1>3, <1>4, <1>6
  <2>4. CASE a \notin S /\ b \notin S
    <3>1. PICK m \in 1 .. n, k \in 1 .. n : a = x[m] /\ b = x[k]
      BY <2>4, <1>4
    <3> QED
      BY <3>1, <1>3, <1>6
  <2> QED
    BY <2>1, <2>2, <2>3, <2>4
<1>7. ASSUME NEW t \in T \cup Y PROVE \E s \in S \cup X : D[s] = t
  <2>1. CASE t \in T
    BY <2>1, <1>1, <1>2
  <2>2. CASE t \in Y
    BY <2>2, <1>3
  <2> QED
    BY <2>1, <2>2
<1>8. D \in Bijection(S \cup X, T \cup Y)
  <2>1. DOMAIN D = S \cup X
    BY <1>5
  <2> HIDE DEF X, Y
  <2> QED
    BY <2>1, <1>5, <1>6, <1>7 DEF Bijection, Injection, Surjection, IsInjective
<1> QED
  BY ZenonT(60), <1>2, <1>3, <1>8 DEF Extends

(* One bijection after another. *)
LEMMA ComposeBijection ==
    ASSUME NEW S, NEW T, NEW U, NEW B \in Bijection(S, T), NEW C \in Bijection(T, U)
    PROVE  [s \in S |-> C[B[s]]] \in Bijection(S, U)
<1> DEFINE D == [s \in S |-> C[B[s]]]
<1>1. /\ B \in [S -> T] /\ C \in [T -> U]
      /\ \A a, b \in S : B[a] = B[b] => a = b
      /\ \A a, b \in T : C[a] = C[b] => a = b
      /\ \A t \in T : \E s \in S : B[s] = t
      /\ \A u \in U : \E t \in T : C[t] = u
  BY DEF Bijection, Injection, Surjection, IsInjective
<1>2. D \in [S -> U] /\ DOMAIN D = S /\ \A s \in S : D[s] = C[B[s]]
  BY <1>1
<1>3. \A a, b \in S : D[a] = D[b] => a = b
  BY <1>1, <1>2
<1>4. \A u \in U : \E s \in S : D[s] = u
  BY <1>1, <1>2
<1> HIDE DEF D
<1>5. D \in Bijection(S, U)
  BY <1>2, <1>3, <1>4 DEF Bijection, Injection, Surjection, IsInjective
<1> QED
  BY <1>5 DEF D

(* A bijection that keeps a property keeps how many have it. *)
LEMMA CountBijection ==
    ASSUME NEW S, NEW T, NEW B \in Bijection(S, T), IsFiniteSet(S),
           NEW P, P \subseteq S, NEW Q, Q \subseteq T,
           \A s \in S : s \in P <=> B[s] \in Q
    PROVE  Cardinality(P) = Cardinality(Q)
<1> DEFINE D == [s \in P |-> B[s]]
<1>1. /\ B \in [S -> T]
      /\ \A a, b \in S : B[a] = B[b] => a = b
      /\ \A t \in T : \E s \in S : B[s] = t
  BY DEF Bijection, Injection, Surjection, IsInjective
<1>2. D \in [P -> Q] /\ DOMAIN D = P /\ \A s \in P : D[s] = B[s]
  BY <1>1
<1>3. \A a, b \in P : D[a] = D[b] => a = b
  BY <1>1, <1>2
<1>4. \A t \in Q : \E s \in P : D[s] = t
  BY <1>1, <1>2
<1> HIDE DEF D
<1>5. D \in Bijection(P, Q)
  BY <1>2, <1>3, <1>4 DEF Bijection, Injection, Surjection, IsInjective
<1>6. IsFiniteSet(P) /\ ExistsBijection(P, Q)
  BY <1>5, FS_Subset DEF ExistsBijection
<1> QED
  BY <1>6, FS_Bijection

(* Columns of one shape have the same boxes. *)
LEMMA SameBoxes ==
    ASSUME NEW V, NEW W, NEW a \in Seq(Seq(V)), NEW b \in Seq(Seq(W)), Shape(a) = Shape(b)
    PROVE  Boxes(a) = Boxes(b)
<1>1. /\ DOMAIN a = DOMAIN b
      /\ \A p \in DOMAIN a : Len(a[p]) = Len(b[p])
  <2>1. /\ Len(Shape(a)) = Len(a) /\ DOMAIN a = 1 .. Len(a)
        /\ \A p \in 1 .. Len(a) : Shape(a)[p] = Len(a[p])
    BY ShapeIsSeq
  <2>2. /\ Len(Shape(b)) = Len(b) /\ DOMAIN b = 1 .. Len(b)
        /\ \A p \in 1 .. Len(b) : Shape(b)[p] = Len(b[p])
    BY ShapeIsSeq
  <2> QED
    BY <2>1, <2>2
<1>2. \A x : x \in Boxes(a) <=> x \in Boxes(b)
  BY <1>1, InBoxes
<1> QED
  BY <1>2

-----------------------------------------------------------------------------
(* What FlattenSeq puts together.                                          *)

(* Flattening sequences put together. *)
LEMMA FlattenConcat ==
    ASSUME NEW V, NEW a \in Seq(Seq(V)), NEW b \in Seq(Seq(V))
    PROVE  FlattenSeq(a \o b) = FlattenSeq(a) \o FlattenSeq(b)
<1> DEFINE n == Len(a)
           k == Len(b)
           c == a \o b
<1>1. /\ n \in Nat /\ k \in Nat /\ c \in Seq(Seq(V)) /\ Len(c) = n + k
      /\ \A m \in 1 .. n : c[m] = a[m]
      /\ \A m \in 1 .. k : c[n + m] = b[m]
      /\ \A m \in 1 .. n : a[m] \in Seq(V)
      /\ \A m \in 1 .. k : b[m] \in Seq(V)
  OBVIOUS
<1> HIDE DEF c, n, k
<1>2. PICK f : /\ f[0] = <<>>
               /\ \A m \in 1 .. n : f[m] = f[m - 1] \o a[m]
               /\ FlattenSeq(a) = f[n]
  BY FlattenSteps DEF n
<1>3. PICK g : /\ g[0] = <<>>
               /\ \A m \in 1 .. k : g[m] = g[m - 1] \o b[m]
               /\ FlattenSeq(b) = g[k]
  BY FlattenSteps DEF k
<1>4. PICK h : /\ h[0] = <<>>
               /\ \A m \in 1 .. n + k : h[m] = h[m - 1] \o c[m]
               /\ FlattenSeq(c) = h[n + k]
  BY <1>1, FlattenSteps
<1> DEFINE PA(m) == m <= n => h[m] = f[m] /\ f[m] \in Seq(V)
           PB(m) == m <= k => h[n + m] = f[n] \o g[m] /\ g[m] \in Seq(V)
           A == {m \in Nat : PA(m)}
           B == {m \in Nat : PB(m)}
<1>5. PA(0)
  <2>1. <<>> \in Seq(V)
    OBVIOUS
  <2> QED
    BY <1>2, <1>4, <2>1
<1>6. ASSUME NEW m \in Nat, PA(m) PROVE PA(m + 1)
  <2>1. CASE m + 1 <= n
    <3>1. /\ m + 1 \in 1 .. n /\ m + 1 \in 1 .. n + k /\ (m + 1) - 1 = m /\ m <= n
      BY <1>1, <2>1
    <3>2. h[m + 1] = h[m] \o c[m + 1] /\ f[m + 1] = f[m] \o a[m + 1]
      BY <1>2, <1>4, <3>1
    <3>3. h[m] = f[m] /\ f[m] \in Seq(V) /\ c[m + 1] = a[m + 1] /\ a[m + 1] \in Seq(V)
      BY <1>1, <1>6, <3>1
    <3>4. h[m + 1] = f[m + 1] /\ f[m + 1] \in Seq(V)
      BY <3>2, <3>3
    <3> QED
      BY <3>4
  <2>2. CASE ~(m + 1 <= n)
    BY <2>2
  <2> QED
    BY <2>1, <2>2
<1>7. \A m \in Nat : PA(m)
  <2> HIDE DEF PA
  <2>1. 0 \in A /\ \A m \in Nat : m \in A => m + 1 \in A
    BY <1>5, <1>6
  <2>2. Nat \subseteq A
    <3> HIDE DEF A
    <3> QED
      BY <2>1, NatSet
  <2> QED
    BY <2>2
<1>8. h[n] = f[n] /\ f[n] \in Seq(V)
  BY <1>1, <1>7
<1>9. PB(0)
  <2>1. n + 0 = n /\ <<>> \in Seq(V)
    BY <1>1
  <2>2. f[n] \o <<>> = f[n]
    BY <1>8, ConcatEmptySeq
  <2> QED
    BY <1>3, <1>8, <2>1, <2>2
<1>10. ASSUME NEW m \in Nat, PB(m) PROVE PB(m + 1)
  <2>1. CASE m + 1 <= k
    <3>1. /\ m + 1 \in 1 .. k /\ n + (m + 1) \in 1 .. n + k
          /\ (m + 1) - 1 = m /\ (n + (m + 1)) - 1 = n + m /\ m <= k
      BY SMTT(30), <1>1, <2>1
    <3>2. h[n + (m + 1)] = h[n + m] \o c[n + (m + 1)] /\ g[m + 1] = g[m] \o b[m + 1]
      BY <1>3, <1>4, <3>1
    <3>3. /\ h[n + m] = f[n] \o g[m] /\ g[m] \in Seq(V)
          /\ c[n + (m + 1)] = b[m + 1] /\ b[m + 1] \in Seq(V)
      BY <1>1, <1>10, <3>1
    <3>4. h[n + (m + 1)] = (f[n] \o g[m]) \o b[m + 1]
      BY <3>2, <3>3
    <3>5. (f[n] \o g[m]) \o b[m + 1] = f[n] \o (g[m] \o b[m + 1])
      <4>1. PICK x, y, z : x = f[n] /\ y = g[m] /\ z = b[m + 1]
        OBVIOUS
      <4>2. x \in Seq(V) /\ y \in Seq(V) /\ z \in Seq(V)
        BY <1>8, <3>3, <4>1
      <4>3. (x \o y) \o z = x \o (y \o z)
        BY SMTT(30), <4>2, ConcatAssociative
      <4> QED
        BY <4>1, <4>3
    <3>6. h[n + (m + 1)] = f[n] \o g[m + 1] /\ g[m + 1] \in Seq(V)
      BY <3>2, <3>3, <3>4, <3>5
    <3> QED
      BY <3>6
  <2>2. CASE ~(m + 1 <= k)
    BY <2>2
  <2> QED
    BY <2>1, <2>2
<1>11. \A m \in Nat : PB(m)
  <2> HIDE DEF PB
  <2>1. 0 \in B /\ \A m \in Nat : m \in B => m + 1 \in B
    BY <1>9, <1>10
  <2>2. Nat \subseteq B
    <3> HIDE DEF B
    <3> QED
      BY <2>1, NatSet
  <2> QED
    BY <2>2
<1>12. h[n + k] = f[n] \o g[k]
  <2>1. PB(k)
    <3> HIDE DEF PB
    <3> QED
      BY <1>1, <1>11
  <2>2. k <= k
    BY <1>1
  <2> QED
    BY <2>1, <2>2
<1> QED
  BY <1>2, <1>3, <1>4, <1>12 DEF c

(* Flattening one sequence. *)
LEMMA FlattenOne ==
    ASSUME NEW V, NEW a \in Seq(V)
    PROVE  FlattenSeq(<<a>>) = a
<1>1. <<a>> \in Seq(Seq(V)) /\ Len(<<a>>) = 1 /\ <<a>>[1] = a
  OBVIOUS
<1>2. PICK h : /\ h[0] = <<>>
               /\ \A m \in 1 .. Len(<<a>>) : h[m] = h[m - 1] \o <<a>>[m]
               /\ FlattenSeq(<<a>>) = h[Len(<<a>>)]
  BY <1>1, FlattenSteps
<1>3. h[1] = h[0] \o a /\ FlattenSeq(<<a>>) = h[1]
  <2>1. 1 \in 1 .. Len(<<a>>) /\ 1 - 1 = 0
    BY <1>1
  <2>2. h[1] = h[1 - 1] \o <<a>>[1]
    BY <1>2, <2>1
  <2> QED
    BY <1>1, <1>2, <2>1, <2>2
<1>4. <<>> \o a = a
  BY ConcatEmptySeq
<1> QED
  BY <1>2, <1>3, <1>4

(* A sequence put together has the elements of both, and each once if      *)
(* both do and have none in common.                                        *)
LEMMA ConcatElements ==
    ASSUME NEW V, NEW a \in Seq(V), NEW b \in Seq(V)
    PROVE  /\ Range(a \o b) = Range(a) \cup Range(b)
           /\ IsInjective(a) /\ IsInjective(b) /\ Range(a) \cap Range(b) = {}
                => IsInjective(a \o b)
<1> DEFINE n == Len(a)
           k == Len(b)
           c == a \o b
<1>1. /\ n \in Nat /\ k \in Nat /\ DOMAIN c = 1 .. n + k
      /\ DOMAIN a = 1 .. n /\ DOMAIN b = 1 .. k
      /\ \A m \in 1 .. n : c[m] = a[m]
      /\ \A m \in 1 .. k : c[n + m] = b[m]
  OBVIOUS
<1>2. ASSUME NEW m \in 1 .. n + k
      PROVE  \/ m \in 1 .. n /\ c[m] = a[m]
             \/ m - n \in 1 .. k /\ c[m] = b[m - n]
  <2>1. CASE m <= n
    BY <1>1, <2>1
  <2>2. CASE ~(m <= n)
    <3>1. m - n \in 1 .. k /\ n + (m - n) = m
      BY <1>1, <2>2
    <3>2. c[n + (m - n)] = b[m - n]
      BY <1>1, <3>1
    <3> QED
      BY <3>1, <3>2
  <2> QED
    BY <2>1, <2>2
<1>3. \A m \in 1 .. k : n + m \in 1 .. n + k
  BY <1>1
<1>4. \A m \in 1 .. n : m \in 1 .. n + k
  BY <1>1
<1> HIDE DEF n, k, c
<1>5. Range(c) = Range(a) \cup Range(b)
  <2>1. ASSUME NEW v \in Range(c) PROVE v \in Range(a) \cup Range(b)
    BY <1>1, <1>2 DEF Range
  <2>2. ASSUME NEW v \in Range(a) PROVE v \in Range(c)
    BY <1>1, <1>4 DEF Range
  <2>3. ASSUME NEW v \in Range(b) PROVE v \in Range(c)
    BY <1>1, <1>3 DEF Range
  <2> QED
    BY <2>1, <2>2, <2>3
<1>6. ASSUME IsInjective(a), IsInjective(b), Range(a) \cap Range(b) = {}
      PROVE  IsInjective(c)
  <2>1. /\ \A i, j \in 1 .. n : a[i] = a[j] => i = j
        /\ \A i, j \in 1 .. k : b[i] = b[j] => i = j
        /\ \A i \in 1 .. n, j \in 1 .. k : a[i] # b[j]
    <3>1. /\ \A i, j \in 1 .. n : a[i] = a[j] => i = j
          /\ \A i, j \in 1 .. k : b[i] = b[j] => i = j
      BY <1>1, <1>6 DEF IsInjective
    <3>2. \A i \in 1 .. n, j \in 1 .. k : a[i] \in Range(a) /\ b[j] \in Range(b)
      BY <1>1 DEF Range
    <3> QED
      BY <1>6, <3>1, <3>2
  <2>2. ASSUME NEW i \in 1 .. n + k, NEW j \in 1 .. n + k, c[i] = c[j] PROVE i = j
    <3>1. CASE i \in 1 .. n /\ c[i] = a[i] /\ j \in 1 .. n /\ c[j] = a[j]
      BY <2>1, <2>2, <3>1
    <3>2. CASE i \in 1 .. n /\ c[i] = a[i] /\ j - n \in 1 .. k /\ c[j] = b[j - n]
      BY <2>1, <2>2, <3>2
    <3>3. CASE i - n \in 1 .. k /\ c[i] = b[i - n] /\ j \in 1 .. n /\ c[j] = a[j]
      BY <2>1, <2>2, <3>3
    <3>4. CASE i - n \in 1 .. k /\ c[i] = b[i - n] /\ j - n \in 1 .. k /\ c[j] = b[j - n]
      <4>1. i - n = j - n
        BY <2>1, <2>2, <3>4
      <4> QED
        BY <4>1, <1>1
    <3> QED
      BY <1>2, <3>1, <3>2, <3>3, <3>4
  <2> QED
    BY <1>1, <2>2 DEF IsInjective
<1> QED
  BY <1>5, <1>6 DEF c

(* Flattening sequences that have each element once, and none in common.   *)
LEMMA FlattenInjective ==
    ASSUME NEW V, NEW seqs \in Seq(Seq(V)),
           \A m \in 1 .. Len(seqs) : IsInjective(seqs[m]),
           \A m, k \in 1 .. Len(seqs) : m # k => Range(seqs[m]) \cap Range(seqs[k]) = {}
    PROVE  IsInjective(FlattenSeq(seqs))
<1> DEFINE n == Len(seqs)
<1>1. PICK h : /\ h[0] = <<>>
               /\ \A m \in 1 .. n : h[m] = h[m - 1] \o seqs[m]
               /\ FlattenSeq(seqs) = h[n]
  BY FlattenSteps
<1>2. n \in Nat /\ \A m \in 1 .. n : seqs[m] \in Seq(V)
  OBVIOUS
<1>3. /\ \A m \in 1 .. n : IsInjective(seqs[m])
      /\ \A m, k \in 1 .. n : m # k => Range(seqs[m]) \cap Range(seqs[k]) = {}
  OBVIOUS
<1> HIDE DEF n
<1> DEFINE PM(m) == m <= n => /\ h[m] \in Seq(V) /\ IsInjective(h[m])
                              /\ \A v \in Range(h[m]) : \E k \in 1 .. m : v \in Range(seqs[k])
           M == {m \in Nat : PM(m)}
<1>4. PM(0)
  <2>1. h[0] \in Seq(V) /\ DOMAIN h[0] = {}
    BY <1>1
  <2> QED
    BY <2>1 DEF IsInjective, Range
<1>5. ASSUME NEW m \in Nat, PM(m) PROVE PM(m + 1)
  <2>1. CASE m + 1 <= n
    <3>1. m <= n /\ m + 1 \in 1 .. n /\ (m + 1) - 1 = m
      BY <1>2, <2>1
    <3>2. h[m + 1] = h[m] \o seqs[m + 1]
      BY <1>1, <3>1
    <3>3. /\ h[m] \in Seq(V) /\ IsInjective(h[m])
          /\ \A v \in Range(h[m]) : \E k \in 1 .. m : v \in Range(seqs[k])
      BY <1>5, <3>1
    <3>4. seqs[m + 1] \in Seq(V) /\ IsInjective(seqs[m + 1])
      BY <1>2, <1>3, <3>1
    <3>5. Range(h[m]) \cap Range(seqs[m + 1]) = {}
      <4>1. ASSUME NEW v \in Range(h[m]) PROVE v \notin Range(seqs[m + 1])
        <5>1. PICK k \in 1 .. m : v \in Range(seqs[k])
          BY <3>3
        <5>2. k \in 1 .. n /\ k # m + 1
          BY <1>2, <3>1
        <5> QED
          BY <1>3, <3>1, <5>1, <5>2
      <4> QED
        BY <4>1
    <3>6. /\ Range(h[m + 1]) = Range(h[m]) \cup Range(seqs[m + 1])
          /\ IsInjective(h[m + 1]) /\ h[m + 1] \in Seq(V)
      BY <3>2, <3>3, <3>4, <3>5, ConcatElements
    <3>7. ASSUME NEW v \in Range(h[m + 1]) PROVE \E k \in 1 .. m + 1 : v \in Range(seqs[k])
      <4>1. CASE v \in Range(h[m])
        <5>1. PICK k \in 1 .. m : v \in Range(seqs[k])
          BY <3>3, <4>1
        <5>2. k \in 1 .. m + 1
          OBVIOUS
        <5> QED
          BY <5>1, <5>2
      <4>2. CASE v \in Range(seqs[m + 1])
        <5>1. m + 1 \in 1 .. m + 1
          OBVIOUS
        <5> QED
          BY <4>2, <5>1
      <4> QED
        BY <3>6, <4>1, <4>2
    <3> QED
      BY <3>6, <3>7
  <2>2. CASE ~(m + 1 <= n)
    BY <2>2
  <2> QED
    BY <2>1, <2>2
<1>6. \A m \in Nat : PM(m)
  <2> HIDE DEF PM
  <2>1. 0 \in M /\ \A m \in Nat : m \in M => m + 1 \in M
    BY <1>4, <1>5
  <2>2. Nat \subseteq M
    <3> HIDE DEF M
    <3> QED
      BY <2>1, NatSet
  <2> QED
    BY <2>2
<1>7. IsInjective(h[n])
  BY <1>2, <1>6
<1> QED
  BY <1>1, <1>7

(* The parts of a sequence without repetitions have none, nor a common     *)
(* element.                                                                *)
LEMMA ConcatParts ==
    ASSUME NEW V, NEW a \in Seq(V), NEW b \in Seq(V), IsInjective(a \o b)
    PROVE  IsInjective(a) /\ IsInjective(b) /\ Range(a) \cap Range(b) = {}
<1> DEFINE n == Len(a)
           k == Len(b)
           c == a \o b
<1>1. /\ n \in Nat /\ k \in Nat /\ DOMAIN c = 1 .. n + k
      /\ DOMAIN a = 1 .. n /\ DOMAIN b = 1 .. k
      /\ \A m \in 1 .. n : c[m] = a[m]
      /\ \A m \in 1 .. k : c[n + m] = b[m]
  OBVIOUS
<1>2. /\ \A m \in 1 .. n : m \in 1 .. n + k
      /\ \A m \in 1 .. k : n + m \in 1 .. n + k
      /\ \A m \in 1 .. n, l \in 1 .. k : m # n + l
      /\ \A m, l \in 1 .. k : n + m = n + l => m = l
  BY <1>1
<1> HIDE DEF n, k, c
<1>3. \A i, j \in 1 .. n + k : c[i] = c[j] => i = j
  BY <1>1 DEF IsInjective, c
<1>4. IsInjective(a)
  BY <1>1, <1>2, <1>3 DEF IsInjective
<1>5. IsInjective(b)
  <2>1. ASSUME NEW i \in 1 .. k, NEW j \in 1 .. k, b[i] = b[j] PROVE i = j
    <3>1. c[n + i] = c[n + j]
      BY <1>1, <2>1
    <3> QED
      BY <1>2, <1>3, <3>1
  <2> QED
    BY <1>1, <2>1 DEF IsInjective
<1>6. ASSUME NEW v \in Range(a), v \in Range(b) PROVE FALSE
  <2>1. PICK i \in 1 .. n : v = a[i]
    BY <1>1 DEF Range
  <2>2. PICK j \in 1 .. k : v = b[j]
    BY <1>1, <1>6 DEF Range
  <2>3. c[i] = c[n + j]
    BY <1>1, <2>1, <2>2
  <2> QED
    BY <1>2, <1>3, <2>3
<1> QED
  BY <1>4, <1>5, <1>6

LEMMA FlattenNone == FlattenSeq(<<>>) = <<>>
<1>1. <<>> \in Seq(Seq({})) /\ Len(<<>>) = 0
  OBVIOUS
<1>2. \E h : h[0] = <<>> /\ FlattenSeq(<<>>) = h[Len(<<>>)]
  BY <1>1, FlattenSteps
<1> QED
  BY <1>1, <1>2

(* The smallest number of a set. *)
LEMMA MinOfSet ==
    ASSUME NEW S \in SUBSET Nat, S # {}
    PROVE  Min(S) \in S /\ \A x \in S : Min(S) <= x
<1> DEFINE R == {ss \in Nat \X Nat : ss[1] < ss[2]}
<1>1. IsWellFoundedOn(R, Nat)
  BY NatLessThanWellFounded DEF OpToRel
<1>2. PICK x \in S : \A y \in S : ~ (<<y, x>> \in R)
  <2> HIDE DEF R
  <2> QED
    BY <1>1, WFMin
<1>3. \A y \in S : x <= y
  <2> SUFFICES ASSUME NEW y \in S PROVE x <= y
    OBVIOUS
  <2>1. x \in Nat /\ y \in Nat /\ ~ (<<y, x>> \in R)
    BY <1>2
  <2>2. ~ (y < x)
    BY <2>1
  <2> QED
    BY <2>1, <2>2
<1> QED
  BY <1>3 DEF Min

(* One more element makes a set larger. *)
LEMMA OneMore ==
    ASSUME NEW B, IsFiniteSet(B), NEW A \in SUBSET B, NEW x \in B, x \notin A
    PROVE  Cardinality(A) \in Nat /\ Cardinality(A) + 1 <= Cardinality(B)
<1>1. IsFiniteSet(A)
  BY FS_Subset
<1>2. Cardinality(A \cup {x}) = Cardinality(A) + 1
  BY <1>1, FS_AddElement
<1>3. A \cup {x} \in SUBSET B
  OBVIOUS
<1>4. Cardinality(A \cup {x}) <= Cardinality(B)
  BY <1>3, FS_Subset
<1> QED
  BY <1>1, <1>2, <1>4, FS_CardinalityType

(* An injective function from 1 .. n into itself is onto. *)
LEMMA OntoItself ==
    ASSUME NEW n \in Nat, NEW f \in [1 .. n -> 1 .. n],
           \A i, j \in 1 .. n : f[i] = f[j] => i = j
    PROVE  \A x \in 1 .. n : \E i \in 1 .. n : f[i] = x
<1>1. f \in Injection(1 .. n, 1 .. n)
  BY DEF Injection, IsInjective
<1>2. IsFiniteSet(1 .. n)
  BY FS_Interval
<1>3. f \in Surjection(1 .. n, 1 .. n)
  BY <1>1, <1>2, FS_Injection
<1> QED
  BY <1>3 DEF Surjection

(* Sequences of the same elements, each once, are equally long. *)
LEMMA EqualLengths ==
    ASSUME NEW V, NEW a \in Seq(V), NEW b \in Seq(V),
           IsInjective(a), IsInjective(b), Range(a) = Range(b)
    PROVE  Len(a) = Len(b)
<1> DEFINE R == Range(a)
<1>1. ASSUME NEW c \in Seq(V), IsInjective(c), Range(c) = R
      PROVE  Cardinality(R) = Len(c)
  <2>1. c \in [1 .. Len(c) -> R] /\ DOMAIN c = 1 .. Len(c) /\ Len(c) \in Nat
    <3>1. DOMAIN c = 1 .. Len(c) /\ Len(c) \in Nat /\ c = [m \in DOMAIN c |-> c[m]]
      OBVIOUS
    <3>2. \A m \in DOMAIN c : c[m] \in R
      BY <1>1 DEF Range
    <3> HIDE DEF R
    <3> QED
      BY <3>1, <3>2
  <2>2. c \in Bijection(1 .. Len(c), R)
    BY <1>1, <2>1 DEF Bijection, Injection, Surjection, IsInjective, Range
  <2>3. ExistsBijection(1 .. Len(c), R)
    BY <2>2 DEF ExistsBijection
  <2> QED
    BY <2>1, <2>3, FS_CountingElements
<1>2. Cardinality(R) = Len(a)
  BY <1>1
<1>3. Cardinality(R) = Len(b)
  BY <1>1
<1> QED
  BY <1>2, <1>3

-----------------------------------------------------------------------------
(* Counting sort: element i of n goes to the place behind the elements of  *)
(* lower slots, h[j] < h[i], and the earlier ones of its own slot.         *)

Lower(h, n, s) == {j \in 1 .. n : h[j] < s}
Equal(h, k, s) == {j \in 1 .. k : h[j] = s}

Place(h, n, i) == Cardinality(Lower(h, n, h[i])) + Cardinality(Equal(h, i - 1, h[i])) + 1

LEMMA EqualGrows ==
    ASSUME NEW n \in Nat, NEW h, NEW k \in 1 .. n, NEW s, NEW j, j = k - 1
    PROVE  /\ Cardinality(Equal(h, j, s)) \in Nat
           /\ Cardinality(Equal(h, k, s)) =
                IF h[k] = s THEN Cardinality(Equal(h, j, s)) + 1
                ELSE Cardinality(Equal(h, j, s))
<1>1. IsFiniteSet(1 .. k - 1)
  BY FS_Interval
<1>2. Equal(h, k - 1, s) \in SUBSET (1 .. k - 1)
  BY DEF Equal
<1>3. IsFiniteSet(Equal(h, k - 1, s)) /\ k \notin Equal(h, k - 1, s)
  BY <1>1, <1>2, FS_Subset
<1>4. Equal(h, k, s) = IF h[k] = s THEN Equal(h, k - 1, s) \cup {k} ELSE Equal(h, k - 1, s)
  BY DEF Equal
<1> QED
  BY <1>3, <1>4, FS_AddElement, FS_CardinalityType

LEMMA EqualNone ==
    ASSUME NEW h, NEW s
    PROVE  Cardinality(Equal(h, 0, s)) = 0
BY FS_EmptySet DEF Equal

(* Every element has a place of its own, and below a slot's first place    *)
(* lie just the elements of lower slots.                                   *)
LEMMA CountingSort ==
    ASSUME NEW n \in Nat, NEW h \in [1 .. n -> Int]
    PROVE  /\ \A i \in 1 .. n : Place(h, n, i) \in 1 .. n
           /\ \A i, j \in 1 .. n : Place(h, n, i) = Place(h, n, j) => i = j
           /\ \A s \in Int : Cardinality(Lower(h, n, s)) \in 0 .. n
           /\ \A s \in Int : \A i \in 1 .. n :
                Place(h, n, i) <= Cardinality(Lower(h, n, s)) <=> h[i] < s
<1> DEFINE Before(i) == Lower(h, n, h[i]) \cup Equal(h, i - 1, h[i])
<1>1. IsFiniteSet(1 .. n) /\ Cardinality(1 .. n) = n
  BY FS_Interval
<1>2. ASSUME NEW i \in 1 .. n
      PROVE  /\ Before(i) \in SUBSET (1 .. n) /\ i \notin Before(i)
             /\ Place(h, n, i) = Cardinality(Before(i)) + 1
             /\ Cardinality(Before(i)) \in Nat /\ h[i] \in Int
  <2>1. /\ Lower(h, n, h[i]) \in SUBSET (1 .. n) /\ Equal(h, i - 1, h[i]) \in SUBSET (1 .. n)
        /\ Lower(h, n, h[i]) \cap Equal(h, i - 1, h[i]) = {} /\ h[i] \in Int
        /\ i \notin Lower(h, n, h[i]) /\ i \notin Equal(h, i - 1, h[i])
    BY DEF Lower, Equal
  <2> DEFINE L == Lower(h, n, h[i])
             E == Equal(h, i - 1, h[i])
  <2>2. IsFiniteSet(L) /\ IsFiniteSet(E)
    BY <1>1, <2>1, FS_Subset
  <2> HIDE DEF L, E
  <2>3. Cardinality(L \cup E) = Cardinality(L) + Cardinality(E) - Cardinality(L \cap E)
    BY <2>2, FS_Union
  <2>4. L \cap E = {} /\ Cardinality(L) \in Nat /\ Cardinality(E) \in Nat
    BY <2>1, <2>2, FS_CardinalityType DEF L, E
  <2>5. Cardinality(L \cup E) = Cardinality(L) + Cardinality(E)
    <3>1. Cardinality(L \cap E) = 0
      BY <2>4, FS_EmptySet
    <3> QED
      BY <2>3, <2>4, <3>1
  <2>6. Place(h, n, i) = Cardinality(L) + Cardinality(E) + 1 /\ Before(i) = L \cup E
    BY DEF Place, L, E
  <2> QED
    <3>1. PICK b : b = Before(i)
      OBVIOUS
    <3>2. b = L \cup E
      BY <2>6, <3>1
    <3>3. b \in SUBSET (1 .. n) /\ i \notin b
      BY <2>1, <3>2 DEF L, E
    <3>4. Cardinality(b) = Cardinality(L) + Cardinality(E)
      BY <2>5, <3>2
    <3>5. Place(h, n, i) = Cardinality(b) + 1 /\ Cardinality(b) \in Nat
      BY <2>4, <2>6, <3>4
    <3> HIDE DEF Before
    <3> QED
      BY <2>1, <3>1, <3>3, <3>5
<1>3. ASSUME NEW B \in SUBSET (1 .. n)
      PROVE  IsFiniteSet(B) /\ Cardinality(B) \in 0 .. n
  <2>1. IsFiniteSet(B) /\ Cardinality(B) <= Cardinality(1 .. n)
    BY <1>1, FS_Subset
  <2>2. Cardinality(B) \in Nat
    BY <2>1, FS_CardinalityType
  <2> QED
    BY <1>1, <2>1, <2>2
<1>4. ASSUME NEW i \in 1 .. n, NEW B \in SUBSET (1 .. n), Before(i) \subseteq B, i \in B
      PROVE  Place(h, n, i) <= Cardinality(B)
  <2>1. Before(i) \in SUBSET B /\ i \notin Before(i) /\ IsFiniteSet(B)
    BY <1>2, <1>3, <1>4
  <2> HIDE DEF Before
  <2>2. Cardinality(Before(i)) + 1 <= Cardinality(B)
    BY <1>4, <2>1, OneMore
  <2> QED
    BY <1>2, <2>2
<1>5. ASSUME NEW i \in 1 .. n PROVE Place(h, n, i) \in 1 .. n
  <2>1. Place(h, n, i) <= Cardinality(1 .. n)
    BY <1>2, <1>4
  <2>2. PICK b, x : b = Cardinality(Before(i)) /\ x = Place(h, n, i)
    OBVIOUS
  <2>3. b \in Nat /\ x = b + 1 /\ x <= n
    BY <1>1, <1>2, <2>1, <2>2
  <2> QED
    BY <2>2, <2>3
<1>6. ASSUME NEW i \in 1 .. n, NEW j \in 1 .. n, h[i] < h[j] \/ (h[i] = h[j] /\ i < j)
      PROVE  Place(h, n, i) < Place(h, n, j)
  <2>1. h[i] \in Int /\ h[j] \in Int /\ i \in Nat /\ j \in Nat
    OBVIOUS
  <2>2. i \in Before(j)
    BY <1>6, <2>1 DEF Lower, Equal
  <2>3. Before(i) \subseteq Before(j)
    <3> SUFFICES ASSUME NEW k \in Before(i) PROVE k \in Before(j)
      OBVIOUS
    <3>1. /\ k \in 1 .. n /\ h[k] \in Int
          /\ h[k] < h[i] \/ (h[k] = h[i] /\ k <= i - 1)
      BY <1>2 DEF Lower, Equal
    <3>2. h[k] < h[j] \/ (h[k] = h[j] /\ k <= j - 1)
      BY <1>6, <2>1, <3>1
    <3> QED
      BY <3>1, <3>2 DEF Lower, Equal
  <2>4. Place(h, n, i) <= Cardinality(Before(j)) /\ Before(j) \in SUBSET (1 .. n)
    BY <1>2, <1>4, <2>2, <2>3
  <2>5. Place(h, n, j) = Cardinality(Before(j)) + 1 /\ Cardinality(Before(j)) \in Nat
    BY <1>2
  <2>6. Place(h, n, i) \in 1 .. n
    BY <1>5
  <2> QED
    BY <2>4, <2>5, <2>6
<1>7. ASSUME NEW i \in 1 .. n, NEW j \in 1 .. n, Place(h, n, i) = Place(h, n, j) PROVE i = j
  <2>1. Place(h, n, i) \in 1 .. n /\ h[i] \in Int /\ h[j] \in Int
    BY <1>5
  <2>2. ~ (h[i] < h[j] \/ (h[i] = h[j] /\ i < j)) /\ ~ (h[j] < h[i] \/ (h[j] = h[i] /\ j < i))
    BY <1>6, <1>7, <2>1
  <2> QED
    BY <2>1, <2>2
<1>8. ASSUME NEW s \in Int, NEW i \in 1 .. n
      PROVE  Place(h, n, i) <= Cardinality(Lower(h, n, s)) <=> h[i] < s
  <2>1. Lower(h, n, s) \in SUBSET (1 .. n) /\ h[i] \in Int
    BY DEF Lower
  <2>2. CASE h[i] < s
    <3>1. Before(i) \subseteq Lower(h, n, s) /\ i \in Lower(h, n, s)
      <4> SUFFICES ASSUME NEW k \in Before(i) PROVE k \in Lower(h, n, s)
        BY <2>2 DEF Lower
      <4>1. k \in 1 .. n /\ h[k] \in Int /\ h[k] <= h[i]
        BY <1>2 DEF Lower, Equal
      <4> QED
        BY <2>1, <2>2, <4>1 DEF Lower
    <3> QED
      BY <1>4, <2>1, <2>2, <3>1
  <2>3. CASE ~ (h[i] < s)
    <3>1. Lower(h, n, s) \subseteq Before(i)
      <4> SUFFICES ASSUME NEW k \in Lower(h, n, s) PROVE k \in Before(i)
        OBVIOUS
      <4>1. k \in 1 .. n /\ h[k] \in Int /\ h[k] < s
        BY DEF Lower
      <4>2. h[k] < h[i]
        BY <2>1, <2>3, <4>1
      <4> QED
        BY <4>1, <4>2 DEF Lower
    <3>2. Lower(h, n, s) \in SUBSET Before(i) /\ IsFiniteSet(Before(i))
      BY <1>2, <1>3, <3>1
    <3>3. Cardinality(Lower(h, n, s)) <= Cardinality(Before(i))
      BY <3>2, FS_Subset
    <3>4. Cardinality(Lower(h, n, s)) \in Nat
      BY <1>3, <2>1
    <3> QED
      BY <1>2, <2>3, <3>3, <3>4
  <2> QED
    BY <2>2, <2>3
<1>9. \A s \in Int : Cardinality(Lower(h, n, s)) \in 0 .. n
  BY <1>3 DEF Lower
<1> QED
  BY <1>5, <1>7, <1>8, <1>9

(* The length of a concatenation depends on the lengths alone. *)
LEMMA FlattenLength ==
    ASSUME NEW V, NEW W, NEW a \in Seq(Seq(V)), NEW b \in Seq(Seq(W)), Shape(a) = Shape(b)
    PROVE  Len(FlattenSeq(a)) = Len(FlattenSeq(b))
<1> DEFINE n == Len(a)
<1>1. PICK f : /\ f[0] = <<>>
               /\ \A m \in 1 .. n : f[m] = f[m - 1] \o a[m]
               /\ FlattenSeq(a) = f[n]
  BY FlattenSteps
<1>2. Len(b) = n
  BY ShapeIsSeq
<1>3. PICK g : /\ g[0] = <<>>
               /\ \A m \in 1 .. n : g[m] = g[m - 1] \o b[m]
               /\ FlattenSeq(b) = g[n]
  <2>1. PICK g : /\ g[0] = <<>>
                 /\ \A m \in 1 .. Len(b) : g[m] = g[m - 1] \o b[m]
                 /\ FlattenSeq(b) = g[Len(b)]
    BY FlattenSteps
  <2> QED
    BY <1>2, <2>1
<1>4. /\ n \in Nat
      /\ \A m \in 1 .. n : a[m] \in Seq(V) /\ b[m] \in Seq(W) /\ Len(a[m]) = Len(b[m])
  <2>1. /\ \A m \in 1 .. n : Shape(a)[m] = Len(a[m])
        /\ \A m \in 1 .. n : Shape(b)[m] = Len(b[m])
    BY <1>2, ShapeIsSeq
  <2>2. \A m \in 1 .. n : a[m] \in Seq(V) /\ b[m] \in Seq(W)
    BY <1>2
  <2> QED
    BY <2>1, <2>2
<1> HIDE DEF n
<1> DEFINE M == {m \in Nat : f[m] \in Seq(V) /\ g[m] \in Seq(W) /\ Len(f[m]) = Len(g[m])}
<1>5. 0 \in M
  <2>1. PICK e : e = <<>>
    OBVIOUS
  <2>2. e \in Seq(V) /\ e \in Seq(W) /\ f[0] = e /\ g[0] = e
    BY <1>1, <1>3, <2>1
  <2> QED
    BY <2>2
<1>6. ASSUME NEW m \in 0 .. n - 1, m \in M PROVE m + 1 \in M
  <2>1. m + 1 \in 1 .. n /\ (m + 1) - 1 = m /\ m + 1 \in Nat
    BY <1>4
  <2>2. PICK u, v, x, y : u = f[m] /\ v = a[m + 1] /\ x = g[m] /\ y = b[m + 1]
    OBVIOUS
  <2>3. f[m + 1] = u \o v /\ g[m + 1] = x \o y
    BY <1>1, <1>3, <2>1, <2>2
  <2>4. /\ u \in Seq(V) /\ v \in Seq(V) /\ x \in Seq(W) /\ y \in Seq(W)
        /\ Len(u) = Len(x) /\ Len(v) = Len(y)
    BY <1>4, <1>6, <2>1, <2>2
  <2>5. u \o v \in Seq(V) /\ Len(u \o v) = Len(u) + Len(v)
    BY <2>4, Concatenation
  <2>6. x \o y \in Seq(W) /\ Len(x \o y) = Len(x) + Len(y)
    BY <2>4, Concatenation
  <2> QED
    BY <2>1, <2>3, <2>4, <2>5, <2>6
<1>7. n \in M
  <2> HIDE DEF M
  <2>1. \A m \in 0 .. n : m \in M
    BY <1>4, <1>5, <1>6, UpTo
  <2> QED
    BY <1>4, <2>1
<1> QED
  BY <1>1, <1>3, <1>7

(* Values that fill pages from the first one on: every slot has one of     *)
(* them, and the pages depend on their number alone.                       *)
LEMMA FilledPages ==
    ASSUME NEW V, NEW slots \in Nat \ {0},
           NEW a \in Seq(V), NEW b \in Seq(V), Len(a) = Len(b)
    PROVE  /\ append_all(<<>>, a, slots) \in Seq(Seq(V))
           /\ PagesWithin(append_all(<<>>, a, slots), slots)
           /\ Shape(append_all(<<>>, a, slots)) = Shape(append_all(<<>>, b, slots))
           /\ \A p \in 1 .. Len(append_all(<<>>, a, slots)) :
                Range(append_all(<<>>, a, slots)[p]) \subseteq Range(a)
<1> DEFINE C == {1, 2}
           cols == [c \in C |-> <<>>]
           vals == [c \in C |-> IF c = 1 THEN a ELSE b]
           n == Len(a)
           shape == Shape(<<>>)
<1>1. C # {} /\ 1 \in C /\ 2 \in C /\ n \in Nat /\ DOMAIN a = 1 .. n
  OBVIOUS
<1>2. cols \in [C -> Seq(Seq(V))] /\ \A c \in C : cols[c] = <<>>
  OBVIOUS
<1>3. \A c \in C : vals[c] \in Seq(V) /\ Len(vals[c]) = n
  OBVIOUS
<1>4. \A c \in C : PagesWithin(cols[c], slots) /\ Shape(cols[c]) = shape
  BY <1>2 DEF PagesWithin
<1>5. vals[1] = a /\ vals[2] = b
  BY <1>1
<1> HIDE DEF C, cols, vals, n, shape
<1>6. PICK after, box : Filled(C, V, slots, cols, vals, n, after, box)
  BY <1>1, <1>2, <1>3, <1>4, AppendColumns
<1>7. PICK new, other : new = append_all(<<>>, a, slots) /\ other = append_all(<<>>, b, slots)
  OBVIOUS
<1>8. /\ new \in Seq(Seq(V)) /\ PagesWithin(new, slots) /\ Shape(new) = after
      /\ Boxes(new) = Boxes(<<>>) \cup {box[m] : m \in 1 .. n}
      /\ \A m \in 1 .. n : new[box[m][1]][box[m][2]] = a[m]
  <2>1. append_all(cols[1], vals[1], slots) = new /\ cols[1] = <<>> /\ vals[1] = a
    BY <1>1, <1>2, <1>5, <1>7
  <2>2. LET page == append_all(cols[1], vals[1], slots)
        IN  /\ page \in Seq(Seq(V)) /\ PagesWithin(page, slots)
            /\ Shape(page) = after
            /\ Boxes(page) = Boxes(cols[1]) \cup {box[m] : m \in 1 .. n}
            /\ \A m \in 1 .. n : page[box[m][1]][box[m][2]] = vals[1][m]
    BY <1>1, <1>6 DEF Filled
  <2> QED
    BY <2>1, <2>2
<1>9. Shape(other) = after
  <2>1. append_all(cols[2], vals[2], slots) = other
    BY <1>1, <1>2, <1>5, <1>7
  <2>2. Shape(append_all(cols[2], vals[2], slots)) = after
    BY <1>1, <1>6 DEF Filled
  <2> QED
    BY <2>1, <2>2
<1>10. ASSUME NEW p \in 1 .. Len(new) PROVE Range(new[p]) \subseteq Range(a)
  <2>1. DOMAIN new = 1 .. Len(new) /\ new[p] \in Seq(V) /\ DOMAIN new[p] = 1 .. Len(new[p])
    BY <1>8
  <2> SUFFICES ASSUME NEW s \in 1 .. Len(new[p]) PROVE new[p][s] \in Range(a)
    BY <2>1 DEF Range
  <2>2. <<p, s>> \in Boxes(new)
    BY <2>1, InBoxes
  <2>3. <<p, s>> \notin Boxes(<<>>)
    BY DEF Boxes
  <2>4. PICK m \in 1 .. n : <<p, s>> = box[m]
    BY <1>8, <2>2, <2>3
  <2>5. box[m][1] = p /\ box[m][2] = s
    BY <2>4
  <2>6. new[p][s] = a[m]
    BY <1>8, <2>5
  <2> QED
    BY <1>1, <2>6 DEF Range
<1> QED
  BY <1>7, <1>8, <1>9, <1>10

(* Pages put one after the other stay as they are. *)
LEMMA FlattenPages ==
    ASSUME NEW V, NEW slots, NEW parts \in Seq(Seq(Seq(V))),
           \A m \in 1 .. Len(parts) : PagesWithin(parts[m], slots)
    PROVE  /\ FlattenSeq(parts) \in Seq(Seq(V)) /\ PagesWithin(FlattenSeq(parts), slots)
           /\ \A p \in 1 .. Len(FlattenSeq(parts)) :
                \E m \in 1 .. Len(parts) : \E q \in 1 .. Len(parts[m]) :
                    FlattenSeq(parts)[p] = parts[m][q]
<1>1. PICK pages : pages = FlattenSeq(parts)
  OBVIOUS
<1>2. pages \in Seq(Seq(V)) /\ Range(pages) = UNION {Range(parts[m]) : m \in 1 .. Len(parts)}
  <2>1. PICK W : W = Seq(V)
    OBVIOUS
  <2>2. parts \in Seq(Seq(W))
    BY <2>1
  <2>3. /\ FlattenSeq(parts) \in Seq(W)
        /\ Range(FlattenSeq(parts)) = UNION {Range(parts[m]) : m \in 1 .. Len(parts)}
    BY <2>2, FlattenRange
  <2> QED
    BY <1>1, <2>1, <2>3
<1>3. DOMAIN pages = 1 .. Len(pages)
  BY <1>2
<1>4. ASSUME NEW p \in 1 .. Len(pages)
      PROVE  \E m \in 1 .. Len(parts) : \E q \in 1 .. Len(parts[m]) : pages[p] = parts[m][q]
  <2>1. pages[p] \in Range(pages)
    BY <1>3 DEF Range
  <2>2. PICK m \in 1 .. Len(parts) : pages[p] \in Range(parts[m])
    BY <1>2, <2>1
  <2>3. parts[m] \in Seq(Seq(V))
    OBVIOUS
  <2>4. DOMAIN parts[m] = 1 .. Len(parts[m])
    BY <2>3
  <2> QED
    BY <2>2, <2>4 DEF Range
<1>5. PagesWithin(pages, slots)
  <2> SUFFICES ASSUME NEW p \in 1 .. Len(pages) PROVE Len(pages[p]) \in 1 .. slots
    BY <1>3 DEF PagesWithin
  <2>1. PICK m \in 1 .. Len(parts) : \E k \in 1 .. Len(parts[m]) : pages[p] = parts[m][k]
    BY <1>4
  <2>2. PICK q \in 1 .. Len(parts[m]) : pages[p] = parts[m][q]
    BY <2>1
  <2>3. parts[m] \in Seq(Seq(V))
    OBVIOUS
  <2>4. DOMAIN parts[m] = 1 .. Len(parts[m]) /\ PagesWithin(parts[m], slots)
    BY <2>3
  <2> QED
    BY <2>2, <2>4 DEF PagesWithin
<1> QED
  BY <1>1, <1>2, <1>4, <1>5

(* Two sequences put together of parts with the same counts: what is at    *)
(* one place of one is from the same part and place as in the other.       *)
Together(a, b, fa, fb) ==
    /\ Len(fa) = Len(fb)
    /\ \A r \in 1 .. Len(fa) : \E p \in 1 .. Len(a) : \E i \in 1 .. Len(a[p]) :
         fa[r] = a[p][i] /\ fb[r] = b[p][i]

LEMMA FlattenTogether ==
    ASSUME NEW V, NEW W, NEW a \in Seq(Seq(V)), NEW b \in Seq(Seq(W)), Shape(a) = Shape(b)
    PROVE  Together(a, b, FlattenSeq(a), FlattenSeq(b))
<1> DEFINE n == Len(a)
<1>1. PICK f : /\ f[0] = <<>>
               /\ \A m \in 1 .. n : f[m] = f[m - 1] \o a[m]
               /\ FlattenSeq(a) = f[n]
  BY FlattenSteps
<1>2. Len(b) = n
  BY ShapeIsSeq
<1>3. PICK g : /\ g[0] = <<>>
               /\ \A m \in 1 .. n : g[m] = g[m - 1] \o b[m]
               /\ FlattenSeq(b) = g[n]
  <2>1. PICK g : /\ g[0] = <<>>
                 /\ \A m \in 1 .. Len(b) : g[m] = g[m - 1] \o b[m]
                 /\ FlattenSeq(b) = g[Len(b)]
    BY FlattenSteps
  <2> QED
    BY <1>2, <2>1
<1>4. /\ n \in Nat
      /\ \A m \in 1 .. n : a[m] \in Seq(V) /\ b[m] \in Seq(W) /\ Len(a[m]) = Len(b[m])
  <2>1. /\ \A m \in 1 .. n : Shape(a)[m] = Len(a[m])
        /\ \A m \in 1 .. n : Shape(b)[m] = Len(b[m])
    BY <1>2, ShapeIsSeq
  <2>2. \A m \in 1 .. n : a[m] \in Seq(V) /\ b[m] \in Seq(W)
    BY <1>2
  <2> QED
    BY <2>1, <2>2
<1> HIDE DEF n
<1> DEFINE Paired(m) == \A r \in 1 .. Len(f[m]) : \E p \in 1 .. n : \E i \in 1 .. Len(a[p]) :
                          f[m][r] = a[p][i] /\ g[m][r] = b[p][i]
           M == {m \in Nat : /\ f[m] \in Seq(V) /\ g[m] \in Seq(W)
                             /\ Len(f[m]) = Len(g[m]) /\ Paired(m)}
<1>5. 0 \in M
  <2>1. PICK e : e = <<>>
    OBVIOUS
  <2>2. e \in Seq(V) /\ e \in Seq(W) /\ Len(e) = 0
    BY <2>1
  <2>3. 1 .. Len(e) = {}
    BY <2>2
  <2> QED
    BY <1>1, <1>3, <2>1, <2>2, <2>3
<1>6. \A m \in 0 .. n - 1 : m \in M => m + 1 \in M
  <2> SUFFICES ASSUME NEW m \in 0 .. n - 1, m \in M PROVE m + 1 \in M
    OBVIOUS
  <2>1. f[m] \in Seq(V) /\ g[m] \in Seq(W) /\ Len(f[m]) = Len(g[m]) /\ Paired(m)
    OBVIOUS
  <2>2. PICK k : k = m + 1 /\ k \in 1 .. n /\ k - 1 = m
    BY <1>4
  <2>3. f[k] = f[m] \o a[k] /\ g[k] = g[m] \o b[k]
    BY <1>1, <1>3, <2>2
  <2>4. a[k] \in Seq(V) /\ b[k] \in Seq(W) /\ Len(a[k]) = Len(b[k])
    BY <1>4, <2>2
  <2>5. PICK l \in Nat : l = Len(f[m])
    BY <2>1
  <2>6. PICK x \in Nat : x = Len(a[k])
    BY <2>4
  <2>7. /\ f[k] \in Seq(V) /\ Len(f[k]) = l + x
        /\ \A r \in 1 .. l : f[k][r] = f[m][r]
        /\ \A i \in 1 .. x : f[k][l + i] = a[k][i]
    <3>1. PICK s : s = f[m]
      OBVIOUS
    <3>2. PICK t : t = a[k]
      OBVIOUS
    <3>3. s \in Seq(V) /\ t \in Seq(V) /\ l = Len(s) /\ x = Len(t) /\ f[k] = s \o t
      BY <2>1, <2>3, <2>4, <2>5, <2>6, <3>1, <3>2
    <3>4. /\ s \o t \in Seq(V) /\ Len(s \o t) = l + x
          /\ \A r \in 1 .. l : (s \o t)[r] = s[r]
          /\ \A i \in 1 .. x : (s \o t)[l + i] = t[i]
      <4>1. s \in Seq(V) /\ t \in Seq(V) /\ l = Len(s) /\ x = Len(t)
        BY <3>3
      <4> QED
        BY ONLY <4>1, ConcatenationAt
    <3> QED
      BY <3>1, <3>2, <3>3, <3>4
  <2>8. /\ g[k] \in Seq(W) /\ Len(g[k]) = l + x
        /\ \A r \in 1 .. l : g[k][r] = g[m][r]
        /\ \A i \in 1 .. x : g[k][l + i] = b[k][i]
    <3>1. PICK s : s = g[m]
      OBVIOUS
    <3>2. PICK t : t = b[k]
      OBVIOUS
    <3>3. s \in Seq(W) /\ t \in Seq(W) /\ l = Len(s) /\ x = Len(t) /\ g[k] = s \o t
      BY <2>1, <2>3, <2>4, <2>5, <2>6, <3>1, <3>2
    <3>4. /\ s \o t \in Seq(W) /\ Len(s \o t) = l + x
          /\ \A r \in 1 .. l : (s \o t)[r] = s[r]
          /\ \A i \in 1 .. x : (s \o t)[l + i] = t[i]
      <4>1. s \in Seq(W) /\ t \in Seq(W) /\ l = Len(s) /\ x = Len(t)
        BY <3>3
      <4> QED
        BY ONLY <4>1, ConcatenationAt
    <3> QED
      BY <3>1, <3>2, <3>3, <3>4
  <2>9. ASSUME NEW r \in 1 .. l + x
        PROVE  \E p \in 1 .. n : \E i \in 1 .. Len(a[p]) :
                 f[k][r] = a[p][i] /\ g[k][r] = b[p][i]
    <3>1. CASE r \in 1 .. l
      <4>1. f[k][r] = f[m][r] /\ g[k][r] = g[m][r]
        BY <2>7, <2>8, <3>1
      <4>2. \E p \in 1 .. n : \E i \in 1 .. Len(a[p]) : f[m][r] = a[p][i] /\ g[m][r] = b[p][i]
        BY <2>1, <2>5, <3>1
      <4> QED
        BY <4>1, <4>2
    <3>2. CASE r \notin 1 .. l
      <4>1. PICK i : i = r - l
        OBVIOUS
      <4>2. i \in 1 .. x /\ r = l + i
        BY <3>2, <4>1
      <4>3. f[k][r] = a[k][i] /\ g[k][r] = b[k][i]
        BY <2>7, <2>8, <4>2
      <4> QED
        BY <2>2, <2>6, <4>2, <4>3
    <3> QED
      BY <3>1, <3>2
  <2>10. Paired(k)
    BY <2>7, <2>9
  <2> HIDE DEF Paired
  <2> QED
    BY <2>2, <2>7, <2>8, <2>10
<1>7. \A m \in 0 .. n : m \in M
  <2> HIDE DEF M
  <2> QED
    BY <1>4, <1>5, <1>6, UpTo
<1>8. n \in M
  <2> HIDE DEF M
  <2> QED
    BY <1>4, <1>7
<1> QED
  BY <1>1, <1>3, <1>8 DEF Together, n

(* The set bits before row i. *)
LEMMA BitsBefore ==
    ASSUME NEW bitmap \in SUBSET Nat, NEW i \in Nat
    PROVE  /\ IsFiniteSet({b \in bitmap : b < i})
           /\ Cardinality({b \in bitmap : b < i}) \in Nat
<1>1. IsFiniteSet(0 .. i)
  BY FS_Interval
<1>2. {b \in bitmap : b < i} \in SUBSET (0 .. i)
  <2>1. ASSUME NEW b \in bitmap, b < i PROVE b \in 0 .. i
    BY <2>1
  <2> QED
    BY <2>1
<1>3. IsFiniteSet({b \in bitmap : b < i})
  BY <1>1, <1>2, FS_Subset
<1> QED
  BY <1>3, FS_CardinalityType

(* Sequences are compared item by item. *)
LEMMA EqualSeqs ==
    ASSUME NEW T, NEW a \in Seq(T), NEW b \in Seq(T), Len(a) = Len(b),
           \A i \in 1 .. Len(a) : a[i] = b[i]
    PROVE  a = b
OBVIOUS

(* Two neighbouring parts of a sequence, put together. *)
LEMMA SubSeqParts ==
    ASSUME NEW V, NEW s \in Seq(V), NEW a \in 0 .. Len(s), NEW b \in 0 .. Len(s), a <= b
    PROVE  /\ SubSeq(s, 1, a) \o SubSeq(s, a + 1, b) = SubSeq(s, 1, b)
           /\ SubSeq(s, a + 1, b) \in Seq(V)
           /\ SubSeq(s, 1, Len(s)) = s /\ SubSeq(s, 1, 0) = <<>>
<1>1. PICK x : x = SubSeq(s, 1, a)
  OBVIOUS
<1>2. PICK y : y = SubSeq(s, a + 1, b)
  OBVIOUS
<1>3. PICK z : z = SubSeq(s, 1, b)
  OBVIOUS
<1>4. x \in Seq(V) /\ Len(x) = a /\ \A i \in 1 .. a : x[i] = s[i]
  BY <1>1
<1>5. y \in Seq(V) /\ Len(y) = b - a /\ \A i \in 1 .. b - a : y[i] = s[a + i]
  BY <1>2
<1>6. z \in Seq(V) /\ Len(z) = b /\ \A i \in 1 .. b : z[i] = s[i]
  BY <1>3
<1>7. /\ x \o y \in Seq(V) /\ Len(x \o y) = b
      /\ \A i \in 1 .. a : (x \o y)[i] = x[i]
      /\ \A i \in 1 .. b - a : (x \o y)[a + i] = y[i]
  <2>1. PICK k \in Nat : k = b - a
    OBVIOUS
  <2>2. /\ x \o y \in Seq(V) /\ Len(x \o y) = a + k
        /\ \A i \in 1 .. a : (x \o y)[i] = x[i]
        /\ \A i \in 1 .. k : (x \o y)[a + i] = y[i]
    <3>1. x \in Seq(V) /\ y \in Seq(V) /\ a = Len(x) /\ k = Len(y)
      BY <1>4, <1>5, <2>1
    <3> QED
      BY ONLY <3>1, ConcatenationAt
  <2> QED
    BY <2>1, <2>2
<1>8. ASSUME NEW i \in 1 .. b PROVE (x \o y)[i] = z[i]
  <2>1. CASE i <= a
    <3>1. i \in 1 .. a
      BY <2>1
    <3> QED
      BY <1>4, <1>6, <1>7, <3>1
  <2>2. CASE a < i
    <3>1. PICK j : j = i - a
      OBVIOUS
    <3>2. j \in 1 .. b - a /\ a + j = i
      BY <2>2, <3>1
    <3> QED
      BY <1>5, <1>6, <1>7, <3>2
  <2>3. a \in Int /\ i \in Int
    OBVIOUS
  <2>4. i <= a \/ a < i
    BY <2>3
  <2> QED
    BY <2>1, <2>2, <2>4
<1>9. x \o y = z
  BY <1>6, <1>7, <1>8, EqualSeqs
<1>10. SubSeq(s, 1, Len(s)) = s /\ SubSeq(s, 1, 0) = <<>>
  OBVIOUS
<1> QED
  BY <1>1, <1>2, <1>3, <1>5, <1>9, <1>10

(* A part of two sequences put together that lies in the first of them, or *)
(* is the second.                                                          *)
LEMMA PartOfConcat ==
    ASSUME NEW V, NEW a \in Seq(V), NEW b \in Seq(V), NEW i \in Nat, NEW j \in 0 .. Len(a)
    PROVE  /\ SubSeq(a \o b, i + 1, j) = SubSeq(a, i + 1, j)
           /\ SubSeq(a \o b, Len(a) + 1, Len(a) + Len(b)) = b
<1>1. PICK c : c = a \o b
  OBVIOUS
<1>2. PICK n \in Nat : n = Len(a)
  OBVIOUS
<1>3. PICK k \in Nat : k = Len(b)
  OBVIOUS
<1>4. /\ c \in Seq(V) /\ Len(c) = n + k
      /\ \A p \in 1 .. n : c[p] = a[p]
      /\ \A p \in 1 .. k : c[n + p] = b[p]
  BY <1>1, <1>2, <1>3, ConcatenationAt
<1>5. SubSeq(c, i + 1, j) = SubSeq(a, i + 1, j)
  <2>1. \A x \in i + 1 .. j : c[x] \in V /\ a[x] \in V /\ c[x] = a[x]
    BY <1>2, <1>4
  <2>2. PICK x : x = SubSeq(c, i + 1, j)
    OBVIOUS
  <2>3. PICK y : y = SubSeq(a, i + 1, j)
    OBVIOUS
  <2>4. PICK l : l = IF i + 1 <= j THEN j - (i + 1) + 1 ELSE 0
    OBVIOUS
  <2>5. i + 1 \in Int /\ j \in Int
    BY <1>2
  <2>6. /\ x \in Seq(V) /\ Len(x) = l
        /\ \A p \in 1 .. l : x[p] = c[i + p]
    BY <2>1, <2>2, <2>4, <2>5, SubSeqProperties
  <2>7. /\ y \in Seq(V) /\ Len(y) = l
        /\ \A p \in 1 .. l : y[p] = a[i + p]
    BY <2>1, <2>3, <2>4, <2>5, SubSeqProperties
  <2>8. ASSUME NEW p \in 1 .. l PROVE x[p] = y[p]
    <3>1. i + p \in i + 1 .. j
      BY <1>2, <2>4
    <3> QED
      BY <2>1, <2>6, <2>7, <3>1
  <2> QED
    BY <2>2, <2>3, <2>6, <2>7, <2>8, EqualSeqs
<1>6. SubSeq(c, n + 1, n + k) = b
  <2>1. PICK x : x = SubSeq(c, n + 1, n + k)
    OBVIOUS
  <2>2. x \in Seq(V) /\ Len(x) = k /\ \A p \in 1 .. k : x[p] = c[n + p]
    <3>1. \A p \in n + 1 .. n + k : c[p] \in V
      BY <1>4
    <3>2. n + 1 \in Int /\ n + k \in Int
      OBVIOUS
    <3>3. PICK m \in Nat : m = n + k
      OBVIOUS
    <3>4. /\ x \in Seq(V) /\ Len(x) = IF n + 1 <= m THEN m - (n + 1) + 1 ELSE 0
          /\ \A p \in 1 .. m - (n + 1) + 1 : x[p] = c[n + 1 + p - 1]
      BY <2>1, <3>1, <3>2, <3>3, SubSeqProperties
    <3>5. Len(x) = k /\ m - (n + 1) + 1 = k
      BY <3>3, <3>4
    <3> QED
      BY <3>4, <3>5
  <2>3. \A p \in 1 .. k : x[p] = b[p]
    BY <1>4, <2>2
  <2> QED
    BY <1>3, <2>1, <2>2, <2>3, EqualSeqs
<1> QED
  BY <1>1, <1>2, <1>3, <1>5, <1>6

-----------------------------------------------------------------------------
(* Pages with a function of each value.                                    *)

(* Values appended after others, one after the other.                      *)
LEMMA AppendAllTwice ==
    ASSUME NEW V, NEW a \in Seq(V), NEW b \in Seq(V), NEW pages, NEW slots
    PROVE  append_all(append_all(pages, a, slots), b, slots) = append_all(pages, a \o b, slots)
<1>1. PICK f : /\ f[0] = pages
               /\ \A m \in 1 .. Len(a) : f[m] = append(f[m - 1], a[m], slots)
               /\ append_all(pages, a, slots) = f[Len(a)]
  BY FoldSteps
<1>2. PICK middle : middle = append_all(pages, a, slots)
  OBVIOUS
<1>3. PICK g : /\ g[0] = middle
               /\ \A m \in 1 .. Len(b) : g[m] = append(g[m - 1], b[m], slots)
               /\ append_all(middle, b, slots) = g[Len(b)]
  BY FoldSteps
<1>4. PICK n, k, c : n = Len(a) /\ k = Len(b) /\ c = a \o b
  OBVIOUS
<1>5. /\ n \in Nat /\ k \in Nat /\ c \in Seq(V) /\ Len(c) = n + k
      /\ \A m \in 1 .. n : c[m] = a[m]
      /\ \A m \in 1 .. k : c[n + m] = b[m]
  BY <1>4, ConcatenationAt
<1>6. PICK h : /\ h[0] = pages
               /\ \A m \in 1 .. Len(c) : h[m] = append(h[m - 1], c[m], slots)
               /\ append_all(pages, c, slots) = h[Len(c)]
  <2>1. c \in Seq(V)
    BY <1>5
  <2> QED
    BY <2>1, FoldSteps
<1>7. h[n] = f[n]
  <2> DEFINE M == {m \in Nat : h[m] = f[m]}
  <2>1. 0 \in M
    BY <1>1, <1>6
  <2>2. ASSUME NEW m \in 0 .. n - 1, m \in M PROVE m + 1 \in M
    <3>1. m + 1 \in 1 .. n /\ m + 1 \in 1 .. Len(c) /\ (m + 1) - 1 = m /\ m + 1 \in Nat
      BY <1>5
    <3>2. h[m + 1] = append(h[m], c[m + 1], slots)
      BY <1>6, <3>1
    <3>3. f[m + 1] = append(f[m], a[m + 1], slots)
      BY <1>1, <1>4, <3>1
    <3> QED
      BY <2>2, <3>1, <3>2, <3>3, <1>5
  <2> HIDE DEF M
  <2>3. \A m \in 0 .. n : m \in M
    BY <1>5, <2>1, <2>2, UpTo
  <2> QED
    BY <1>5, <2>3 DEF M
<1>8. h[n + k] = g[k]
  <2> DEFINE M == {m \in Nat : h[n + m] = g[m]}
  <2>1. 0 \in M
    BY <1>1, <1>2, <1>3, <1>4, <1>5, <1>7
  <2>2. ASSUME NEW m \in 0 .. k - 1, m \in M PROVE m + 1 \in M
    <3>1. /\ m + 1 \in 1 .. k /\ (m + 1) - 1 = m /\ m + 1 \in Nat
          /\ n + (m + 1) \in 1 .. Len(c) /\ (n + (m + 1)) - 1 = n + m
      BY <1>5
    <3>2. h[n + (m + 1)] = append(h[n + m], c[n + (m + 1)], slots)
      BY <1>6, <3>1
    <3>3. g[m + 1] = append(g[m], b[m + 1], slots)
      BY <1>3, <1>4, <3>1
    <3> QED
      BY <2>2, <3>1, <3>2, <3>3, <1>5
  <2> HIDE DEF M
  <2>3. \A m \in 0 .. k : m \in M
    BY <1>5, <2>1, <2>2, UpTo
  <2> QED
    BY <1>5, <2>3 DEF M
<1> QED
  BY <1>2, <1>3, <1>4, <1>5, <1>6, <1>8

(* f takes the values of V to values of W. *)
Maps(f, V, W) == \A v \in V : f[v] \in W

(* Pages with f of each value. *)
MapPages(f, pages) ==
    [p \in 1 .. Len(pages) |-> [s \in 1 .. Len(pages[p]) |-> f[pages[p][s]]]]

LEMMA MapPagesType ==
    ASSUME NEW V, NEW W, NEW f, Maps(f, V, W), NEW pages \in Seq(Seq(V))
    PROVE  /\ MapPages(f, pages) \in Seq(Seq(W))
           /\ Len(MapPages(f, pages)) = Len(pages)
           /\ \A p \in 1 .. Len(pages) :
                /\ MapPages(f, pages)[p] \in Seq(W)
                /\ Len(MapPages(f, pages)[p]) = Len(pages[p])
                /\ \A s \in 1 .. Len(pages[p]) : MapPages(f, pages)[p][s] = f[pages[p][s]]
<1> DEFINE new == MapPages(f, pages)
<1>1. new = [p \in 1 .. Len(pages) |-> new[p]]
  BY DEF MapPages
<1>2. ASSUME NEW p \in 1 .. Len(pages)
      PROVE  /\ new[p] = [s \in 1 .. Len(pages[p]) |-> f[pages[p][s]]]
             /\ pages[p] \in Seq(V)
  BY DEF MapPages
<1>3. ASSUME NEW p \in 1 .. Len(pages)
      PROVE  /\ new[p] \in Seq(W) /\ Len(new[p]) = Len(pages[p])
             /\ \A s \in 1 .. Len(pages[p]) : new[p][s] = f[pages[p][s]]
  <2>1. PICK page : page = new[p]
    OBVIOUS
  <2>2. page = [s \in 1 .. Len(pages[p]) |-> f[pages[p][s]]] /\ pages[p] \in Seq(V)
    BY <1>2, <2>1
  <2>3. \A s \in 1 .. Len(pages[p]) : page[s] = f[pages[p][s]] /\ page[s] \in W
    BY <2>2 DEF Maps
  <2>4. page = [s \in 1 .. Len(pages[p]) |-> page[s]] /\ Len(pages[p]) \in Nat
    BY <2>2
  <2>5. page \in Seq(W) /\ Len(page) = Len(pages[p])
    BY <2>3, <2>4, IsSeq
  <2> QED
    BY <2>1, <2>3, <2>5
<1>4. Len(pages) \in Nat
  OBVIOUS
<1> HIDE DEF new
<1>5. new \in Seq(Seq(W)) /\ Len(new) = Len(pages)
  BY <1>1, <1>3, <1>4, IsSeq
<1> QED
  BY <1>3, <1>5 DEF new

(* Pages whose values are those are these. *)
IsMap(new, f, pages) ==
    /\ Len(new) = Len(pages)
    /\ \A p \in 1 .. Len(pages) :
         /\ Len(new[p]) = Len(pages[p])
         /\ \A s \in 1 .. Len(pages[p]) : new[p][s] = f[pages[p][s]]

LEMMA MapPagesIs ==
    ASSUME NEW V, NEW W, NEW f, Maps(f, V, W), NEW pages \in Seq(Seq(V)),
           NEW new \in Seq(Seq(W)), IsMap(new, f, pages)
    PROVE  new = MapPages(f, pages)
<1>1. PICK mapped, n : mapped = MapPages(f, pages) /\ n = Len(pages)
  OBVIOUS
<1>2. /\ mapped \in Seq(Seq(W)) /\ Len(mapped) = n
      /\ \A p \in 1 .. n : /\ mapped[p] \in Seq(W)
                           /\ Len(mapped[p]) = Len(pages[p])
                           /\ \A s \in 1 .. Len(pages[p]) : mapped[p][s] = f[pages[p][s]]
  BY <1>1, MapPagesType
<1>3. Len(new) = n
  BY <1>1 DEF IsMap
<1>4. ASSUME NEW p \in 1 .. n PROVE new[p] = mapped[p]
  <2>1. PICK a, b, k : a = new[p] /\ b = mapped[p] /\ k = Len(pages[p])
    OBVIOUS
  <2>2. a \in Seq(W) /\ b \in Seq(W)
    BY <1>2, <1>3, <2>1
  <2>3. Len(a) = k /\ \A s \in 1 .. k : a[s] = f[pages[p][s]]
    BY <1>1, <2>1 DEF IsMap
  <2>4. Len(b) = k /\ \A s \in 1 .. k : b[s] = f[pages[p][s]]
    BY <1>2, <2>1
  <2>5. a = b
    BY <2>2, <2>3, <2>4, EqualSeqs
  <2> QED
    BY <2>1, <2>5
<1>5. new = mapped
  BY <1>2, <1>3, <1>4, EqualSeqs
<1> QED
  BY <1>1, <1>5

(* Appending f of a value to pages of f is appending the value first. *)
LEMMA MapAppend ==
    ASSUME NEW V, NEW W, NEW f, Maps(f, V, W), NEW slots, NEW pages \in Seq(Seq(V)), NEW v \in V
    PROVE  /\ append(pages, v, slots) \in Seq(Seq(V))
           /\ append(MapPages(f, pages), f[v], slots) = MapPages(f, append(pages, v, slots))
<1>1. PICK n, mapped : n = Len(pages) /\ mapped = MapPages(f, pages)
  OBVIOUS
<1>2. /\ n \in Nat /\ mapped \in Seq(Seq(W)) /\ Len(mapped) = n
      /\ \A p \in 1 .. n : /\ mapped[p] \in Seq(W) /\ Len(mapped[p]) = Len(pages[p])
                           /\ \A s \in 1 .. Len(pages[p]) : mapped[p][s] = f[pages[p][s]]
  BY <1>1, MapPagesType
<1>3. f[v] \in W
  BY DEF Maps
<1>4. CASE pages = <<>> \/ Len(Last(pages)) = slots
  <2>1. append(pages, v, slots) = Append(pages, <<v>>)
    BY <1>4 DEF append
  <2>2. append(mapped, f[v], slots) = Append(mapped, <<f[v]>>)
    <3>1. CASE pages = <<>>
      <4>1. mapped = <<>>
        BY <1>1, <1>2, <3>1
      <4> QED
        BY <4>1 DEF append
    <3>2. CASE pages # <<>>
      <4>1. n \in 1 .. n
        BY <1>1, <1>2, <3>2
      <4>2. Last(mapped) = mapped[n] /\ Last(pages) = pages[n]
        BY <1>1, <1>2 DEF Last
      <4>3. Len(Last(mapped)) = slots
        BY <1>2, <1>4, <3>2, <4>1, <4>2
      <4> QED
        BY <4>3 DEF append
    <3> QED
      BY <3>1, <3>2
  <2>3. PICK a, b : a = Append(pages, <<v>>) /\ b = Append(mapped, <<f[v]>>)
    OBVIOUS
  <2>4. /\ a \in Seq(Seq(V)) /\ Len(a) = n + 1
        /\ \A p \in 1 .. n : a[p] = pages[p]
        /\ a[n + 1] = <<v>>
    BY <1>1, <1>2, <2>3
  <2>5. /\ b \in Seq(Seq(W)) /\ Len(b) = n + 1
        /\ \A p \in 1 .. n : b[p] = mapped[p]
        /\ b[n + 1] = <<f[v]>>
    BY <1>1, <1>2, <1>3, <2>3
  <2>6. ASSUME NEW p \in 1 .. n + 1
        PROVE  Len(b[p]) = Len(a[p]) /\ \A s \in 1 .. Len(a[p]) : b[p][s] = f[a[p][s]]
    <3>1. CASE p \in 1 .. n
      <4>1. b[p] = mapped[p] /\ a[p] = pages[p]
        BY <2>4, <2>5, <3>1
      <4> QED
        BY <1>2, <3>1, <4>1
    <3>2. CASE p = n + 1
      <4>1. b[p] = <<f[v]>> /\ a[p] = <<v>>
        BY <2>4, <2>5, <3>2
      <4> QED
        BY <4>1
    <3> QED
      BY <1>2, <3>1, <3>2
  <2>7. IsMap(b, f, a)
    BY <2>4, <2>5, <2>6 DEF IsMap
  <2>8. b = MapPages(f, a)
    BY <2>4, <2>5, <2>7, MapPagesIs
  <2> QED
    BY <1>1, <2>1, <2>2, <2>3, <2>4, <2>8
<1>5. CASE ~(pages = <<>> \/ Len(Last(pages)) = slots)
  <2>1. n \in 1 .. n /\ Last(pages) = pages[n] /\ Last(mapped) = mapped[n] /\ n - 1 \in Nat
    BY <1>1, <1>2, <1>5 DEF Last
  <2>2. pages[n] \in Seq(V)
    BY <1>1, <2>1
  <2>3. append(pages, v, slots) = Append(Front(pages), Append(pages[n], v))
    BY <1>5, <2>1 DEF append
  <2>4. append(mapped, f[v], slots) = Append(Front(mapped), Append(mapped[n], f[v]))
    <3>1. ~(mapped = <<>> \/ Len(Last(mapped)) = slots)
      BY <1>2, <1>5, <2>1
    <3> QED
      BY <2>1, <3>1 DEF append
  <2>5. PICK a, b : /\ a = Append(Front(pages), Append(pages[n], v))
                    /\ b = Append(Front(mapped), Append(mapped[n], f[v]))
    OBVIOUS
  <2>6. PICK last, lastm : last = Append(pages[n], v) /\ lastm = Append(mapped[n], f[v])
    OBVIOUS
  <2>7. PICK k : k = Len(pages[n])
    OBVIOUS
  <2>8. k = Len(pages[n]) /\ k \in Nat
    BY <2>2, <2>7
  <2>9. /\ last \in Seq(V) /\ Len(last) = k + 1 /\ last[k + 1] = v
        /\ \A s \in 1 .. k : last[s] = pages[n][s]
    BY <2>2, <2>6, <2>8
  <2>10. /\ lastm \in Seq(W) /\ Len(lastm) = k + 1 /\ lastm[k + 1] = f[v]
         /\ \A s \in 1 .. k : lastm[s] = mapped[n][s]
    BY <1>2, <1>3, <2>1, <2>6, <2>8
  <2>11. /\ Front(pages) \in Seq(Seq(V)) /\ Len(Front(pages)) = n - 1
         /\ \A p \in 1 .. n - 1 : Front(pages)[p] = pages[p]
    <3>1. Front(pages) = SubSeq(pages, 1, n - 1)
      BY <1>1 DEF Front
    <3> QED
      BY <3>1, <2>1, <1>1, <1>2
  <2>12. /\ Front(mapped) \in Seq(Seq(W)) /\ Len(Front(mapped)) = n - 1
         /\ \A p \in 1 .. n - 1 : Front(mapped)[p] = mapped[p]
    <3>1. Front(mapped) = SubSeq(mapped, 1, n - 1)
      BY <1>2 DEF Front
    <3> QED
      BY <3>1, <2>1, <1>2
  <2>13. /\ a \in Seq(Seq(V)) /\ Len(a) = n
         /\ \A p \in 1 .. n - 1 : a[p] = pages[p]
         /\ a[n] = last
    BY <1>2, <2>1, <2>5, <2>6, <2>9, <2>11
  <2>14. /\ b \in Seq(Seq(W)) /\ Len(b) = n
         /\ \A p \in 1 .. n - 1 : b[p] = mapped[p]
         /\ b[n] = lastm
    BY <1>2, <2>1, <2>5, <2>6, <2>10, <2>12
  <2>15. ASSUME NEW p \in 1 .. n
         PROVE  Len(b[p]) = Len(a[p]) /\ \A s \in 1 .. Len(a[p]) : b[p][s] = f[a[p][s]]
    <3>1. CASE p \in 1 .. n - 1
      <4>1. b[p] = mapped[p] /\ a[p] = pages[p]
        BY <2>13, <2>14, <3>1
      <4> QED
        BY <1>2, <2>1, <3>1, <4>1
    <3>2. CASE p = n
      <4>1. b[p] = lastm /\ a[p] = last
        BY <2>13, <2>14, <3>2
      <4>2. ASSUME NEW s \in 1 .. k + 1 PROVE lastm[s] = f[last[s]]
        <5>1. CASE s \in 1 .. k
          <6>1. lastm[s] = mapped[n][s] /\ last[s] = pages[n][s]
            BY <2>9, <2>10, <5>1
          <6>2. mapped[n][s] = f[pages[n][s]]
            BY <1>2, <2>1, <2>8, <5>1
          <6> QED
            BY <6>1, <6>2
        <5>2. CASE s = k + 1
          BY <2>9, <2>10, <5>2
        <5>3. s \in 1 .. k \/ s = k + 1
          BY SMTT(30), <2>8
        <5> QED
          BY <5>1, <5>2, <5>3
      <4> QED
        BY <2>9, <2>10, <4>1, <4>2
    <3> QED
      BY <1>2, <3>1, <3>2
  <2>16. IsMap(b, f, a)
    BY <2>13, <2>14, <2>15 DEF IsMap
  <2>17. b = MapPages(f, a)
    BY <2>13, <2>14, <2>16, MapPagesIs
  <2> QED
    BY <1>1, <2>3, <2>4, <2>5, <2>13, <2>17
<1> QED
  BY <1>4, <1>5

Image(f, a, b) == Len(b) = Len(a) /\ \A m \in 1 .. Len(a) : b[m] = f[a[m]]

LEMMA MapAppendAll ==
    ASSUME NEW V, NEW W, NEW f, Maps(f, V, W), NEW slots, NEW pages \in Seq(Seq(V)),
           NEW a \in Seq(V), NEW b \in Seq(W), Image(f, a, b)
    PROVE  /\ append_all(pages, a, slots) \in Seq(Seq(V))
           /\ append_all(MapPages(f, pages), b, slots) = MapPages(f, append_all(pages, a, slots))
<1>1. PICK h : /\ h[0] = pages
               /\ \A m \in 1 .. Len(a) : h[m] = append(h[m - 1], a[m], slots)
               /\ append_all(pages, a, slots) = h[Len(a)]
  BY FoldSteps
<1>2. PICK mapped : mapped = MapPages(f, pages)
  OBVIOUS
<1>3. PICK g : /\ g[0] = mapped
               /\ \A m \in 1 .. Len(b) : g[m] = append(g[m - 1], b[m], slots)
               /\ append_all(mapped, b, slots) = g[Len(b)]
  BY FoldSteps
<1>4. PICK n : n = Len(a)
  OBVIOUS
<1>5. n = Len(a) /\ n \in Nat /\ Len(b) = n /\ \A m \in 1 .. n : b[m] = f[a[m]]
  BY <1>4 DEF Image
<1> DEFINE M == {m \in Nat : h[m] \in Seq(Seq(V)) /\ g[m] = MapPages(f, h[m])}
<1>6. 0 \in M
  BY <1>1, <1>2, <1>3
<1>7. ASSUME NEW m \in 0 .. n - 1, m \in M PROVE m + 1 \in M
  <2>1. m + 1 \in 1 .. n /\ (m + 1) - 1 = m /\ m + 1 \in Nat
    BY <1>5
  <2>2. h[m + 1] = append(h[m], a[m + 1], slots) /\ a[m + 1] \in V
    BY <1>1, <1>5, <2>1
  <2>3. g[m + 1] = append(g[m], f[a[m + 1]], slots)
    BY <1>3, <1>5, <2>1
  <2>4. h[m] \in Seq(Seq(V)) /\ g[m] = MapPages(f, h[m])
    BY <1>7
  <2>5. PICK x, v : x = h[m] /\ v = a[m + 1]
    OBVIOUS
  <2>6. /\ append(x, v, slots) \in Seq(Seq(V))
        /\ append(MapPages(f, x), f[v], slots) = MapPages(f, append(x, v, slots))
    BY <2>2, <2>4, <2>5, MapAppend
  <2> QED
    BY <2>1, <2>2, <2>3, <2>4, <2>5, <2>6
<1>8. n \in M
  <2> HIDE DEF M
  <2>1. \A m \in 0 .. n : m \in M
    BY <1>5, <1>6, <1>7, UpTo
  <2> QED
    BY <1>5, <2>1
<1> QED
  BY <1>1, <1>2, <1>3, <1>5, <1>8

LEMMA MapConcat ==
    ASSUME NEW V, NEW W, NEW f, Maps(f, V, W), NEW a \in Seq(Seq(V)), NEW b \in Seq(Seq(V))
    PROVE  MapPages(f, a) \o MapPages(f, b) = MapPages(f, a \o b)
<1>1. PICK fa, fb, c : fa = MapPages(f, a) /\ fb = MapPages(f, b) /\ c = a \o b
  OBVIOUS
<1>2. PICK n, k : n = Len(a) /\ k = Len(b)
  OBVIOUS
<1>3. n = Len(a) /\ k = Len(b) /\ n \in Nat /\ k \in Nat
  BY <1>2
<1>4. /\ c \in Seq(Seq(V)) /\ Len(c) = n + k
      /\ \A p \in 1 .. n : c[p] = a[p]
      /\ \A p \in 1 .. k : c[n + p] = b[p]
  BY <1>1, <1>3, ConcatenationAt
<1>5. /\ fa \in Seq(Seq(W)) /\ Len(fa) = n
      /\ \A p \in 1 .. n : Len(fa[p]) = Len(a[p]) /\ \A s \in 1 .. Len(a[p]) : fa[p][s] = f[a[p][s]]
  BY <1>1, <1>3, MapPagesType
<1>6. /\ fb \in Seq(Seq(W)) /\ Len(fb) = k
      /\ \A p \in 1 .. k : Len(fb[p]) = Len(b[p]) /\ \A s \in 1 .. Len(b[p]) : fb[p][s] = f[b[p][s]]
  BY <1>1, <1>3, MapPagesType
<1>7. PICK d : d = fa \o fb
  OBVIOUS
<1>8. fa \in Seq(Seq(W)) /\ Len(fa) = n /\ fb \in Seq(Seq(W)) /\ Len(fb) = k
  BY <1>5, <1>6
<1>9. /\ d \in Seq(Seq(W)) /\ Len(d) = n + k
      /\ \A p \in 1 .. n : d[p] = fa[p]
      /\ \A p \in 1 .. k : d[n + p] = fb[p]
  <2>1. PICK T : T = Seq(W)
    OBVIOUS
  <2>2. fa \in Seq(T) /\ fb \in Seq(T) /\ n = Len(fa) /\ k = Len(fb)
    BY <1>8, <2>1
  <2>3. /\ fa \o fb \in Seq(T) /\ Len(fa \o fb) = n + k
        /\ \A p \in 1 .. n : (fa \o fb)[p] = fa[p]
        /\ \A p \in 1 .. k : (fa \o fb)[n + p] = fb[p]
    BY ONLY <2>2, ConcatenationAt
  <2> QED
    BY <1>7, <2>1, <2>3
<1>10. ASSUME NEW p \in 1 .. n + k
       PROVE  Len(d[p]) = Len(c[p]) /\ \A s \in 1 .. Len(c[p]) : d[p][s] = f[c[p][s]]
  <2>1. CASE p \in 1 .. n
    <3>1. d[p] = fa[p] /\ c[p] = a[p]
      BY <1>4, <1>9, <2>1
    <3> QED
      BY <1>5, <2>1, <3>1
  <2>2. CASE p \notin 1 .. n
    <3>1. PICK q : q = p - n
      OBVIOUS
    <3>2. q \in 1 .. k /\ p = n + q
      BY <1>3, <2>2, <3>1
    <3>3. d[p] = fb[q] /\ c[p] = b[q]
      BY <1>4, <1>9, <3>2
    <3> QED
      BY <1>6, <3>2, <3>3
  <2> QED
    BY <2>1, <2>2
<1>11. IsMap(d, f, c)
  BY <1>4, <1>9, <1>10 DEF IsMap
<1>12. d = MapPages(f, c)
  BY <1>4, <1>9, <1>11, MapPagesIs
<1> QED
  BY <1>1, <1>7, <1>12

(* A part grows, and none but empty ones follow it. *)
Grows(a, b, q, x) ==
    /\ Len(b) = Len(a) /\ q \in 1 .. Len(a) /\ b[q] = a[q] \o x
    /\ \A p \in 1 .. Len(a) : p # q => b[p] = a[p]
    /\ \A p \in 1 .. Len(a) : p > q => a[p] = <<>>

LEMMA FlattenLast ==
    ASSUME NEW V, NEW a \in Seq(Seq(V)), NEW b \in Seq(Seq(V)), NEW q, NEW x \in Seq(V),
           Grows(a, b, q, x)
    PROVE  FlattenSeq(b) = FlattenSeq(a) \o x
<1>1. PICK n : n = Len(a)
  OBVIOUS
<1>2. n = Len(a) /\ n \in Nat
  BY <1>1
<1>3. PICK e : e = <<>>
  OBVIOUS
<1>4. /\ Len(b) = n /\ q \in 1 .. n /\ b[q] = a[q] \o x
      /\ \A p \in 1 .. n : p # q => b[p] = a[p]
      /\ \A p \in 1 .. n : p > q => a[p] = e
  BY <1>2, <1>3 DEF Grows
<1>5. PICK f : /\ f[0] = e
               /\ \A m \in 1 .. n : f[m] = f[m - 1] \o a[m]
               /\ FlattenSeq(a) = f[n]
  BY <1>2, <1>3, <1>4, FlattenSteps
<1>6. PICK g : /\ g[0] = e
               /\ \A m \in 1 .. n : g[m] = g[m - 1] \o b[m]
               /\ FlattenSeq(b) = g[n]
  BY <1>2, <1>3, <1>4, FlattenSteps
<1> DEFINE M == {m \in Nat : f[m] \in Seq(V) /\ g[m] = IF m < q THEN f[m] ELSE f[m] \o x}
<1>7. 0 \in M
  <2>1. e \in Seq(V) /\ 0 < q
    BY <1>3, <1>4
  <2> QED
    BY <1>5, <1>6, <2>1
<1>8. ASSUME NEW m \in 0 .. n - 1, m \in M PROVE m + 1 \in M
  <2>1. m + 1 \in 1 .. n /\ (m + 1) - 1 = m /\ m + 1 \in Nat /\ m < m + 1 /\ q \in Nat
    BY <1>2, <1>4
  <2>2. PICK u, v, w : u = f[m] /\ v = a[m + 1] /\ w = b[m + 1]
    OBVIOUS
  <2>3. f[m + 1] = u \o v /\ g[m + 1] = g[m] \o w
    BY <1>5, <1>6, <2>1, <2>2
  <2>4. u \in Seq(V) /\ v \in Seq(V) /\ w \in Seq(V)
    BY <1>8, <1>2, <1>4, <2>1, <2>2
  <2>5. u \o v \in Seq(V)
    BY <2>4, Concatenation
  <2>6. CASE m + 1 < q
    <3>1. g[m] = u /\ w = v
      BY <1>8, <1>4, <2>1, <2>2, <2>6
    <3> QED
      BY <2>1, <2>3, <2>5, <2>6, <3>1
  <2>7. CASE m + 1 = q
    <3>1. g[m] = u /\ w = v \o x
      BY <1>8, <1>4, <2>1, <2>2, <2>7
    <3>2. u \o (v \o x) = (u \o v) \o x
      <4>1. u \in Seq(V) /\ v \in Seq(V) /\ x \in Seq(V)
        BY <2>4
      <4> QED
        BY ONLY <4>1, SMTT(30), ConcatAssociative
    <3>3. g[m + 1] = f[m + 1] \o x
      BY <2>3, <3>1, <3>2
    <3>4. f[m + 1] \in Seq(V) /\ ~(m + 1 < q)
      BY <2>3, <2>5, <2>7, <2>1
    <3> QED
      BY <2>1, <3>3, <3>4
  <2>8. CASE m + 1 > q
    <3>1. m \in Nat /\ m + 1 # q /\ ~(m < q) /\ ~(m + 1 < q)
      BY <1>4, <2>1, <2>8
    <3>2. b[m + 1] = a[m + 1] /\ a[m + 1] = e
      BY <1>4, <2>1, <2>8, <3>1
    <3>3. g[m] = u \o x /\ w = e /\ v = e
      BY <1>8, <2>2, <3>1, <3>2
    <3>4. u \o x \in Seq(V)
      BY <2>4, Concatenation
    <3>5. u \o e = u /\ (u \o x) \o e = u \o x
      BY <1>3, <2>4, <3>4, ConcatEmptySeq
    <3> QED
      BY <2>1, <2>3, <2>4, <3>3, <3>5, <3>1
  <2> QED
    BY <2>1, <2>6, <2>7, <2>8
<1>9. n \in M
  <2> HIDE DEF M
  <2>1. \A m \in 0 .. n : m \in M
    BY <1>7, <1>8, <1>2, UpTo
  <2> QED
    BY <1>2, <2>1
<1>10. ~(n < q)
  BY <1>2, <1>4
<1> QED
  BY <1>5, <1>6, <1>9, <1>10

-----------------------------------------------------------------------------
(* What lies in which box, page by page.                                   *)

(* A function that is one to one and onto is a bijection.                  *)
LEMMA IsBijection ==
    ASSUME NEW S, NEW T, NEW f \in [S -> T],
           \A a, b \in S : f[a] = f[b] => a = b, \A t \in T : \E s \in S : f[s] = t
    PROVE  f \in Bijection(S, T)
BY DEF Bijection, Injection, Surjection, IsInjective

(* A sequence of sequences of one element is the sequence of these.        *)
LEMMA FlattenSingles ==
    ASSUME NEW V, NEW seqs \in Seq(Seq(V)), \A m \in 1 .. Len(seqs) : Len(seqs[m]) = 1
    PROVE  /\ FlattenSeq(seqs) \in Seq(V) /\ Len(FlattenSeq(seqs)) = Len(seqs)
           /\ \A m \in 1 .. Len(seqs) : FlattenSeq(seqs)[m] = seqs[m][1]
<1>1. PICK n : n = Len(seqs)
  OBVIOUS
<1>2. n \in Nat /\ \A m \in 1 .. n : seqs[m] \in Seq(V) /\ Len(seqs[m]) = 1
  BY <1>1
<1>3. PICK h : /\ h[0] = <<>>
               /\ \A m \in 1 .. Len(seqs) : h[m] = h[m - 1] \o seqs[m]
               /\ FlattenSeq(seqs) = h[Len(seqs)]
  BY FlattenSteps
<1>4. /\ h[0] = <<>> /\ FlattenSeq(seqs) = h[n]
      /\ \A m \in 1 .. n : h[m] = h[m - 1] \o seqs[m]
  BY <1>1, <1>3
<1> DEFINE M == {m \in 0 .. n : /\ h[m] \in Seq(V) /\ Len(h[m]) = m
                               /\ \A i \in 1 .. m : h[m][i] = seqs[i][1]}
<1>5. 0 \in M
  <2>1. PICK e : e = <<>>
    OBVIOUS
  <2>2. e \in Seq(V) /\ Len(e) = 0 /\ h[0] = e
    BY <1>4, <2>1
  <2>3. \A i \in 1 .. 0 : h[0][i] = seqs[i][1]
    OBVIOUS
  <2>4. 0 \in 0 .. n
    BY <1>2
  <2> QED
    BY <2>2, <2>3, <2>4
<1>6. ASSUME NEW m \in 0 .. n - 1, m \in M PROVE m + 1 \in M
  <2>1. PICK k : k = m + 1
    OBVIOUS
  <2>2. k \in 1 .. n /\ k - 1 = m /\ m \in Nat
    BY <1>2, <2>1
  <2>3. PICK a, b, x : a = h[m] /\ b = seqs[k] /\ x = seqs[k][1]
    OBVIOUS
  <2>4. a \in Seq(V) /\ m = Len(a) /\ b \in Seq(V) /\ Len(b) = 1 /\ b[1] = x
        /\ \A i \in 1 .. m : a[i] = seqs[i][1]
    BY <1>2, <1>6, <2>2, <2>3
  <2>5. h[k] = a \o b
    BY <1>4, <2>2, <2>3
  <2>6. /\ a \o b \in Seq(V) /\ Len(a \o b) = m + 1
        /\ \A i \in 1 .. m : (a \o b)[i] = a[i]
        /\ (a \o b)[m + 1] = x
    <3>1. a \in Seq(V) /\ b \in Seq(V)
      BY <2>4
    <3>2. /\ a \o b \in Seq(V) /\ Len(a \o b) = Len(a) + Len(b)
          /\ \A p \in 1 .. Len(a) : (a \o b)[p] = a[p]
          /\ \A p \in 1 .. Len(b) : (a \o b)[Len(a) + p] = b[p]
      BY ONLY <3>1, Concatenation
    <3> QED
      BY <2>4, <3>2
  <2>7. (a \o b)[k] = seqs[k][1]
    BY <2>1, <2>3, <2>6
  <2>8. ASSUME NEW i \in 1 .. k PROVE h[k][i] = seqs[i][1]
    <3>1. i = k \/ i \in 1 .. m
      BY <2>1, <2>2
    <3> QED
      BY <2>4, <2>5, <2>6, <2>7, <3>1
  <2>9. h[k] \in Seq(V) /\ Len(h[k]) = k /\ k \in 0 .. n
    BY <1>2, <2>1, <2>2, <2>5, <2>6
  <2> QED
    BY <2>1, <2>8, <2>9
<1>7. \A m \in 0 .. n : m \in M
  <2> HIDE DEF M
  <2> QED
    BY <1>2, <1>5, <1>6, UpTo
<1>8. n \in M
  BY <1>2, <1>7
<1> QED
  BY <1>1, <1>4, <1>8

(* The boxes of pages, page by page. *)
Tags(pages) == [p \in 1 .. Len(pages) |-> [s \in 1 .. Len(pages[p]) |-> <<p, s>>]]

(* They lie as the pages' elements do.                                     *)
LEMMA TagsType ==
    ASSUME NEW V, NEW pages \in Seq(Seq(V))
    PROVE  /\ Tags(pages) \in Seq(Seq(Boxes(pages))) /\ Shape(Tags(pages)) = Shape(pages)
           /\ Len(Tags(pages)) = Len(pages)
           /\ \A p \in 1 .. Len(pages) :
                /\ Tags(pages)[p] \in Seq(Boxes(pages)) /\ Len(Tags(pages)[p]) = Len(pages[p])
                /\ \A s \in 1 .. Len(pages[p]) : Tags(pages)[p][s] = <<p, s>>
<1>1. PICK n, t, B : n = Len(pages) /\ t = Tags(pages) /\ B = Boxes(pages)
  OBVIOUS
<1>2. n \in Nat /\ DOMAIN pages = 1 .. n
  BY <1>1
<1>3. t = [p \in 1 .. n |-> [s \in 1 .. Len(pages[p]) |-> <<p, s>>]]
  BY <1>1 DEF Tags
<1>4. ASSUME NEW p \in 1 .. n
      PROVE  /\ t[p] \in Seq(B) /\ Len(t[p]) = Len(pages[p])
             /\ \A s \in 1 .. Len(pages[p]) : t[p][s] = <<p, s>>
  <2>1. PICK m, g : m = Len(pages[p]) /\ g = t[p]
    OBVIOUS
  <2>2. m \in Nat
    <3>1. pages[p] \in Seq(V)
      BY <1>1, <1>2
    <3> QED
      BY <2>1, <3>1
  <2>3. g = [s \in 1 .. m |-> <<p, s>>]
    BY <1>3, <2>1
  <2>4. ASSUME NEW s \in 1 .. m PROVE g[s] \in B
    BY <1>1, <1>2, <2>1, <2>3, InBoxes
  <2>5. g = [s \in 1 .. m |-> g[s]]
    BY <2>3
  <2>6. g \in Seq(B) /\ Len(g) = m
    BY <2>2, <2>4, <2>5, IsSeq
  <2> QED
    BY <2>1, <2>3, <2>6
<1>5. t = [p \in 1 .. n |-> t[p]]
  BY <1>3
<1>6. t \in Seq(Seq(B)) /\ Len(t) = n /\ DOMAIN t = 1 .. n
  BY <1>2, <1>4, <1>5, IsSeq
<1>7. Shape(t) = Shape(pages)
  BY <1>2, <1>4, <1>6 DEF Shape
<1> QED
  BY <1>1, <1>4, <1>6, <1>7

(* Read page by page, pages name each box once. *)
LEMMA TagsBijection ==
    ASSUME NEW V, NEW pages \in Seq(Seq(V))
    PROVE  FlattenSeq(Tags(pages)) \in Bijection(1 .. Len(FlattenSeq(pages)), Boxes(pages))
<1>1. PICK n, t, B : n = Len(pages) /\ t = Tags(pages) /\ B = Boxes(pages)
  OBVIOUS
<1>2. /\ t \in Seq(Seq(B)) /\ Shape(t) = Shape(pages) /\ Len(t) = n
      /\ \A p \in 1 .. n : /\ t[p] \in Seq(B) /\ Len(t[p]) = Len(pages[p])
                           /\ \A s \in 1 .. Len(pages[p]) : t[p][s] = <<p, s>>
  BY <1>1, TagsType
<1>3. ASSUME NEW p \in 1 .. n
      PROVE  /\ IsInjective(t[p])
             /\ \A x : x \in Range(t[p]) <=> \E s \in 1 .. Len(pages[p]) : x = <<p, s>>
  <2>1. PICK g, m : g = t[p] /\ m = Len(pages[p])
    OBVIOUS
  <2>2. g \in Seq(B) /\ Len(g) = m /\ \A s \in 1 .. m : g[s] = <<p, s>>
    BY <1>2, <2>1
  <2>3. DOMAIN g = 1 .. m
    BY <2>2
  <2>4. IsInjective(g)
    <3>1. ASSUME NEW a \in 1 .. m, NEW b \in 1 .. m, g[a] = g[b] PROVE a = b
      <4>1. <<p, a>> = <<p, b>>
        BY <2>2, <3>1
      <4> QED
        BY <4>1
    <3> QED
      BY <2>3, <3>1 DEF IsInjective
  <2>5. ASSUME NEW x PROVE x \in Range(g) <=> \E s \in 1 .. m : x = <<p, s>>
    BY <2>2, <2>3 DEF Range
  <2> QED
    BY <2>1, <2>4, <2>5
<1>4. ASSUME NEW p \in 1 .. n, NEW q \in 1 .. n, p # q PROVE Range(t[p]) \cap Range(t[q]) = {}
  <2>1. ASSUME NEW x, x \in Range(t[p]), x \in Range(t[q]) PROVE FALSE
    <3>1. PICK s : x = <<p, s>>
      BY <1>3, <2>1
    <3>2. PICK r : x = <<q, r>>
      BY <1>3, <2>1
    <3> QED
      BY <1>4, <3>1, <3>2
  <2> QED
    BY <2>1
<1>5. PICK F : F = FlattenSeq(t)
  OBVIOUS
<1>6. IsInjective(F)
  BY <1>2, <1>3, <1>4, <1>5, FlattenInjective
<1>7. F \in Seq(B) /\ Range(F) = UNION {Range(t[m]) : m \in 1 .. n}
  BY <1>2, <1>5, FlattenRange
<1>8. Len(F) = Len(FlattenSeq(pages))
  BY <1>2, <1>5, FlattenLength
<1>9. PICK N : N = Len(FlattenSeq(pages))
  OBVIOUS
<1>10. F \in [1 .. N -> B]
  BY <1>7, <1>8, <1>9
<1>11. \A a, b \in 1 .. N : F[a] = F[b] => a = b
  BY <1>6, <1>10 DEF IsInjective
<1>12. ASSUME NEW b \in B PROVE \E i \in 1 .. N : F[i] = b
  <2>1. PICK p, s : p \in DOMAIN pages /\ s \in 1 .. Len(pages[p]) /\ b = <<p, s>>
    BY <1>1, InBoxes
  <2>2. p \in 1 .. n
    BY <1>1, <2>1
  <2>3. b \in Range(t[p])
    BY <1>3, <2>1, <2>2
  <2>4. b \in Range(F)
    BY <1>7, <2>2, <2>3
  <2> QED
    BY <1>10, <2>4 DEF Range
<1>13. F \in Bijection(1 .. N, B)
  BY <1>10, <1>11, <1>12, IsBijection
<1> QED
  BY <1>1, <1>5, <1>9, <1>13

(* What lies where, in any pages of this shape. *)
LEMMA TagsAt ==
    ASSUME NEW V, NEW pages \in Seq(Seq(V)), NEW W, NEW cells \in Seq(Seq(W)),
           Shape(cells) = Shape(pages), NEW F, F = FlattenSeq(Tags(pages))
    PROVE  /\ Len(FlattenSeq(cells)) = Len(FlattenSeq(pages))
           /\ \A i \in 1 .. Len(FlattenSeq(pages)) :
                FlattenSeq(cells)[i] = cells[F[i][1]][F[i][2]]
<1>1. PICK t, B : t = Tags(pages) /\ B = Boxes(pages)
  OBVIOUS
<1>2. /\ t \in Seq(Seq(B)) /\ Shape(t) = Shape(pages) /\ Len(t) = Len(pages)
      /\ \A p \in 1 .. Len(pages) :
           /\ Len(t[p]) = Len(pages[p])
           /\ \A s \in 1 .. Len(pages[p]) : t[p][s] = <<p, s>>
  BY <1>1, TagsType
<1>3. PICK G, N : G = FlattenSeq(cells) /\ N = Len(FlattenSeq(pages))
  OBVIOUS
<1>4. Len(G) = N
  BY <1>3, FlattenLength
<1>5. Together(t, cells, F, G)
  BY <1>1, <1>2, <1>3, FlattenTogether
<1>6. Len(F) = N
  BY <1>4, <1>5 DEF Together
<1>7. ASSUME NEW i \in 1 .. N PROVE G[i] = cells[F[i][1]][F[i][2]]
  <2>1. PICK p \in 1 .. Len(t) : \E s \in 1 .. Len(t[p]) : F[i] = t[p][s] /\ G[i] = cells[p][s]
    BY <1>5, <1>6 DEF Together
  <2>2. PICK s \in 1 .. Len(t[p]) : F[i] = t[p][s] /\ G[i] = cells[p][s]
    BY <2>1
  <2>3. F[i] = <<p, s>>
    BY <1>2, <2>1, <2>2
  <2> QED
    BY <2>2, <2>3
<1> QED
  BY <1>3, <1>4, <1>7

(* Pages hold the elements of a set, each in one box. *)
Hold(pages, S) ==
    /\ \A b \in Boxes(pages) : pages[b[1]][b[2]] \in S
    /\ \A b, c \in Boxes(pages) : pages[b[1]][b[2]] = pages[c[1]][c[2]] => b = c
    /\ \A x \in S : \E b \in Boxes(pages) : pages[b[1]][b[2]] = x

(* Values appended to no pages, none of them twice. *)
LEMMA AppendedOnce ==
    ASSUME NEW V, NEW slots \in Nat \ {0}, NEW a \in Seq(V), IsInjective(a)
    PROVE  /\ append_all(<<>>, a, slots) \in Seq(Seq(V))
           /\ PagesWithin(append_all(<<>>, a, slots), slots)
           /\ Hold(append_all(<<>>, a, slots), Range(a))
<1>1. PICK e : e = <<>>
  OBVIOUS
<1>2. e \in Seq(Seq(V)) /\ DOMAIN e = {}
  BY <1>1, EmptySeq
<1>3. PagesWithin(e, slots) /\ Boxes(e) = {}
  BY <1>2 DEF PagesWithin, Boxes
<1>4. PICK cols, vals, shape, n : /\ cols = [c \in {1} |-> e] /\ vals = [c \in {1} |-> a]
                                  /\ shape = Shape(e) /\ n = Len(a)
  OBVIOUS
<1>5. /\ cols \in [{1} -> Seq(Seq(V))] /\ n \in Nat /\ DOMAIN a = 1 .. n
      /\ \A c \in {1} : vals[c] \in Seq(V) /\ Len(vals[c]) = n
      /\ \A c \in {1} : PagesWithin(cols[c], slots) /\ Shape(cols[c]) = shape
      /\ cols[1] = e /\ vals[1] = a
  BY <1>2, <1>3, <1>4
<1>6. PICK after, box : Filled({1}, V, slots, cols, vals, n, after, box)
  <2>1. {1} # {}
    OBVIOUS
  <2> QED
    BY <1>5, <2>1, AppendColumns
<1>7. PICK new : new = append_all(e, a, slots)
  OBVIOUS
<1>8. /\ new \in Seq(Seq(V)) /\ PagesWithin(new, slots)
      /\ Boxes(new) = Boxes(e) \cup {box[m] : m \in 1 .. n}
      /\ \A m \in 1 .. n : new[box[m][1]][box[m][2]] = a[m]
      /\ \A m, k \in 1 .. n : m # k => box[m] # box[k]
  BY <1>5, <1>6, <1>7 DEF Filled
<1>9. \A b : b \in Boxes(new) <=> \E m \in 1 .. n : b = box[m]
  BY <1>3, <1>8
<1>10. Hold(new, Range(a))
  <2>1. ASSUME NEW b \in Boxes(new) PROVE new[b[1]][b[2]] \in Range(a)
    <3>1. PICK m \in 1 .. n : b = box[m]
      BY <1>9
    <3> QED
      BY <1>5, <1>8, <3>1 DEF Range
  <2>2. ASSUME NEW b \in Boxes(new), NEW c \in Boxes(new), new[b[1]][b[2]] = new[c[1]][c[2]]
        PROVE  b = c
    <3>1. PICK m \in 1 .. n : b = box[m]
      BY <1>9
    <3>2. PICK k \in 1 .. n : c = box[k]
      BY <1>9
    <3>3. a[m] = a[k]
      BY <1>8, <2>2, <3>1, <3>2
    <3>4. m = k
      BY <1>5, <3>3 DEF IsInjective
    <3> QED
      BY <3>1, <3>2, <3>4
  <2>3. ASSUME NEW x \in Range(a) PROVE \E b \in Boxes(new) : new[b[1]][b[2]] = x
    <3>1. PICK m \in 1 .. n : x = a[m]
      BY <1>5 DEF Range
    <3>2. box[m] \in Boxes(new) /\ new[box[m][1]][box[m][2]] = x
      BY <1>8, <1>9, <3>1
    <3> QED
      BY <3>2
  <2> QED
    BY <2>1, <2>2, <2>3 DEF Hold
<1> QED
  BY <1>1, <1>7, <1>8, <1>10

(* A page among those of a part. *)
LEMMA BoxOfPart ==
    ASSUME NEW V, NEW pages \in Seq(Seq(V)), NEW b
    PROVE  b \in Boxes(pages) <=>
             \E p \in 1 .. Len(pages) : \E s \in 1 .. Len(pages[p]) : b = <<p, s>>
<1>1. DOMAIN pages = 1 .. Len(pages)
  OBVIOUS
<1>2. b \in Boxes(pages) <=>
        \E p, s : p \in DOMAIN pages /\ s \in 1 .. Len(pages[p]) /\ b = <<p, s>>
  BY InBoxes
<1> QED
  BY ONLY <1>1, <1>2

(* x is in slot s of page p of part m.                                     *)
Lies(parts, x, m, p, s) ==
    /\ m \in 1 .. Len(parts) /\ p \in 1 .. Len(parts[m]) /\ s \in 1 .. Len(parts[m][p])
    /\ parts[m][p][s] = x

(* Pages of several parts hold sets without common elements.               *)
HoldApart(parts, slots, S) ==
    /\ \A m \in 1 .. Len(parts) : PagesWithin(parts[m], slots) /\ Hold(parts[m], S[m])
    /\ \A m, k \in 1 .. Len(parts) : m # k => S[m] \cap S[k] = {}

(* All that is in one of n sets.                                           *)
UnionOf(S, n) == UNION {S[m] : m \in 1 .. n}

(* Put together, they hold the union, each element in one box.             *)
LEMMA FlattenedOnce ==
    ASSUME NEW V, NEW slots, NEW parts \in Seq(Seq(Seq(V))), NEW S,
           HoldApart(parts, slots, S)
    PROVE  Hold(FlattenSeq(parts), UnionOf(S, Len(parts)))
<1>1. PICK n, P, U : /\ n = Len(parts) /\ P = FlattenSeq(parts)
                     /\ U = UNION {S[m] : m \in 1 .. Len(parts)}
  OBVIOUS
<1>2. n \in Nat /\ \A m \in 1 .. n : parts[m] \in Seq(Seq(V))
  BY <1>1
<1>3. \A m \in 1 .. n : PagesWithin(parts[m], slots) /\ Hold(parts[m], S[m])
  BY <1>1 DEF HoldApart
<1>4. \A m, k \in 1 .. n : m # k => S[m] \cap S[k] = {}
  BY <1>1 DEF HoldApart
<1>5. ASSUME NEW m \in 1 .. n, NEW p \in 1 .. Len(parts[m])
      PROVE  /\ parts[m][p] \in Seq(V) /\ 1 \in 1 .. Len(parts[m][p])
             /\ \A s \in 1 .. Len(parts[m][p]) : /\ <<p, s>> \in Boxes(parts[m])
                                                 /\ parts[m][p][s] \in S[m]
  <2>1. PICK a, g : a = parts[m] /\ g = parts[m][p]
    OBVIOUS
  <2>2. a \in Seq(Seq(V)) /\ g = a[p] /\ p \in 1 .. Len(a)
    BY <1>2, <2>1
  <2>3. g \in Seq(V) /\ DOMAIN a = 1 .. Len(a)
    BY <2>2
  <2>4. Len(g) \in 1 .. slots
    BY <1>3, <2>1, <2>2, <2>3 DEF PagesWithin
  <2>5. Len(g) \in Nat /\ 1 <= Len(g)
    BY <2>3, <2>4
  <2>6. ASSUME NEW s \in 1 .. Len(g) PROVE <<p, s>> \in Boxes(a) /\ g[s] \in S[m]
    <3>1. <<p, s>> \in Boxes(a)
      BY <2>2, BoxOfPart
    <3>2. PICK b : b = <<p, s>>
      OBVIOUS
    <3>3. b \in Boxes(a) /\ b[1] = p /\ b[2] = s
      BY <3>1, <3>2
    <3>4. a[b[1]][b[2]] \in S[m]
      BY <1>3, <2>1, <3>3 DEF Hold
    <3> QED
      BY <2>2, <3>1, <3>3, <3>4
  <2> QED
    BY <2>1, <2>3, <2>5, <2>6
(* Two pages with a common element are one page of one part. *)
<1>6. ASSUME NEW x, NEW m, NEW p, NEW s, Lies(parts, x, m, p, s),
             NEW k, NEW q, NEW r, Lies(parts, x, k, q, r)
      PROVE  m = k /\ p = q /\ s = r
  <2>1. /\ m \in 1 .. n /\ p \in 1 .. Len(parts[m]) /\ s \in 1 .. Len(parts[m][p])
        /\ k \in 1 .. n /\ q \in 1 .. Len(parts[k]) /\ r \in 1 .. Len(parts[k][q])
        /\ parts[m][p][s] = x /\ parts[k][q][r] = x
    BY <1>1, <1>6 DEF Lies
  <2>2. parts[m][p][s] \in S[m] /\ parts[k][q][r] \in S[k]
    BY <1>5, <2>1
  <2>3. m = k
    BY <1>4, <2>2, <2>1
  <2>4. PICK b, c : b = <<p, s>> /\ c = <<q, r>>
    OBVIOUS
  <2>5. b \in Boxes(parts[m]) /\ c \in Boxes(parts[m])
    BY <1>5, <2>3, <2>4, <2>1
  <2>6. parts[m][b[1]][b[2]] = parts[m][c[1]][c[2]]
    BY <2>3, <2>4, <2>1
  <2>7. b = c
    BY <1>3, <2>5, <2>6, <2>1 DEF Hold
  <2> QED
    BY <2>3, <2>4, <2>7
<1>7. ASSUME NEW m \in 1 .. n PROVE IsInjective(parts[m])
  <2>1. ASSUME NEW p \in 1 .. Len(parts[m]), NEW q \in 1 .. Len(parts[m]), parts[m][p] = parts[m][q]
        PROVE  p = q
    <3>1. 1 \in 1 .. Len(parts[m][p]) /\ 1 \in 1 .. Len(parts[m][q])
      BY <1>5
    <3>2. parts[m][p][1] = parts[m][q][1]
      BY <2>1
    <3>3. PICK x : x = parts[m][p][1]
      OBVIOUS
    <3>4. Lies(parts, x, m, p, 1) /\ Lies(parts, x, m, q, 1)
      BY <1>1, <3>1, <3>2, <3>3 DEF Lies
    <3> QED
      BY <1>6, <3>4
  <2>2. DOMAIN parts[m] = 1 .. Len(parts[m])
    BY <1>2
  <2> QED
    BY <2>1, <2>2 DEF IsInjective
<1>8. ASSUME NEW m \in 1 .. n, NEW k \in 1 .. n, m # k
      PROVE  Range(parts[m]) \cap Range(parts[k]) = {}
  <2>1. DOMAIN parts[m] = 1 .. Len(parts[m]) /\ DOMAIN parts[k] = 1 .. Len(parts[k])
    BY <1>2
  <2>2. ASSUME NEW x, x \in Range(parts[m]), x \in Range(parts[k]) PROVE FALSE
    <3>1. PICK p \in 1 .. Len(parts[m]) : x = parts[m][p]
      BY <2>1, <2>2 DEF Range
    <3>2. PICK q \in 1 .. Len(parts[k]) : x = parts[k][q]
      BY <2>1, <2>2 DEF Range
    <3>3. 1 \in 1 .. Len(parts[m][p]) /\ 1 \in 1 .. Len(parts[k][q])
      BY <1>5
    <3>4. parts[m][p][1] = parts[k][q][1]
      BY <3>1, <3>2
    <3>5. PICK y : y = parts[m][p][1]
      OBVIOUS
    <3>6. Lies(parts, y, m, p, 1) /\ Lies(parts, y, k, q, 1)
      BY <1>1, <3>3, <3>4, <3>5 DEF Lies
    <3> QED
      BY <1>6, <1>8, <3>6
  <2> QED
    BY <2>2
<1>9. PICK T : T = Seq(V)
  OBVIOUS
<1>10. parts \in Seq(Seq(T))
  BY <1>9
<1>11. IsInjective(P)
  BY <1>1, <1>7, <1>8, <1>10, FlattenInjective
<1>12. P \in Seq(T) /\ Range(P) = UNION {Range(parts[m]) : m \in 1 .. n}
  BY <1>1, <1>10, FlattenRange
<1>13. P \in Seq(Seq(V)) /\ DOMAIN P = 1 .. Len(P)
  BY <1>9, <1>12
<1>14. ASSUME NEW i \in 1 .. Len(P)
       PROVE  \E m \in 1 .. n : \E p \in 1 .. Len(parts[m]) : P[i] = parts[m][p]
  <2>1. P[i] \in Range(P)
    BY <1>13 DEF Range
  <2>2. PICK m \in 1 .. n : P[i] \in Range(parts[m])
    BY <1>12, <2>1
  <2>3. DOMAIN parts[m] = 1 .. Len(parts[m])
    BY <1>2
  <2> QED
    BY <2>2, <2>3 DEF Range
<1>15. ASSUME NEW b \in Boxes(P) PROVE P[b[1]][b[2]] \in U
  <2>1. PICK i \in 1 .. Len(P) : \E s \in 1 .. Len(P[i]) : b = <<i, s>>
    BY <1>13, BoxOfPart
  <2>2. PICK s \in 1 .. Len(P[i]) : b = <<i, s>>
    BY <2>1
  <2>3. PICK m \in 1 .. n : \E p \in 1 .. Len(parts[m]) : P[i] = parts[m][p]
    BY <1>14
  <2>4. PICK p \in 1 .. Len(parts[m]) : P[i] = parts[m][p]
    BY <2>3
  <2>5. P[i][s] \in S[m]
    BY <1>5, <2>2, <2>4
  <2> QED
    BY <1>1, <2>2, <2>5
<1>16. ASSUME NEW b \in Boxes(P), NEW c \in Boxes(P), P[b[1]][b[2]] = P[c[1]][c[2]] PROVE b = c
  <2>1. PICK i \in 1 .. Len(P) : \E s \in 1 .. Len(P[i]) : b = <<i, s>>
    BY <1>13, BoxOfPart
  <2>2. PICK s \in 1 .. Len(P[i]) : b = <<i, s>>
    BY <2>1
  <2>3. PICK j \in 1 .. Len(P) : \E r \in 1 .. Len(P[j]) : c = <<j, r>>
    BY <1>13, BoxOfPart
  <2>4. PICK r \in 1 .. Len(P[j]) : c = <<j, r>>
    BY <2>3
  <2>5. PICK m \in 1 .. n : \E p \in 1 .. Len(parts[m]) : P[i] = parts[m][p]
    BY <1>14
  <2>6. PICK p \in 1 .. Len(parts[m]) : P[i] = parts[m][p]
    BY <2>5
  <2>7. PICK k \in 1 .. n : \E q \in 1 .. Len(parts[k]) : P[j] = parts[k][q]
    BY <1>14
  <2>8. PICK q \in 1 .. Len(parts[k]) : P[j] = parts[k][q]
    BY <2>7
  <2>9. PICK y : y = P[i][s]
    OBVIOUS
  <2>10. Lies(parts, y, m, p, s) /\ Lies(parts, y, k, q, r)
    BY <1>1, <1>16, <2>2, <2>4, <2>6, <2>8, <2>9 DEF Lies
  <2>11. m = k /\ p = q /\ s = r
    BY <1>6, <2>10
  <2>12. P[i] = P[j]
    BY <2>6, <2>8, <2>11
  <2>13. i = j
    BY <1>11, <1>13, <2>12 DEF IsInjective
  <2> QED
    BY <2>2, <2>4, <2>11, <2>13
<1>17. ASSUME NEW x \in U PROVE \E b \in Boxes(P) : P[b[1]][b[2]] = x
  <2>1. PICK m \in 1 .. n : x \in S[m]
    BY <1>1
  <2>2. PICK c \in Boxes(parts[m]) : parts[m][c[1]][c[2]] = x
    BY <1>3, <2>1 DEF Hold
  <2>3. parts[m] \in Seq(Seq(V)) /\ DOMAIN parts[m] = 1 .. Len(parts[m])
    BY <1>2
  <2>4. PICK p \in 1 .. Len(parts[m]) : \E s \in 1 .. Len(parts[m][p]) : c = <<p, s>>
    <3>1. PICK a : a = parts[m]
      OBVIOUS
    <3>2. a \in Seq(Seq(V)) /\ c \in Boxes(a)
      BY <2>2, <2>3, <3>1
    <3>3. \E p \in 1 .. Len(a) : \E s \in 1 .. Len(a[p]) : c = <<p, s>>
      BY <3>2, BoxOfPart
    <3> QED
      BY <3>1, <3>3
  <2>5. PICK s \in 1 .. Len(parts[m][p]) : c = <<p, s>>
    BY <2>4
  <2>6. parts[m][p] \in Range(P)
    <3>1. parts[m][p] \in Range(parts[m])
      BY <2>3 DEF Range
    <3> QED
      BY <1>12, <3>1
  <2>7. PICK i \in 1 .. Len(P) : P[i] = parts[m][p]
    BY <1>13, <2>6 DEF Range
  <2>8. PICK b : b = <<i, s>>
    OBVIOUS
  <2>9. b \in Boxes(P)
    BY <1>13, <2>5, <2>7, <2>8, BoxOfPart
  <2>10. P[b[1]][b[2]] = x
    BY <2>2, <2>5, <2>7, <2>8
  <2> QED
    BY <2>9, <2>10
<1> QED
  BY <1>1, <1>15, <1>16, <1>17 DEF Hold, UnionOf
=============================================================================
