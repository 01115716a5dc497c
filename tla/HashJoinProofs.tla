--------------------------- MODULE HashJoinProofs ---------------------------
(***************************************************************************)
(* Proofs about HashJoin, for every number of probe threads and every pair *)
(* of input tables.                                                        *)
(***************************************************************************)
EXTENDS HashJoin, Lemmas

(* What the claims rest on: the counter counts, and only ever grows past   *)
(* the pages that have been handed out.                                    *)
ClaimInv ==
    /\ page_counter \in Nat
    /\ wpc \in [Threads -> {"none", "claim", "probe", "returned"}]
    /\ page \in [Threads -> Nat]
    /\ PageClaimedOnce

(* Before the first thread is created there are no claims. *)
LEMMA ClaimInit == Init => ClaimInv
BY DEF Init, ClaimInv, PageClaimedOnce

(* A claim takes the page the counter is about to pass. *)
LEMMA ClaimStep == ClaimInv /\ [Next]_vars => ClaimInv'
<1> SUFFICES ASSUME ClaimInv, [Next]_vars PROVE ClaimInv'
  OBVIOUS
<1> USE DEF ClaimInv, PageClaimedOnce
<1>1. CASE UNCHANGED vars
  BY <1>1 DEF vars
<1>2. ASSUME NEW i \in Threads, Prober(i) PROVE ClaimInv'
  <2>1. CASE ClaimPage(i) /\ page_counter < Len(probe_table)
    BY SMTT(30), <2>1 DEF ClaimPage
  <2>2. CASE ClaimPage(i) /\ ~(page_counter < Len(probe_table))
    BY <2>2 DEF ClaimPage
  <2>3. CASE ProbeKey(i)
    <3>1. UNCHANGED <<page_counter, wpc, page>>
      BY <2>3 DEF ProbeKey
    <3> QED
      BY <3>1
  <2>4. CASE SkipNull(i) \/ ProbeThrows(i)
    BY <2>4 DEF SkipNull, ProbeThrows
  <2>5. CASE PageEnd(i)
    BY <2>5 DEF PageEnd
  <2> QED
    BY <1>2, <2>1, <2>2, <2>3, <2>4, <2>5 DEF Prober
<1>3. CASE CreateProbeThread
  BY <1>3 DEF CreateProbeThread, NextThread
<1>4. CASE Caller /\ ~CreateProbeThread
  <2>1. UNCHANGED <<page_counter, wpc, page>>
    BY <1>4 DEF Caller, SkipJoin, CollectBuild, CollectThrows,
       JoinProbeThread, MergePages
  <2> QED
    BY <2>1
<1> QED
  BY <1>1, <1>2, <1>3, <1>4 DEF Next, Over, Caller

(* The work-stealing counter never gives a page of the probe column to two *)
(* threads, however many threads there are and however they interleave.    *)
THEOREM PagesClaimedOnce == Spec => []PageClaimedOnce
<1>1. ClaimInv => PageClaimedOnce
  BY DEF ClaimInv
<1> QED
  BY <1>1, ClaimInit, ClaimStep, PTL DEF Spec

-----------------------------------------------------------------------------
(* Where the caller and the threads are.                                   *)

InputsInv ==
    /\ IsTable(left) /\ IsTable(right)
    /\ build_left \in BOOLEAN
    /\ output_attrs \in Seq(Nat)

(* The threads from mi on are not created yet, those before mi are joined; *)
(* a thread returns when the counter has passed the last page, and probes  *)
(* a slot of its page or is at the end of it.                              *)
CallerInv ==
    /\ mpc \in {"start", "create", "join", "merge", "done", "thrown", "terminated"}
    /\ mi \in Threads
    /\ slot \in [Threads -> Nat]
    /\ mpc = "start" => page_counter = 0 /\ mi = 0 /\ \A i \in Threads : wpc[i] = "none"
    /\ mpc = "create" => \A i \in Threads : mi <= i => wpc[i] = "none"
    /\ mpc = "join" => \A i \in Threads : i < mi => wpc[i] = "returned"
    /\ mpc = "merge" \/ (mpc = "done" /\ build_type = "INT32") =>
         \A i \in Threads : wpc[i] = "returned"
    /\ \A i \in Threads :
         /\ wpc[i] = "returned" => Len(probe_table) <= page_counter
         /\ wpc[i] = "probe" => /\ page[i] < Len(probe_table)
                                /\ slot[i] <= Len(probe_table[page[i] + 1])

(* The inputs are tables and stay as they are. *)
LEMMA InputsInit == Init => InputsInv
BY JoinAssumption DEF Init, InputsInv

LEMMA JoinUnchanged == [Next]_vars => UNCHANGED join
BY DEF Next, vars, join, Caller, Prober, Over, SkipJoin, CollectBuild, CollectThrows,
       CreateProbeThread, JoinProbeThread, MergePages, ClaimPage, ProbeKey, SkipNull,
       ProbeThrows, PageEnd

LEMMA InputsStep == InputsInv /\ [Next]_vars => InputsInv'
BY JoinUnchanged DEF InputsInv, join

(* The tables of a join as sequences of sequences. *)
LEMMA TableFacts ==
    ASSUME NEW t, IsTable(t)
    PROVE  /\ Len(t) \in Nat /\ DOMAIN t = 1 .. Len(t)
           /\ \A p \in 1 .. Len(t) : /\ Len(t[p]) \in 0 .. PageSlots
                                     /\ DOMAIN t[p] = 1 .. Len(t[p])
BY JoinPagesAssumption DEF IsTable

LEMMA CallerInit == Init => CallerInv
BY JoinPagesAssumption DEF Init, CallerInv, Threads

LEMMA CallerStep == InputsInv /\ ClaimInv /\ CallerInv /\ [Next]_vars => CallerInv'
<1> SUFFICES ASSUME InputsInv, ClaimInv, CallerInv, [Next]_vars PROVE CallerInv'
  OBVIOUS
<1>1. /\ UNCHANGED <<left, right, build_left, build_type, output_attrs>>
      /\ probe_table' = probe_table
  BY JoinUnchanged DEF join, probe_table
<1>2. /\ Len(probe_table) \in Nat
      /\ \A p \in 1 .. Len(probe_table) : Len(probe_table[p]) \in Nat
  <2>1. IsTable(probe_table)
    BY DEF InputsInv, probe_table
  <2> QED
    BY <2>1, TableFacts, JoinPagesAssumption
<1>3. /\ page_counter \in Nat /\ mi \in Threads /\ slot \in [Threads -> Nat]
      /\ wpc \in [Threads -> {"none", "claim", "probe", "returned"}]
      /\ page \in [Threads -> Nat]
      /\ NumThreads \in Nat \ {0}
      /\ \A i \in Threads : i \in Nat /\ i < NumThreads
      /\ 0 \in Threads
  BY JoinPagesAssumption DEF ClaimInv, CallerInv, Threads
<1> USE DEF CallerInv
<1>4. CASE UNCHANGED vars
  BY <1>1, <1>4 DEF vars
<1>5. CASE SkipJoin
  BY <1>1, <1>3, <1>5 DEF SkipJoin
<1>6. CASE CollectBuild \/ CollectThrows
  BY <1>1, <1>3, <1>6 DEF CollectBuild, CollectThrows
<1>7. CASE CreateProbeThread
  <2>1. /\ mpc = "create" /\ wpc' = [wpc EXCEPT ![mi] = "claim"]
        /\ UNCHANGED <<page_counter, page, slot>>
    BY <1>7 DEF CreateProbeThread
  <2>2. \A i \in Threads : wpc'[i] = IF i = mi THEN "claim" ELSE wpc[i]
    BY <2>1, <1>3
  <2>3. CASE mi + 1 < NumThreads
    <3>1. mi' = mi + 1 /\ mpc' = "create" /\ mi' \in Threads
      BY <1>7, <2>3, <1>3 DEF CreateProbeThread, NextThread, Threads
    <3>2. \A i \in Threads : mi' <= i => i # mi /\ mi <= i
      BY <3>1, <1>3
    <3> QED
      BY <1>1, <2>1, <2>2, <3>1, <3>2
  <2>4. CASE ~(mi + 1 < NumThreads)
    <3>1. mi' = 0 /\ mpc' = "join"
      BY <1>7, <2>4 DEF CreateProbeThread, NextThread
    <3> QED
      BY <1>1, <1>3, <2>1, <2>2, <3>1
  <2> QED
    BY <2>3, <2>4
<1>8. CASE JoinProbeThread
  <2>1. /\ mpc = "join" /\ wpc[mi] = "returned"
        /\ UNCHANGED <<page_counter, page, slot, wpc>>
    BY <1>8 DEF JoinProbeThread
  <2>2. CASE mi + 1 < NumThreads
    <3>1. mi' = mi + 1 /\ mpc' = "join" /\ mi' \in Threads
      BY <1>8, <2>2, <1>3 DEF JoinProbeThread, NextThread, Threads
    <3>2. \A i \in Threads : i < mi' => i = mi \/ i < mi
      BY <3>1, <1>3
    <3> QED
      BY <1>1, <2>1, <3>1, <3>2
  <2>3. CASE ~(mi + 1 < NumThreads)
    <3>1. mi' = 0 /\ mpc' = "merge"
      BY <1>8, <2>3 DEF JoinProbeThread, NextThread
    <3>2. \A i \in Threads : i = mi \/ i < mi
      BY <2>3, <1>3
    <3> QED
      BY <1>1, <1>3, <2>1, <3>1, <3>2
  <2> QED
    BY <2>2, <2>3
<1>9. CASE MergePages
  <2>1. mpc = "merge" /\ UNCHANGED <<page_counter, page, slot, wpc>>
    BY <1>9 DEF MergePages
  <2>2. mi' \in Threads /\ mpc' \in {"merge", "done"}
    BY SMTT(30), <1>9, <1>3 DEF MergePages, NextThread, Threads
  <2> QED
    BY <1>1, <2>1, <2>2
<1>10. ASSUME NEW i \in Threads, Prober(i) PROVE CallerInv'
  <2>1. CASE ClaimPage(i)
    <3>1. /\ mpc \in {"create", "join"} /\ wpc[i] = "claim"
          /\ page_counter' = page_counter + 1
          /\ UNCHANGED <<mpc, mi>>
      BY <2>1 DEF ClaimPage, Running
    <3>2. CASE page_counter < Len(probe_table)
      <4>1. /\ page' = [page EXCEPT ![i] = page_counter]
            /\ slot' = [slot EXCEPT ![i] = 0]
            /\ wpc' = [wpc EXCEPT ![i] = "probe"]
        BY <2>1, <3>2 DEF ClaimPage
      <4>2. page_counter + 1 \in 1 .. Len(probe_table)
        BY <3>2, <1>2, <1>3
      <4> QED
        BY SMTT(30), <1>1, <1>2, <1>3, <3>1, <3>2, <4>1, <4>2
    <3>3. CASE ~(page_counter < Len(probe_table))
      <4>1. wpc' = [wpc EXCEPT ![i] = "returned"] /\ UNCHANGED <<page, slot>>
        BY <2>1, <3>3 DEF ClaimPage
      <4> QED
        BY <1>1, <1>2, <1>3, <3>1, <3>3, <4>1
    <3> QED
      BY <3>2, <3>3
  <2>2. CASE ProbeKey(i) \/ SkipNull(i)
    <3>1. /\ wpc[i] = "probe" /\ slot[i] < Len(probe_table[page[i] + 1])
          /\ slot' = [slot EXCEPT ![i] = @ + 1]
          /\ UNCHANGED <<mpc, mi, page_counter, wpc, page>>
      BY <2>2 DEF ProbeKey, SkipNull, AtCell
    <3>2. page[i] + 1 \in 1 .. Len(probe_table)
      BY <3>1, <1>2, <1>3
    <3>3. slot[i] + 1 <= Len(probe_table[page[i] + 1]) /\ slot[i] + 1 \in Nat
      BY SMTT(30), <3>1, <3>2, <1>2, <1>3
    <3> QED
      BY <1>1, <1>3, <3>1, <3>3
  <2>3. CASE ProbeThrows(i)
    BY <2>3, <1>1, <1>3 DEF ProbeThrows
  <2>4. CASE PageEnd(i)
    <3>1. /\ mpc \in {"create", "join"} /\ wpc[i] = "probe"
          /\ wpc' = [wpc EXCEPT ![i] = "claim"]
          /\ UNCHANGED <<mpc, mi, page_counter, page, slot>>
      BY <2>4 DEF PageEnd, Running
    <3> QED
      BY <1>1, <1>3, <3>1
  <2> QED
    BY <1>10, <2>1, <2>2, <2>3, <2>4 DEF Prober
<1> QED
  BY <1>4, <1>5, <1>6, <1>7, <1>8, <1>9, <1>10 DEF Next, Caller, Over

-----------------------------------------------------------------------------
(* What the hash table is built from.                                      *)

Entry(t, p, s) == [key |-> t[p][s], pos |-> (p - 1) * PageSlots + (s - 1)]

PageEntries(t, p) == {Entry(t, p, s) : s \in {x \in 1 .. Len(t[p]) : IsKey(t[p][x])}}

Entries(t) == UNION {PageEntries(t, p) : p \in 1 .. Len(t)}

(* The table has the keys of the build column, each with its position. *)
BuildInv == mpc \in {"create", "join"} => Range(temp_keys_pos) = Entries(build_table)

LEMMA PageKeysAre ==
    ASSUME NEW t, IsTable(t), NEW p \in 1 .. Len(t)
    PROVE  PageKeys(t, p) \in Seq(Entries(t)) /\ Range(PageKeys(t, p)) = PageEntries(t, p)
<1> DEFINE n == Len(t[p])
           part(s) == IF IsKey(t[p][s]) THEN <<Entry(t, p, s)>> ELSE <<>>
           seqs == [s \in 1 .. n |-> part(s)]
           V == Entries(t)
<1>1. n \in Nat
  BY TableFacts, JoinPagesAssumption
<1>2. PageKeys(t, p) = FlattenSeq(seqs)
  BY DEF PageKeys, Entry
<1>3. ASSUME NEW s \in 1 .. n
      PROVE  /\ part(s) \in Seq(V)
             /\ Range(part(s)) = {Entry(t, p, x) : x \in {y \in {s} : IsKey(t[p][y])}}
  <2>1. CASE IsKey(t[p][s])
    <3> DEFINE e == Entry(t, p, s)
    <3>1. e \in V
      BY <2>1 DEF Entries, PageEntries
    <3>2. part(s) = <<e>>
      BY <2>1
    <3>3. {Entry(t, p, x) : x \in {y \in {s} : IsKey(t[p][y])}} = {e}
      BY <2>1
    <3> HIDE DEF e, V, part
    <3>4. <<e>> \in Seq(V) /\ Range(<<e>>) = {e}
      BY <3>1 DEF Range
    <3> QED
      BY <3>2, <3>3, <3>4
  <2>2. CASE ~IsKey(t[p][s])
    <3>1. part(s) = <<>> /\ {y \in {s} : IsKey(t[p][y])} = {}
      BY <2>2
    <3> HIDE DEF V, part
    <3>2. <<>> \in Seq(V) /\ Range(<<>>) = {}
      BY DEF Range
    <3> QED
      BY <3>1, <3>2
  <2> QED
    BY <2>1, <2>2
<1>4. seqs \in Seq(Seq(V)) /\ Len(seqs) = n /\ \A s \in 1 .. n : seqs[s] = part(s)
  <2> HIDE DEF V, part, n
  <2> QED
    BY <1>1, <1>3
<1>5. /\ FlattenSeq(seqs) \in Seq(V)
      /\ Range(FlattenSeq(seqs)) = UNION {Range(seqs[s]) : s \in 1 .. Len(seqs)}
  <2> HIDE DEF V, seqs
  <2> QED
    BY <1>4, FlattenRange
<1>6. UNION {Range(seqs[s]) : s \in 1 .. n} = PageEntries(t, p)
  <2>1. ASSUME NEW e \in UNION {Range(seqs[s]) : s \in 1 .. n} PROVE e \in PageEntries(t, p)
    <3>1. PICK s \in 1 .. n : e \in Range(seqs[s])
      OBVIOUS
    <3>2. e \in {Entry(t, p, x) : x \in {y \in {s} : IsKey(t[p][y])}}
      BY <3>1, <1>3, <1>4
    <3> QED
      BY <3>2 DEF PageEntries
  <2>2. ASSUME NEW e \in PageEntries(t, p) PROVE e \in UNION {Range(seqs[s]) : s \in 1 .. n}
    <3>1. PICK s \in 1 .. n : IsKey(t[p][s]) /\ e = Entry(t, p, s)
      BY DEF PageEntries
    <3>2. e \in {Entry(t, p, x) : x \in {y \in {s} : IsKey(t[p][y])}}
      BY <3>1
    <3>3. e \in Range(seqs[s])
      BY <3>2, <1>3, <1>4
    <3> QED
      BY <3>3
  <2> HIDE DEF seqs
  <2> QED
    BY <2>1, <2>2
<1> QED
  BY <1>2, <1>4, <1>5, <1>6

LEMMA KeysAre ==
    ASSUME NEW t, IsTable(t)
    PROVE  Range(FlattenSeq([p \in 1 .. Len(t) |-> PageKeys(t, p)])) = Entries(t)
<1> DEFINE n == Len(t)
           V == Entries(t)
           seqs == [p \in 1 .. n |-> PageKeys(t, p)]
<1>1. n \in Nat
  BY TableFacts
<1>2. \A p \in 1 .. n : PageKeys(t, p) \in Seq(V) /\ Range(PageKeys(t, p)) = PageEntries(t, p)
  BY PageKeysAre
<1>3. V = UNION {PageEntries(t, p) : p \in 1 .. n}
  BY DEF Entries
<1> HIDE DEF V, n
<1>4. seqs \in Seq(Seq(V)) /\ Len(seqs) = n /\ \A p \in 1 .. n : seqs[p] = PageKeys(t, p)
  BY <1>1, <1>2
<1>5. Range(FlattenSeq(seqs)) = UNION {Range(seqs[p]) : p \in 1 .. n}
  <2> HIDE DEF seqs
  <2> QED
    BY <1>4, FlattenRange
<1>6. {Range(seqs[p]) : p \in 1 .. n} = {PageEntries(t, p) : p \in 1 .. n}
  <2> HIDE DEF seqs
  <2> QED
    BY <1>2, <1>4
<1> QED
  BY <1>3, <1>5, <1>6 DEF n, V

LEMMA BuildStep == InputsInv /\ BuildInv /\ [Next]_vars => BuildInv'
<1> SUFFICES ASSUME InputsInv, BuildInv, [Next]_vars PROVE BuildInv'
  OBVIOUS
<1>1. build_table' = build_table
  BY JoinUnchanged DEF join, build_table
<1>2. Entries(build_table)' = Entries(build_table)
  BY <1>1 DEF Entries, PageEntries, Entry, IsKey
<1>3. CASE CollectBuild
  <2>1. IsTable(build_table)
    BY DEF InputsInv, build_table
  <2>2. temp_keys_pos' =
          FlattenSeq([p \in 1 .. Len(build_table) |-> PageKeys(build_table, p)])
    BY <1>3 DEF CollectBuild
  <2> QED
    BY <1>2, <2>1, <2>2, KeysAre DEF BuildInv
<1>4. CASE UNCHANGED <<mpc, temp_keys_pos>>
  BY <1>2, <1>4 DEF BuildInv
<1>5. CASE CreateProbeThread \/ JoinProbeThread \/ MergePages
  BY <1>2, <1>5 DEF BuildInv, CreateProbeThread, JoinProbeThread, MergePages, NextThread
<1>6. CASE SkipJoin \/ CollectThrows \/ \E i \in Threads : ProbeThrows(i)
  BY <1>6 DEF BuildInv, SkipJoin, CollectThrows, ProbeThrows
<1>7. ASSUME NEW i \in Threads, Prober(i), ~ProbeThrows(i)
      PROVE  UNCHANGED <<mpc, temp_keys_pos>>
  BY <1>7 DEF Prober, ClaimPage, ProbeKey, SkipNull, PageEnd
<1> QED
  BY <1>3, <1>4, <1>5, <1>6, <1>7 DEF Next, Caller, Over, vars

(* What a probe finds: the positions of the build rows with its key. *)
BuildCells(key) == {b \in Cells(build_table) : KeyAt(build_table, b) = key}

PositionOf(at) == at[1] * PageSlots + at[2]

LEMMA CellsAre ==
    ASSUME NEW t, IsTable(t), NEW at
    PROVE  at \in Cells(t) <=> \E p, s : /\ p \in 1 .. Len(t) /\ s \in 1 .. Len(t[p])
                                         /\ at = <<p - 1, s - 1>>
<1>1. /\ Len(t) \in Nat
      /\ \A p \in 1 .. Len(t) : Len(t[p]) \in 0 .. PageSlots
      /\ PageSlots \in Nat
  BY TableFacts, JoinPagesAssumption
<1>2. ASSUME at \in Cells(t)
      PROVE  \E p, s : p \in 1 .. Len(t) /\ s \in 1 .. Len(t[p]) /\ at = <<p - 1, s - 1>>
  <2>1. PICK x \in 0 .. Len(t) - 1, y \in 0 .. PageSlots - 1 : at = <<x, y>> /\ y < Len(t[x + 1])
    BY <1>2 DEF Cells
  <2>2. /\ x + 1 \in 1 .. Len(t) /\ y + 1 \in 1 .. Len(t[x + 1])
        /\ (x + 1) - 1 = x /\ (y + 1) - 1 = y
    BY <1>1, <2>1
  <2> QED
    BY <2>1, <2>2
<1>3. ASSUME NEW p, NEW s, p \in 1 .. Len(t), s \in 1 .. Len(t[p]), at = <<p - 1, s - 1>>
      PROVE  at \in Cells(t)
  <2>1. /\ p - 1 \in 0 .. Len(t) - 1 /\ s - 1 \in 0 .. PageSlots - 1
        /\ s - 1 < Len(t[p]) /\ (p - 1) + 1 = p
    BY <1>1, <1>3
  <2> QED
    BY <1>3, <2>1 DEF Cells
<1> QED
  BY <1>2, <1>3

LEMMA MatchesAre ==
    ASSUME InputsInv, Range(temp_keys_pos) = Entries(build_table), NEW key, IsKey(key)
    PROVE  Matches(key) = {PositionOf(b) : b \in BuildCells(key)}
<1> DEFINE t == build_table
<1>1. IsTable(t)
  BY DEF InputsInv, build_table
<1>2. ASSUME NEW pos \in Matches(key) PROVE pos \in {PositionOf(b) : b \in BuildCells(key)}
  <2>1. PICK p \in 1 .. Len(t) : \E e \in PageEntries(t, p) : e.key = key /\ e.pos = pos
    BY DEF Matches, Entries
  <2>2. PICK s \in 1 .. Len(t[p]) : IsKey(t[p][s]) /\ Entry(t, p, s).key = key
                                    /\ Entry(t, p, s).pos = pos
    BY <2>1 DEF PageEntries
  <2>3. t[p][s] = key /\ pos = (p - 1) * PageSlots + (s - 1)
    BY <2>2 DEF Entry
  <2>4. <<p - 1, s - 1>> \in Cells(t)
    BY <1>1, CellsAre
  <2>5. (p - 1) + 1 = p /\ (s - 1) + 1 = s
    BY <1>1, TableFacts, JoinPagesAssumption
  <2>6. KeyAt(t, <<p - 1, s - 1>>) = key
    BY <2>3, <2>5 DEF KeyAt
  <2> QED
    BY <2>3, <2>4, <2>6 DEF BuildCells, PositionOf
<1>3. ASSUME NEW b \in BuildCells(key) PROVE PositionOf(b) \in Matches(key)
  <2>1. PICK p, s : p \in 1 .. Len(t) /\ s \in 1 .. Len(t[p]) /\ b = <<p - 1, s - 1>>
    BY <1>1, CellsAre DEF BuildCells
  <2>2. (p - 1) + 1 = p /\ (s - 1) + 1 = s
    BY <2>1, <1>1, TableFacts, JoinPagesAssumption
  <2>3. t[p][s] = key
    BY <2>1, <2>2 DEF BuildCells, KeyAt
  <2>4. Entry(t, p, s) \in Entries(t)
    BY <2>1, <2>3 DEF Entries, PageEntries
  <2>5. Entry(t, p, s).key = key /\ Entry(t, p, s).pos = PositionOf(b)
    BY <2>1, <2>3 DEF Entry, PositionOf
  <2> QED
    BY <2>4, <2>5 DEF Matches
<1> QED
  BY <1>2, <1>3

-----------------------------------------------------------------------------
(* The columns of the results.                                             *)

Origin == [col : Nat, page : Nat, slot : Nat]

ColumnsInv ==
    /\ thread_results \in [Threads -> [Columns -> Seq(Seq(Origin))]]
    /\ results \in [Columns -> Seq(Seq(Origin))]
    /\ ColumnsAligned
    /\ mpc = "start" => results = NoPages
    /\ \A i \in Threads :
         mpc \in {"start", "done"} \/ (mpc = "merge" /\ i < mi) => thread_results[i] = NoPages

LEMMA CellsFinite == ASSUME NEW t, IsTable(t) PROVE IsFiniteSet(Cells(t))
<1>1. Len(t) \in Nat /\ PageSlots \in Nat
  BY TableFacts, JoinPagesAssumption
<1>2. IsFiniteSet(0 .. Len(t) - 1) /\ IsFiniteSet(0 .. PageSlots - 1)
  <2>1. 0 \in Int /\ Len(t) - 1 \in Int /\ PageSlots - 1 \in Int
    BY <1>1
  <2> QED
    BY <2>1, FS_Interval
<1>3. IsFiniteSet((0 .. Len(t) - 1) \X (0 .. PageSlots - 1))
  BY <1>2, FS_Product
<1> QED
  BY <1>3, FS_Subset DEF Cells

(* A position of a cell tells its page and its slot. *)
LEMMA CellPosition ==
    ASSUME NEW t, IsTable(t), NEW at \in Cells(t)
    PROVE  /\ PositionOf(at) \in Nat /\ PositionAt(PositionOf(at)) = at
           /\ at[1] \in Nat /\ at[2] \in Nat /\ at = <<at[1], at[2]>>
<1>1. /\ at[1] \in Nat /\ at[2] \in 0 .. PageSlots - 1 /\ at = <<at[1], at[2]>>
      /\ PageSlots \in Nat \ {0}
  BY TableFacts, JoinPagesAssumption DEF Cells
<1>2. /\ PositionOf(at) \in Nat
      /\ PositionOf(at) \div PageSlots = at[1]
      /\ PositionOf(at) % PageSlots = at[2]
  BY <1>1, PositionParts DEF PositionOf
<1> QED
  BY <1>1, <1>2 DEF PositionAt

(* The order in which a probe returns the matches is a numbering of them. *)
LEMMA MatchOrder ==
    ASSUME InputsInv, Range(temp_keys_pos) = Entries(build_table), NEW key, IsKey(key),
           NEW matches \in SetToSeqs(Matches(key))
    PROVE  /\ Cardinality(Matches(key)) \in Nat
           /\ matches \in Bijection(1 .. Cardinality(Matches(key)), Matches(key))
           /\ Matches(key) \subseteq Nat
<1> DEFINE S == Matches(key)
           C == BuildCells(key)
           n == Cardinality(S)
<1>1. S = {PositionOf(b) : b \in C}
  BY MatchesAre
<1>2. IsTable(build_table) /\ C \subseteq Cells(build_table)
  BY DEF InputsInv, build_table, BuildCells
<1>3. IsFiniteSet(C)
  BY <1>2, CellsFinite, FS_Subset
<1>4. S \subseteq Nat
  BY <1>1, <1>2, CellPosition
<1>5. IsFiniteSet(S)
  <2> DEFINE f == [b \in C |-> PositionOf(b)]
  <2>1. f \in Surjection(C, S)
    BY <1>1 DEF Surjection
  <2> QED
    BY <2>1, <1>3, FS_Surjection
<1>6. n \in Nat
  BY <1>5, FS_CardinalityType
<1>7. /\ matches \in [1 .. n -> S]
      /\ \A i, j \in 1 .. n : i # j => matches[i] # matches[j]
  BY DEF SetToSeqs
<1> HIDE DEF S, n
<1>8. matches \in Injection(1 .. n, S)
  BY <1>7 DEF Injection, IsInjective
<1>9. Cardinality(1 .. n) = n
  <2>1. 1 \in Int /\ n \in Int
    BY <1>6
  <2>2. Cardinality(1 .. n) = IF 1 > n THEN 0 ELSE n - 1 + 1
    BY <2>1, FS_Interval
  <2> QED
    BY <2>2, <1>6
<1>10. matches \in Surjection(1 .. n, S)
  <2>1. Cardinality(1 .. n) = Cardinality(S)
    BY <1>9 DEF n
  <2> QED
    BY <2>1, <1>5, <1>8, FS_Injection
<1> QED
  BY <1>4, <1>6, <1>8, <1>10 DEF Bijection, S, n

(* What a probed key appends: match m goes to box m of every column. *)
Appended(i, matches, after, box) ==
    LET n == Cardinality(Matches(cell(i)))
    IN  /\ n \in Nat /\ matches \in Bijection(1 .. n, Matches(cell(i)))
        /\ \A c \in Columns :
             /\ thread_results'[i][c] \in Seq(Seq(Origin))
             /\ PagesWithin(thread_results'[i][c], PageSlots)
             /\ Shape(thread_results'[i][c]) = after
             /\ Boxes(thread_results'[i][c]) =
                  Boxes(thread_results[i][c]) \cup {box[m] : m \in 1 .. n}
             /\ \A m \in 1 .. n :
                  /\ box[m] \notin Boxes(thread_results[i][c])
                  /\ thread_results'[i][c][box[m][1]][box[m][2]] = Copied(i, c, matches[m])
             /\ \A b \in Boxes(thread_results[i][c]) :
                  thread_results'[i][c][b[1]][b[2]] = thread_results[i][c][b[1]][b[2]]
        /\ \A m, k \in 1 .. n : m # k => box[m] # box[k]

LEMMA ProbeAppends ==
    ASSUME InputsInv, ClaimInv, CallerInv, BuildInv, ColumnsInv, Columns # {},
           NEW i \in Threads, ProbeKey(i)
    PROVE  \E matches, after, box : Appended(i, matches, after, box)
<1>1. /\ mpc \in {"create", "join"} /\ IsKey(cell(i))
      /\ Range(temp_keys_pos) = Entries(build_table)
  BY DEF ProbeKey, AtCell, Running, BuildInv
<1>2. PICK matches \in SetToSeqs(Matches(cell(i))) :
        thread_results' = [thread_results EXCEPT ![i] =
            [c \in Columns |->
               append_all(@[c], [m \in DOMAIN matches |-> Copied(i, c, matches[m])], PageSlots)]]
  BY DEF ProbeKey
<1> DEFINE S == Matches(cell(i))
           n == Cardinality(S)
           cols == thread_results[i]
           vals == [c \in Columns |-> [m \in 1 .. n |-> Copied(i, c, matches[m])]]
<1>3. n \in Nat /\ matches \in Bijection(1 .. n, S) /\ S \subseteq Nat
  BY <1>1, MatchOrder
<1>4. DOMAIN matches = 1 .. n /\ \A m \in 1 .. n : matches[m] \in Nat
  BY <1>3 DEF Bijection, Injection
<1>5. cols \in [Columns -> Seq(Seq(Origin))]
  BY DEF ColumnsInv
<1>6. \A c \in Columns : thread_results'[i][c] = append_all(cols[c], vals[c], PageSlots)
  <2>1. thread_results \in [Threads -> [Columns -> Seq(Seq(Origin))]]
    BY DEF ColumnsInv
  <2>2. thread_results'[i] =
          [c \in Columns |->
             append_all(cols[c], [m \in DOMAIN matches |-> Copied(i, c, matches[m])], PageSlots)]
    BY <1>2, <2>1
  <2> QED
    BY <2>2, <1>4
<1>7. ASSUME NEW c \in Columns, NEW pos \in Nat PROVE Copied(i, c, pos) \in Origin
  <2>1. output_attrs[c] \in Nat
    BY DEF InputsInv, Columns
  <2>2. pos \div PageSlots \in Nat /\ pos % PageSlots \in Nat
    BY JoinPagesAssumption, DivMod
  <2>3. page[i] \in Nat /\ slot[i] \in Nat
    BY DEF ClaimInv, CallerInv
  <2> QED
    BY <2>1, <2>2, <2>3 DEF Copied, Origin
<1>8. \A c \in Columns : vals[c] \in Seq(Origin) /\ Len(vals[c]) = n
  <2>1. ASSUME NEW c \in Columns PROVE vals[c] \in Seq(Origin) /\ Len(vals[c]) = n
    <3>1. \A m \in 1 .. n : Copied(i, c, matches[m]) \in Origin
      BY <1>4, <1>7
    <3>2. vals[c] = [m \in 1 .. n |-> Copied(i, c, matches[m])]
      OBVIOUS
    <3> HIDE DEF n, vals
    <3> QED
      BY <3>1, <3>2, <1>3
  <2> QED
    BY <2>1
<1>9. PICK first \in Columns : TRUE
  OBVIOUS
<1> DEFINE shape == Shape(cols[first])
<1>10. \A c \in Columns : PagesWithin(cols[c], PageSlots) /\ Shape(cols[c]) = shape
  BY DEF ColumnsInv, ColumnsAligned
<1>11. PageSlots \in Nat \ {0}
  BY JoinPagesAssumption
<1>13. PICK after, box : Filled(Columns, Origin, PageSlots, cols, vals, n, after, box)
  <2> HIDE DEF cols, vals, n, shape
  <2> QED
    BY <1>3, <1>5, <1>8, <1>9, <1>10, <1>11, AppendColumns
<1>14. \A c \in Columns, m \in 1 .. n : vals[c][m] = Copied(i, c, matches[m])
  OBVIOUS
<1>15. Appended(i, matches, after, box)
  <2>1. ASSUME NEW c \in Columns
        PROVE  /\ thread_results'[i][c] \in Seq(Seq(Origin))
               /\ PagesWithin(thread_results'[i][c], PageSlots)
               /\ Shape(thread_results'[i][c]) = after
               /\ Boxes(thread_results'[i][c]) = Boxes(cols[c]) \cup {box[m] : m \in 1 .. n}
               /\ \A m \in 1 .. n :
                    /\ box[m] \notin Boxes(cols[c])
                    /\ thread_results'[i][c][box[m][1]][box[m][2]] = Copied(i, c, matches[m])
               /\ \A b \in Boxes(cols[c]) :
                    thread_results'[i][c][b[1]][b[2]] = cols[c][b[1]][b[2]]
    <3> HIDE DEF vals, cols, n
    <3> DEFINE new == append_all(cols[c], vals[c], PageSlots)
    <3>1. /\ new \in Seq(Seq(Origin)) /\ PagesWithin(new, PageSlots)
          /\ Shape(new) = after
          /\ Boxes(new) = Boxes(cols[c]) \cup {box[m] : m \in 1 .. n}
          /\ \A m \in 1 .. n : /\ box[m] \notin Boxes(cols[c])
                               /\ new[box[m][1]][box[m][2]] = vals[c][m]
          /\ \A b \in Boxes(cols[c]) : new[b[1]][b[2]] = cols[c][b[1]][b[2]]
      BY <1>13 DEF Filled
    <3> HIDE DEF new
    <3>2. thread_results'[i][c] = new
      BY <1>6 DEF new
    <3> QED
      BY <3>1, <3>2, <1>14
  <2>2. \A m, k \in 1 .. n : m # k => box[m] # box[k]
    BY <1>13 DEF Filled
  <2> HIDE DEF vals
  <2> QED
    BY <1>3, <2>1, <2>2 DEF Appended
<1> QED
  BY <1>15

(* Columns without pages are aligned. *)
LEMMA EmptyColumns ==
    /\ NoPages \in [Columns -> Seq(Seq(Origin))]
    /\ \A c \in Columns : NoPages[c] = <<>>
    /\ PagesWithin(<<>>, PageSlots) /\ Boxes(<<>>) = {}
<1>1. <<>> \in Seq(Seq(Origin)) /\ DOMAIN <<>> = {}
  OBVIOUS
<1>2. PagesWithin(<<>>, PageSlots) /\ Boxes(<<>>) = {}
  BY <1>1 DEF PagesWithin, Boxes
<1>3. NoPages = [c \in Columns |-> <<>>]
  BY DEF NoPages
<1> QED
  BY <1>1, <1>2, <1>3

LEMMA ColumnsInit == Init => ColumnsInv
<1> SUFFICES ASSUME Init PROVE ColumnsInv
  OBVIOUS
<1>1. /\ mpc = "start" /\ results = NoPages
      /\ thread_results = [i \in Threads |-> NoPages]
  BY DEF Init
<1>2. /\ \A i \in Threads : thread_results[i] = NoPages
      /\ thread_results \in [Threads -> [Columns -> Seq(Seq(Origin))]]
      /\ results \in [Columns -> Seq(Seq(Origin))]
  BY <1>1, EmptyColumns
<1>3. ColumnsAligned
  BY <1>1, <1>2, EmptyColumns DEF ColumnsAligned
<1> QED
  BY <1>1, <1>2, <1>3 DEF ColumnsInv

(* Pages moved behind those of the result keep the columns aligned. *)
LEMMA MergeAligned ==
    ASSUME ColumnsInv, mi \in Threads, MergePages
    PROVE  /\ results' \in [Columns -> Seq(Seq(Origin))]
           /\ thread_results' \in [Threads -> [Columns -> Seq(Seq(Origin))]]
           /\ \A i \in Threads :
                thread_results'[i] = IF i = mi THEN NoPages ELSE thread_results[i]
           /\ \A c, d \in Columns : /\ PagesWithin(results'[c], PageSlots)
                                    /\ Shape(results'[c]) = Shape(results'[d])
<1>1. /\ results' = [c \in Columns |-> results[c] \o thread_results[mi][c]]
      /\ thread_results' = [thread_results EXCEPT ![mi] = NoPages]
  BY DEF MergePages
<1>2. /\ thread_results \in [Threads -> [Columns -> Seq(Seq(Origin))]]
      /\ results \in [Columns -> Seq(Seq(Origin))]
      /\ ColumnsAligned
  BY DEF ColumnsInv
<1>3. \A i \in Threads : thread_results'[i] = IF i = mi THEN NoPages ELSE thread_results[i]
  BY <1>1, <1>2
<1>4. thread_results' \in [Threads -> [Columns -> Seq(Seq(Origin))]]
  BY <1>1, <1>2, EmptyColumns
<1>5. ASSUME NEW c \in Columns
      PROVE  /\ results'[c] \in Seq(Seq(Origin)) /\ PagesWithin(results'[c], PageSlots)
             /\ Shape(results'[c]) = Shape(results[c]) \o Shape(thread_results[mi][c])
  <2> DEFINE a == results[c]
             b == thread_results[mi][c]
  <2>1. /\ a \in Seq(Seq(Origin)) /\ b \in Seq(Seq(Origin))
        /\ PagesWithin(a, PageSlots) /\ PagesWithin(b, PageSlots)
    BY <1>2 DEF ColumnsAligned
  <2>2. results'[c] = a \o b
    BY <1>1
  <2>3. PageSlots \in Nat
    BY JoinPagesAssumption
  <2> HIDE DEF a, b
  <2> DEFINE new == results'[c]
  <2>5. new = a \o b
    BY <2>2
  <2>4. /\ new \in Seq(Seq(Origin)) /\ PagesWithin(new, PageSlots)
        /\ Shape(new) = Shape(a) \o Shape(b)
    <3> HIDE DEF new
    <3> QED
      BY <2>1, <2>5, <2>3, ConcatPages
  <2> QED
    BY <2>4 DEF a, b
<1>6. results' \in [Columns -> Seq(Seq(Origin))]
  BY <1>1, <1>5
<1>7. ASSUME NEW c \in Columns, NEW d \in Columns PROVE Shape(results'[c]) = Shape(results'[d])
  BY <1>2, <1>5 DEF ColumnsAligned
<1> QED
  BY <1>3, <1>4, <1>5, <1>6, <1>7

LEMMA ColumnsStep ==
    InputsInv /\ ClaimInv /\ CallerInv /\ BuildInv /\ ColumnsInv /\ [Next]_vars => ColumnsInv'
<1> SUFFICES ASSUME InputsInv, ClaimInv, CallerInv, BuildInv, ColumnsInv, [Next]_vars
             PROVE  ColumnsInv'
  OBVIOUS
<1>1. Columns' = Columns /\ NoPages' = NoPages /\ Threads' = Threads
  BY JoinUnchanged DEF join, Columns, NoPages
<1>2. /\ thread_results \in [Threads -> [Columns -> Seq(Seq(Origin))]]
      /\ results \in [Columns -> Seq(Seq(Origin))]
      /\ ColumnsAligned
      /\ mi \in Threads
  BY DEF ColumnsInv, CallerInv
<1>3. ASSUME UNCHANGED <<results, thread_results>>,
             mpc' = "start" => mpc = "start",
             mpc' = "done" => mpc \in {"start", "done"},
             mpc' = "merge" => (mpc = "merge" /\ mi' = mi) \/ mi' = 0
      PROVE  ColumnsInv'
  <2>1. ColumnsAligned'
    BY <1>1, <1>2, <1>3 DEF ColumnsAligned
  <2>2. \A i \in Threads : ~(i < 0)
    BY DEF Threads
  <2>3. mpc' = "start" => results' = NoPages
    BY <1>3 DEF ColumnsInv
  <2>4. ASSUME NEW i \in Threads, mpc' \in {"start", "done"} \/ (mpc' = "merge" /\ i < mi')
        PROVE  thread_results'[i] = NoPages
    <3>1. thread_results' = thread_results
      BY <1>3
    <3>2. CASE mpc' = "merge" /\ i < mi'
      BY <1>3, <2>2, <3>1, <3>2 DEF ColumnsInv
    <3>3. CASE mpc' \in {"start", "done"}
      <4>1. mpc \in {"start", "done"}
        BY <1>3, <3>3
      <4>2. thread_results[i] = NoPages
        BY <4>1 DEF ColumnsInv
      <4> QED
        BY <3>1, <4>2
    <3> QED
      BY <2>4, <3>2, <3>3
  <2>5. /\ thread_results' \in [Threads -> [Columns -> Seq(Seq(Origin))]]
        /\ results' \in [Columns -> Seq(Seq(Origin))]
    BY <1>2, <1>3
  <2> QED
    BY <1>1, <2>1, <2>3, <2>4, <2>5 DEF ColumnsInv
<1>4. CASE UNCHANGED vars
  BY <1>3, <1>4 DEF vars
<1>5. CASE SkipJoin \/ CollectBuild \/ CollectThrows \/ CreateProbeThread \/ JoinProbeThread
  BY <1>3, <1>5 DEF SkipJoin, CollectBuild, CollectThrows, CreateProbeThread,
                    JoinProbeThread, NextThread
<1>6. CASE MergePages
  <2>1. /\ results' \in [Columns -> Seq(Seq(Origin))]
        /\ thread_results' \in [Threads -> [Columns -> Seq(Seq(Origin))]]
        /\ \A i \in Threads :
             thread_results'[i] = IF i = mi THEN NoPages ELSE thread_results[i]
        /\ \A c, d \in Columns : /\ PagesWithin(results'[c], PageSlots)
                                 /\ Shape(results'[c]) = Shape(results'[d])
    BY <1>2, <1>6, MergeAligned
  <2>2. ColumnsAligned'
    <3>1. ASSUME NEW c \in Columns, NEW d \in Columns, NEW i \in Threads
          PROVE  /\ PagesWithin(thread_results'[i][c], PageSlots)
                 /\ Shape(thread_results'[i][c]) = Shape(thread_results'[i][d])
      <4>1. CASE i = mi
        BY <4>1, <2>1, EmptyColumns
      <4>2. CASE i # mi
        BY <4>2, <2>1, <1>2 DEF ColumnsAligned
      <4> QED
        BY <4>1, <4>2
    <3> QED
      BY <1>1, <2>1, <3>1 DEF ColumnsAligned
  <2>3. /\ mpc = "merge" /\ mpc' \in {"merge", "done"}
        /\ mpc' = "merge" => mi' = mi + 1
        /\ mpc' = "done" => ~(mi + 1 < NumThreads)
    BY <1>6 DEF MergePages, NextThread
  <2>4. \A i \in Threads : mpc' = "done" \/ (mpc' = "merge" /\ i < mi') => i = mi \/ i < mi
    BY <1>2, <2>3, JoinPagesAssumption DEF Threads
  <2>5. \A i \in Threads : mpc' = "done" \/ (mpc' = "merge" /\ i < mi') =>
          thread_results'[i] = NoPages
    BY <2>1, <2>3, <2>4 DEF ColumnsInv
  <2> QED
    BY <1>1, <2>1, <2>2, <2>3, <2>5 DEF ColumnsInv
<1>7. ASSUME NEW i \in Threads, ProbeKey(i) PROVE ColumnsInv'
  <2>1. /\ mpc \in {"create", "join"} /\ UNCHANGED <<mpc, mi, results>>
        /\ \E new : thread_results' = [thread_results EXCEPT ![i] = [c \in Columns |-> new[c]]]
    <3>1. PICK matches : thread_results' = [thread_results EXCEPT ![i] =
             [c \in Columns |->
                append_all(thread_results[i][c],
                           [m \in DOMAIN matches |-> Copied(i, c, matches[m])], PageSlots)]]
      BY <1>7 DEF ProbeKey
    <3> DEFINE new == [c \in Columns |->
                append_all(thread_results[i][c],
                           [m \in DOMAIN matches |-> Copied(i, c, matches[m])], PageSlots)]
    <3>2. thread_results' = [thread_results EXCEPT ![i] = [c \in Columns |-> new[c]]]
      BY <3>1
    <3> HIDE DEF new
    <3> QED
      BY <1>7, <3>2 DEF ProbeKey, AtCell, Running
  <2>2. PICK new : thread_results' = [thread_results EXCEPT ![i] = [c \in Columns |-> new[c]]]
    BY <2>1
  <2>3. /\ \A j \in Threads : j # i => thread_results'[j] = thread_results[j]
        /\ DOMAIN thread_results' = Threads
        /\ thread_results' = [j \in Threads |-> thread_results'[j]]
        /\ thread_results'[i] = [c \in Columns |-> thread_results'[i][c]]
    BY <1>2, <2>2
  <2>4. CASE Columns = {}
    <3>1. thread_results' \in [Threads -> [Columns -> Seq(Seq(Origin))]]
      <4>1. \A j \in Threads : thread_results'[j] \in [Columns -> Seq(Seq(Origin))]
        BY <1>2, <2>3, <2>4
      <4> QED
        BY <2>3, <4>1
    <3> QED
      BY <1>1, <1>2, <2>1, <2>4, <3>1 DEF ColumnsInv, ColumnsAligned
  <2>5. CASE Columns # {}
    <3>1. PICK matches, after, box : Appended(i, matches, after, box)
      BY <1>7, <2>5, ProbeAppends
    <3>2. \A c \in Columns : /\ thread_results'[i][c] \in Seq(Seq(Origin))
                             /\ PagesWithin(thread_results'[i][c], PageSlots)
                             /\ Shape(thread_results'[i][c]) = after
      BY <3>1 DEF Appended
    <3>3. thread_results' \in [Threads -> [Columns -> Seq(Seq(Origin))]]
      <4>1. thread_results'[i] \in [Columns -> Seq(Seq(Origin))]
        BY <2>3, <3>2
      <4>2. \A j \in Threads : thread_results'[j] \in [Columns -> Seq(Seq(Origin))]
        BY <1>2, <2>3, <4>1
      <4> QED
        BY <2>3, <4>2
    <3>4. ColumnsAligned'
      BY <1>1, <1>2, <2>1, <2>3, <3>2 DEF ColumnsAligned
    <3> QED
      BY <1>1, <1>2, <2>1, <3>3, <3>4 DEF ColumnsInv
  <2> QED
    BY <2>4, <2>5
<1>8. ASSUME NEW i \in Threads, Prober(i), ~ProbeKey(i) PROVE ColumnsInv'
  BY <1>3, <1>8 DEF Prober, ClaimPage, SkipNull, ProbeThrows, PageEnd
<1> QED
  BY <1>4, <1>5, <1>6, <1>7, <1>8 DEF Next, Caller, Over

JoinInv == InputsInv /\ ClaimInv /\ CallerInv /\ BuildInv /\ ColumnsInv

LEMMA JoinInvInit == Init => JoinInv
<1>1. Init => BuildInv
  BY DEF Init, BuildInv
<1> QED
  BY <1>1, InputsInit, ClaimInit, CallerInit, ColumnsInit DEF JoinInv

LEMMA JoinInvStep == JoinInv /\ [Next]_vars => JoinInv'
BY InputsStep, ClaimStep, CallerStep, BuildStep, ColumnsStep DEF JoinInv

(* A position computed on one column of a result addresses the same row in *)
(* every other column, for every number of threads, size of pages and pair *)
(* of inputs, while the threads append and while their pages are merged.   *)
THEOREM ColumnsStayAligned == Spec => []ColumnsAligned
<1>1. JoinInv => ColumnsAligned
  BY DEF JoinInv, ColumnsInv
<1> QED
  BY <1>1, JoinInvInit, JoinInvStep, PTL DEF Spec

-----------------------------------------------------------------------------
(* The rows that have been found.                                          *)

(* The row of a pair on the probe side, and the pair of a build and a      *)
(* probe row.                                                              *)
ProbeSide(pair) == IF build_left THEN pair[2] ELSE pair[1]

PairOf(b, q) == IF build_left THEN <<b, q>> ELSE <<q, b>>

(* Every found pair of rows lies in one box of one holder, and every box   *)
(* holds a found pair.                                                     *)
RowsInv ==
    mpc \in {"create", "join", "merge", "done"} /\ build_type = "INT32" /\ Columns # {} =>
        \E B \in Bijection(Found, Held) :
            \A pair \in Found : RowHeld(B[pair]) = Combined(pair[1], pair[2])

LEMMA InJoined ==
    ASSUME InputsInv, NEW pair
    PROVE  pair \in Joined <=>
             \E b, q : /\ b \in Cells(build_table) /\ q \in Cells(probe_table)
                       /\ IsKey(KeyAt(probe_table, q))
                       /\ KeyAt(build_table, b) = KeyAt(probe_table, q)
                       /\ pair = PairOf(b, q)
<1>1. pair \in Joined <=> \E l, r : /\ l \in Cells(left) /\ r \in Cells(right)
                                    /\ IsKey(KeyAt(left, l)) /\ KeyAt(left, l) = KeyAt(right, r)
                                    /\ pair = <<l, r>>
  <2>1. \A x \in Cells(left) \X Cells(right) : x = <<x[1], x[2]>>
    OBVIOUS
  <2> QED
    BY <2>1 DEF Joined, Joins
<1>2. CASE build_left
  <2>1. build_table = left /\ probe_table = right /\ \A b, q : PairOf(b, q) = <<b, q>>
    BY <1>2 DEF build_table, probe_table, PairOf
  <2> QED
    BY <1>1, <2>1
<1>3. CASE ~build_left
  <2>1. build_table = right /\ probe_table = left /\ \A b, q : PairOf(b, q) = <<q, b>>
    BY <1>3 DEF build_table, probe_table, PairOf
  <2> QED
    BY <1>1, <2>1
<1> QED
  BY <1>2, <1>3

LEMMA PairSides ==
    ASSUME NEW b, NEW q
    PROVE  /\ ProbeSide(PairOf(b, q)) = q
           /\ \A b2, q2 : PairOf(b, q) = PairOf(b2, q2) <=> b = b2 /\ q = q2
BY DEF ProbeSide, PairOf

(* No step but that of a key changes which keys have been probed. *)
LEMMA ProbedSame ==
    ASSUME InputsInv, ClaimInv, CallerInv, [Next]_vars, \A i \in Threads : ~ProbeKey(i),
           NEW at \in Cells(probe_table), IsKey(KeyAt(probe_table, at))
    PROVE  Probed(at)' <=> Probed(at)
<1>1. PICK p, s : /\ p \in 1 .. Len(probe_table) /\ s \in 1 .. Len(probe_table[p])
                  /\ at = <<p - 1, s - 1>>
  BY SMTT(30), CellsAre DEF InputsInv, probe_table
<1>2. /\ Len(probe_table) \in Nat /\ \A x \in 1 .. Len(probe_table) : Len(probe_table[x]) \in Nat
  BY TableFacts, JoinPagesAssumption DEF InputsInv, probe_table
<1>3. /\ at[1] = p - 1 /\ at[2] = s - 1 /\ at[1] + 1 = p /\ at[2] + 1 = s
      /\ at[1] \in Nat /\ at[2] \in Nat
      /\ at[1] < Len(probe_table) /\ at[2] < Len(probe_table[at[1] + 1])
      /\ IsKey(probe_table[at[1] + 1][at[2] + 1])
  BY <1>1, <1>2 DEF KeyAt
<1> HIDE <1>1
<1>4. /\ page_counter \in Nat /\ slot \in [Threads -> Nat] /\ page \in [Threads -> Nat]
      /\ wpc \in [Threads -> {"none", "claim", "probe", "returned"}]
      /\ mi \in Threads
  BY DEF ClaimInv, CallerInv
<1>5. CASE UNCHANGED <<page_counter, wpc, page, slot>>
  BY <1>5 DEF Probed
<1>6. CASE UNCHANGED vars \/ SkipJoin \/ CollectBuild \/ CollectThrows \/ JoinProbeThread
           \/ MergePages
  BY <1>5, <1>6 DEF vars, SkipJoin, CollectBuild, CollectThrows, JoinProbeThread, MergePages
<1>7. CASE CreateProbeThread
  <2>1. /\ wpc' = [wpc EXCEPT ![mi] = "claim"] /\ wpc[mi] = "none"
        /\ UNCHANGED <<page_counter, page, slot>>
    BY <1>4, <1>7 DEF CreateProbeThread, CallerInv, Threads
  <2> QED
    BY <1>4, <2>1 DEF Probed
<1>8. ASSUME NEW i \in Threads, ClaimPage(i) PROVE Probed(at)' <=> Probed(at)
  <2>1. wpc[i] = "claim" /\ page_counter' = page_counter + 1
    BY <1>8 DEF ClaimPage
  <2>2. CASE page_counter < Len(probe_table)
    <3>1. /\ page' = [page EXCEPT ![i] = page_counter]
          /\ slot' = [slot EXCEPT ![i] = 0]
          /\ wpc' = [wpc EXCEPT ![i] = "probe"]
      BY <1>8, <2>2 DEF ClaimPage
    <3>2. /\ page'[i] = page_counter /\ slot'[i] = 0 /\ wpc'[i] = "probe"
          /\ \A j \in Threads : j # i =>
               page'[j] = page[j] /\ slot'[j] = slot[j] /\ wpc'[j] = wpc[j]
      BY <1>4, <3>1
    <3>3. CASE at[1] = page_counter
      <4>1. ~Probed(at)
        BY <3>3, <1>4 DEF Probed
      <4>2. ~(at[2] < 0)
        BY <1>3
      <4>3. ~Probed(at)'
        BY <3>2, <3>3, <4>2 DEF Probed
      <4> QED
        BY <4>1, <4>3
    <3>4. CASE at[1] # page_counter
      <4>1. at[1] < page_counter' <=> at[1] < page_counter
        BY SMTT(30), <1>3, <1>4, <2>1, <3>4
      <4> QED
        BY <2>1, <3>2, <3>4, <4>1 DEF Probed
    <3> QED
      BY <3>3, <3>4
  <2>3. CASE ~(page_counter < Len(probe_table))
    <3>1. wpc' = [wpc EXCEPT ![i] = "returned"] /\ UNCHANGED <<page, slot>>
      BY <1>8, <2>3 DEF ClaimPage
    <3>2. at[1] < page_counter /\ at[1] < page_counter'
      BY SMTT(30), <1>2, <1>3, <1>4, <2>1, <2>3
    <3> QED
      BY <1>4, <2>1, <3>1, <3>2 DEF Probed
  <2> QED
    BY <2>2, <2>3
<1>9. ASSUME NEW i \in Threads, SkipNull(i) PROVE Probed(at)' <=> Probed(at)
  <2>1. /\ wpc[i] = "probe" /\ slot' = [slot EXCEPT ![i] = @ + 1]
        /\ UNCHANGED <<page_counter, wpc, page>>
        /\ ~IsKey(probe_table[page[i] + 1][slot[i] + 1])
    BY <1>9 DEF SkipNull, AtCell, cell, IsKey
  <2>2. /\ slot'[i] = slot[i] + 1
        /\ \A j \in Threads : j # i => slot'[j] = slot[j]
    BY <1>4, <2>1
  <2>3. page[i] = at[1] => slot[i] # at[2]
    BY <1>3, <2>1
  <2>4. page[i] = at[1] => (at[2] < slot[i] + 1 <=> at[2] < slot[i])
    BY <1>3, <1>4, <2>3
  <2>5. \A j \in Threads : page[j] = at[1] => (at[2] < slot'[j] <=> at[2] < slot[j])
    BY <2>2, <2>4
  <2> QED
    BY <2>1, <2>5 DEF Probed
<1>10. ASSUME NEW i \in Threads, PageEnd(i) PROVE Probed(at)' <=> Probed(at)
  <2>1. /\ wpc[i] = "probe" /\ ~(slot[i] < Len(probe_table[page[i] + 1]))
        /\ wpc' = [wpc EXCEPT ![i] = "claim"]
        /\ UNCHANGED <<page_counter, page, slot>>
    BY <1>10 DEF PageEnd, AtCell
  <2>2. page[i] = at[1] => at[2] < slot[i]
    BY <1>1, <1>2, <1>3, <1>4, <2>1
  <2>3. wpc'[i] = "claim" /\ \A j \in Threads : j # i => wpc'[j] = wpc[j]
    BY <1>4, <2>1
  <2> QED
    BY <2>1, <2>2, <2>3 DEF Probed
<1>11. ASSUME NEW i \in Threads, ProbeThrows(i) PROVE Probed(at)' <=> Probed(at)
  BY <1>5, <1>11 DEF ProbeThrows
<1> QED
  BY <1>6, <1>7, <1>8, <1>9, <1>10, <1>11 DEF Next, Caller, Prober, Over

(* A probed key is the one cell that is dealt with anew. *)
LEMMA ProbedKey ==
    ASSUME InputsInv, ClaimInv, CallerInv, NEW i \in Threads, ProbeKey(i),
           NEW at \in Cells(probe_table)
    PROVE  /\ ~Probed(<<page[i], slot[i]>>)
           /\ Probed(at)' <=> Probed(at) \/ at = <<page[i], slot[i]>>
<1>1. /\ page_counter \in Nat /\ slot \in [Threads -> Nat] /\ page \in [Threads -> Nat]
      /\ PageClaimedOnce
  BY DEF ClaimInv, CallerInv
<1>2. /\ wpc[i] = "probe" /\ slot' = [slot EXCEPT ![i] = @ + 1]
      /\ UNCHANGED <<page_counter, wpc, page>>
  BY DEF ProbeKey, AtCell
<1>3. /\ page[i] < page_counter
      /\ \A j \in Threads : j # i /\ wpc[j] = "probe" => page[i] # page[j]
  BY <1>1, <1>2 DEF PageClaimedOnce
<1>4. /\ slot'[i] = slot[i] + 1
      /\ \A j \in Threads : j # i => slot'[j] = slot[j]
  BY <1>1, <1>2
<1>5. at[1] \in Nat /\ at[2] \in Nat /\ at = <<at[1], at[2]>>
  BY CellPosition DEF InputsInv, probe_table
<1>6. ~Probed(<<page[i], slot[i]>>)
  <2>1. ~(slot[i] < slot[i])
    BY <1>1
  <2> QED
    BY <1>2, <2>1 DEF Probed
<1>7. CASE at[1] = page[i]
  <2>1. Probed(at) <=> at[2] < slot[i]
    BY <1>2, <1>3, <1>7 DEF Probed
  <2>2. Probed(at)' <=> at[2] < slot[i] + 1
    BY <1>2, <1>3, <1>4, <1>7 DEF Probed
  <2>3. at[2] < slot[i] + 1 <=> at[2] < slot[i] \/ at[2] = slot[i]
    BY <1>1, <1>5
  <2>4. at = <<page[i], slot[i]>> <=> at[2] = slot[i]
    BY <1>5, <1>7
  <2> QED
    BY <1>6, <2>1, <2>2, <2>3, <2>4
<1>8. CASE at[1] # page[i]
  <2>1. Probed(at)' <=> Probed(at)
    BY <1>2, <1>4, <1>8 DEF Probed
  <2>2. at # <<page[i], slot[i]>>
    BY <1>8
  <2> QED
    BY <1>6, <2>1, <2>2
<1> QED
  BY <1>7, <1>8

LEMMA InFound ==
    ASSUME InputsInv, NEW pair
    PROVE  /\ pair \in Found <=> pair \in Joined /\ Probed(ProbeSide(pair))
           /\ pair \in Joined => ProbeSide(pair) \in Cells(probe_table)
                                 /\ IsKey(KeyAt(probe_table, ProbeSide(pair)))
<1>1. pair \in Found <=> pair \in Joined /\ Probed(ProbeSide(pair))
  BY DEF Found, ProbeSide
<1>2. ASSUME pair \in Joined
      PROVE  ProbeSide(pair) \in Cells(probe_table) /\ IsKey(KeyAt(probe_table, ProbeSide(pair)))
  <2>1. PICK b, q : /\ q \in Cells(probe_table) /\ IsKey(KeyAt(probe_table, q))
                    /\ pair = PairOf(b, q)
    BY <1>2, InJoined
  <2> QED
    BY <2>1, PairSides
<1> QED
  BY <1>1, <1>2

LEMMA JoinedSame == ASSUME [Next]_vars PROVE Joined' = Joined
BY JoinUnchanged DEF join, Joined, Joins, Cells, KeyAt, IsKey

LEMMA InFoundNext ==
    ASSUME InputsInv, [Next]_vars, NEW pair, NEW q, q = ProbeSide(pair)
    PROVE  pair \in Found' <=> pair \in Joined /\ Probed(q)'
<1>1. pair \in Found' <=> pair \in Joined /\ Probed(IF build_left THEN pair[2] ELSE pair[1])'
  BY JoinedSame DEF Found
<1>2. build_left' = build_left
  BY JoinUnchanged DEF join
<1>3. Probed(IF build_left THEN pair[2] ELSE pair[1])' <=> Probed(q)'
  BY <1>2 DEF Probed, ProbeSide
<1> QED
  BY <1>1, <1>3

LEMMA FoundSame ==
    ASSUME InputsInv, ClaimInv, CallerInv, [Next]_vars, \A i \in Threads : ~ProbeKey(i)
    PROVE  Found' = Found
<1>1. ASSUME NEW pair PROVE pair \in Found' <=> pair \in Found
  <2>1. PICK q : q = ProbeSide(pair)
    OBVIOUS
  <2>2. pair \in Found <=> pair \in Joined /\ Probed(q)
    BY <2>1, InFound
  <2>3. pair \in Found' <=> pair \in Joined /\ Probed(q)'
    BY <2>1, InFoundNext
  <2>4. pair \in Joined => (Probed(q)' <=> Probed(q))
    BY <2>1, InFound, ProbedSame
  <2> QED
    BY <2>2, <2>3, <2>4
<1> QED
  BY <1>1

(* The pairs that a probed key finds. *)
PairFor(i, matches, m) == PairOf(PositionAt(matches[m]), <<page[i], slot[i]>>)

LEMMA ProbeFound ==
    ASSUME JoinInv, [Next]_vars, NEW i \in Threads, ProbeKey(i),
           NEW n, n = Cardinality(Matches(cell(i))),
           NEW matches \in Bijection(1 .. n, Matches(cell(i)))
    PROVE  /\ Found' = Found \cup {PairFor(i, matches, m) : m \in 1 .. n}
           /\ \A m \in 1 .. n : PairFor(i, matches, m) \notin Found
           /\ \A m, k \in 1 .. n : m # k => PairFor(i, matches, m) # PairFor(i, matches, k)
           /\ \A m \in 1 .. n : matches[m] \in Nat
<1> DEFINE q == <<page[i], slot[i]>>
           key == cell(i)
           S == Matches(key)
<1>0. InputsInv /\ ClaimInv /\ CallerInv /\ BuildInv
  BY DEF JoinInv
<1>1. /\ IsKey(key) /\ mpc \in {"create", "join"} /\ wpc[i] = "probe"
      /\ slot[i] < Len(probe_table[page[i] + 1])
  BY DEF ProbeKey, AtCell, Running
<1>2. q \in Cells(probe_table) /\ KeyAt(probe_table, q) = key
  <2>1. /\ page[i] \in Nat /\ slot[i] \in Nat /\ page[i] < Len(probe_table)
    BY <1>0, <1>1 DEF ClaimInv, CallerInv
  <2>2. IsTable(probe_table)
    BY <1>0 DEF InputsInv, probe_table
  <2>3. Len(probe_table) \in Nat /\ page[i] + 1 \in 1 .. Len(probe_table)
    BY <2>1, <2>2, TableFacts
  <2>4. Len(probe_table[page[i] + 1]) \in Nat
    BY <2>2, <2>3, TableFacts, JoinPagesAssumption
  <2>5. /\ slot[i] + 1 \in 1 .. Len(probe_table[page[i] + 1])
        /\ (page[i] + 1) - 1 = page[i] /\ (slot[i] + 1) - 1 = slot[i]
    BY <1>1, <2>1, <2>4
  <2>6. q \in Cells(probe_table)
    BY <2>2, <2>3, <2>5, CellsAre
  <2> QED
    BY <2>6 DEF KeyAt, cell
<1>3. S = {PositionOf(b) : b \in BuildCells(key)}
  BY <1>0, <1>1, MatchesAre DEF BuildInv
<1>4. ASSUME NEW b \in BuildCells(key)
      PROVE  /\ b \in Cells(build_table) /\ KeyAt(build_table, b) = key
             /\ PositionAt(PositionOf(b)) = b /\ PositionOf(b) \in Nat
  <2>1. IsTable(build_table) /\ b \in Cells(build_table) /\ KeyAt(build_table, b) = key
    BY <1>0 DEF InputsInv, build_table, BuildCells
  <2> QED
    BY <2>1, CellPosition
<1>5. /\ matches \in [1 .. n -> S]
      /\ \A m, k \in 1 .. n : matches[m] = matches[k] => m = k
      /\ \A t \in S : \E m \in 1 .. n : matches[m] = t
  BY DEF Bijection, Injection, Surjection, IsInjective
<1> HIDE DEF q, key, S
<1>6. ASSUME NEW m \in 1 .. n
      PROVE  \E b \in BuildCells(key) : /\ matches[m] = PositionOf(b)
                                        /\ PairFor(i, matches, m) = PairOf(b, q)
  <2>1. PICK b \in BuildCells(key) : matches[m] = PositionOf(b)
    BY <1>3, <1>5
  <2>2. PositionAt(matches[m]) = b
    BY <2>1, <1>4
  <2> QED
    BY <2>1, <2>2 DEF PairFor, q
<1>7. \A b \in BuildCells(key) : \E m \in 1 .. n : PairFor(i, matches, m) = PairOf(b, q)
  <2>1. ASSUME NEW b \in BuildCells(key)
        PROVE  \E m \in 1 .. n : PairFor(i, matches, m) = PairOf(b, q)
    <3>1. PICK m \in 1 .. n : matches[m] = PositionOf(b)
      BY <1>3, <1>5
    <3>2. PositionAt(matches[m]) = b
      BY <3>1, <1>4
    <3> QED
      BY <3>2 DEF PairFor, q
  <2> QED
    BY <2>1
<1>8. ASSUME NEW m \in 1 .. n
      PROVE  /\ PairFor(i, matches, m) \in Joined
             /\ ProbeSide(PairFor(i, matches, m)) = q
  <2>1. PICK b \in BuildCells(key) : PairFor(i, matches, m) = PairOf(b, q)
    BY <1>6
  <2>2. PairOf(b, q) \in Joined
    BY <1>0, <1>1, <1>2, <1>4, InJoined DEF key
  <2> QED
    BY <2>1, <2>2, PairSides
<1>9. ~Probed(q) /\ \A at \in Cells(probe_table) : Probed(at)' <=> Probed(at) \/ at = q
  BY <1>0, <1>2, ProbedKey DEF q
<1>10. \A m \in 1 .. n : PairFor(i, matches, m) \notin Found
  BY <1>0, <1>8, <1>9, InFound
<1>11. ASSUME NEW pair
       PROVE  pair \in Found' <=> pair \in Found \/ \E m \in 1 .. n : pair = PairFor(i, matches, m)
  <2>1. PICK side : side = ProbeSide(pair)
    OBVIOUS
  <2>2. /\ pair \in Found <=> pair \in Joined /\ Probed(side)
        /\ pair \in Joined => side \in Cells(probe_table)
    BY <1>0, <2>1, InFound
  <2>3. pair \in Found' <=> pair \in Joined /\ Probed(side)'
    BY <1>0, <2>1, InFoundNext
  <2>4. pair \in Joined => (Probed(side)' <=> Probed(side) \/ side = q)
    BY <2>2, <1>9
  <2>5. ASSUME pair \in Joined, side = q
        PROVE  \E m \in 1 .. n : pair = PairFor(i, matches, m)
    <3>1. PICK b, q2 : /\ b \in Cells(build_table) /\ q2 \in Cells(probe_table)
                       /\ KeyAt(build_table, b) = KeyAt(probe_table, q2)
                       /\ pair = PairOf(b, q2)
      BY <1>0, <2>5, InJoined
    <3>2. q2 = q
      BY <2>1, <2>5, <3>1, PairSides
    <3> QED
      BY <3>1, <3>2, <1>2, <1>7 DEF BuildCells
  <2>6. ASSUME NEW m \in 1 .. n, pair = PairFor(i, matches, m)
        PROVE  pair \in Joined /\ side = q
    BY <1>8, <2>1, <2>6
  <2> QED
    BY <2>2, <2>3, <2>4, <2>5, <2>6
<1>12. \A m, k \in 1 .. n : m # k => PairFor(i, matches, m) # PairFor(i, matches, k)
  <2>1. ASSUME NEW m \in 1 .. n, NEW k \in 1 .. n,
               PairFor(i, matches, m) = PairFor(i, matches, k)
        PROVE  m = k
    <3>1. PICK b \in BuildCells(key) :
            matches[m] = PositionOf(b) /\ PairFor(i, matches, m) = PairOf(b, q)
      BY <1>6
    <3>2. PICK d \in BuildCells(key) :
            matches[k] = PositionOf(d) /\ PairFor(i, matches, k) = PairOf(d, q)
      BY <1>6
    <3>3. PairOf(b, q) = PairOf(d, q)
      BY <2>1, <3>1, <3>2
    <3>4. b = d
      BY <3>3 DEF PairOf
    <3> QED
      BY <3>1, <3>2, <3>4, <1>5
  <2> QED
    BY <2>1
<1>13. \A m \in 1 .. n : matches[m] \in Nat
  BY <1>4, <1>6
<1>14. Found' = Found \cup {PairFor(i, matches, m) : m \in 1 .. n}
  BY <1>11
<1> QED
  BY <1>10, <1>12, <1>13, <1>14

(* A place that holds a row: a holder and a box of its columns. *)
LEMMA InHeld ==
    ASSUME NEW at
    PROVE  at \in Held <=> \E h \in Holders : \E b \in Boxes(Pages(h)[1]) : at = <<h, b>>
BY DEF Held

(* The columns of a holder have the boxes of its first column. *)
LEMMA HeldBoxes ==
    ASSUME InputsInv, ColumnsInv, Columns # {}, NEW h \in Holders, NEW c \in Columns
    PROVE  /\ 1 \in Columns /\ Pages(h) \in [Columns -> Seq(Seq(Origin))]
           /\ PagesWithin(Pages(h)[c], PageSlots)
           /\ Boxes(Pages(h)[c]) = Boxes(Pages(h)[1])
           /\ Len(Pages(h)[c]) = Len(Pages(h)[1])
<1>1. 1 \in Columns
  BY DEF InputsInv, Columns
<1>2. h = NumThreads \/ (h # NumThreads /\ h \in Threads)
  BY JoinPagesAssumption DEF Holders, Threads
<1>3. /\ Pages(h) \in [Columns -> Seq(Seq(Origin))]
      /\ PagesWithin(Pages(h)[c], PageSlots)
      /\ Shape(Pages(h)[c]) = Shape(Pages(h)[1])
  BY <1>1, <1>2 DEF ColumnsInv, ColumnsAligned, Pages
<1> DEFINE a == Pages(h)[c]
           b == Pages(h)[1]
<1>4. a \in Seq(Seq(Origin)) /\ b \in Seq(Seq(Origin)) /\ Shape(a) = Shape(b)
  BY <1>1, <1>3
<1> HIDE DEF a, b
<1>5. Boxes(a) = Boxes(b) /\ Len(a) = Len(b)
  <2>1. Len(Shape(a)) = Len(a) /\ Len(Shape(b)) = Len(b)
    BY <1>4, ShapeIsSeq
  <2> QED
    BY <1>4, <2>1, SameBoxes
<1> QED
  BY <1>1, <1>3, <1>5 DEF a, b

(* What a match copies to the columns is the row of its pair. *)
LEMMA CopiedRow ==
    ASSUME InputsInv, NEW i, NEW matches, NEW m, NEW c \in Columns
    PROVE  Copied(i, c, matches[m]) =
             Combined(PairFor(i, matches, m)[1], PairFor(i, matches, m)[2])[c]
<1> DEFINE pos == matches[m]
           b == PositionAt(pos)
           q == <<page[i], slot[i]>>
           col == output_attrs[c]
<1>1. /\ b[1] = pos \div PageSlots /\ b[2] = pos % PageSlots
      /\ q[1] = page[i] /\ q[2] = slot[i]
  BY DEF PositionAt
<1>2. PairFor(i, matches, m) = PairOf(b, q)
  BY DEF PairFor
<1>3. /\ Combined(b, q)[c] = IF col < LeftCols
                             THEN [col |-> col, page |-> b[1], slot |-> b[2]]
                             ELSE [col |-> col, page |-> q[1], slot |-> q[2]]
      /\ Combined(q, b)[c] = IF col < LeftCols
                             THEN [col |-> col, page |-> q[1], slot |-> q[2]]
                             ELSE [col |-> col, page |-> b[1], slot |-> b[2]]
  BY DEF Combined
<1>4. Copied(i, c, pos) = IF (col < LeftCols) = build_left
                          THEN [col |-> col, page |-> b[1], slot |-> b[2]]
                          ELSE [col |-> col, page |-> q[1], slot |-> q[2]]
  BY <1>1 DEF Copied
<1>5. Copied(i, c, matches[m]) = Copied(i, c, pos)
  OBVIOUS
<1> HIDE DEF b, q, col, pos
<1>6. CASE build_left
  <2>1. PairFor(i, matches, m)[1] = b /\ PairFor(i, matches, m)[2] = q
    BY <1>2, <1>6 DEF PairOf
  <2> QED
    BY <2>1, <1>3, <1>4, <1>5, <1>6
<1>7. CASE ~build_left
  <2>1. PairFor(i, matches, m)[1] = q /\ PairFor(i, matches, m)[2] = b
    BY <1>2, <1>7 DEF PairOf
  <2> QED
    BY <2>1, <1>3, <1>4, <1>5, <1>7 DEF InputsInv
<1> QED
  BY <1>6, <1>7

LEMMA ProbeHeld ==
    ASSUME JoinInv, [Next]_vars, Columns # {}, NEW i \in Threads, ProbeKey(i),
           NEW n, n = Cardinality(Matches(cell(i))),
           NEW matches, NEW after, NEW box, Appended(i, matches, after, box)
    PROVE  /\ Held' = Held \cup {<<i, box[m]>> : m \in 1 .. n}
           /\ \A m \in 1 .. n : <<i, box[m]>> \notin Held
           /\ \A at \in Held : RowHeld(at)' = RowHeld(at)
           /\ \A m \in 1 .. n : RowHeld(<<i, box[m]>>)' =
                Combined(PairFor(i, matches, m)[1], PairFor(i, matches, m)[2])
<1>0. InputsInv /\ ClaimInv /\ CallerInv /\ BuildInv /\ ColumnsInv
  BY DEF JoinInv
<1>1. Columns' = Columns /\ 1 \in Columns
  BY <1>0, JoinUnchanged DEF join, Columns, InputsInv
<1>2. i \in Holders /\ i # NumThreads /\ Threads \subseteq Holders
  BY JoinPagesAssumption DEF Holders, Threads
<1>3. \A h \in Holders : h # i => Pages(h)' = Pages(h)
  <2>1. /\ results' = results
        /\ \A h \in Threads : h # i => thread_results'[h] = thread_results[h]
    <3>1. \E new : thread_results' = [thread_results EXCEPT ![i] = new]
      BY DEF ProbeKey
    <3> QED
      BY <1>0, <3>1 DEF ColumnsInv, ProbeKey
  <2>2. \A h \in Holders : h = NumThreads \/ (h # NumThreads /\ h \in Threads)
    BY JoinPagesAssumption DEF Holders, Threads
  <2> QED
    BY <2>1, <2>2 DEF Pages
<1>4. Pages(i) = thread_results[i] /\ Pages(i)' = thread_results'[i]
  BY <1>2 DEF Pages
<1>5. ASSUME NEW c \in Columns
      PROVE  /\ Boxes(Pages(i)'[c]) = Boxes(Pages(i)[c]) \cup {box[m] : m \in 1 .. n}
             /\ \A m \in 1 .. n :
                  /\ box[m] \notin Boxes(Pages(i)[c])
                  /\ Pages(i)'[c][box[m][1]][box[m][2]] = Copied(i, c, matches[m])
             /\ \A b \in Boxes(Pages(i)[c]) :
                  Pages(i)'[c][b[1]][b[2]] = Pages(i)[c][b[1]][b[2]]
  <2>1. LET k == Cardinality(Matches(cell(i)))
        IN  /\ Boxes(thread_results'[i][c]) =
                 Boxes(thread_results[i][c]) \cup {box[m] : m \in 1 .. k}
            /\ \A m \in 1 .. k :
                 /\ box[m] \notin Boxes(thread_results[i][c])
                 /\ thread_results'[i][c][box[m][1]][box[m][2]] = Copied(i, c, matches[m])
            /\ \A b \in Boxes(thread_results[i][c]) :
                 thread_results'[i][c][b[1]][b[2]] = thread_results[i][c][b[1]][b[2]]
    BY DEF Appended
  <2> QED
    BY <2>1, <1>4
<1>6. \A c \in Columns : Boxes(Pages(i)[c]) = Boxes(Pages(i)[1])
  BY <1>0, <1>2, HeldBoxes
<1>7. ASSUME NEW at
      PROVE  at \in Held' <=> \E h \in Holders : \E b \in Boxes(Pages(h)'[1]) : at = <<h, b>>
  BY DEF Held, Holders
<1>8. Held' = Held \cup {<<i, box[m]>> : m \in 1 .. n}
  <2>1. ASSUME NEW at \in Held' PROVE at \in Held \cup {<<i, box[m]>> : m \in 1 .. n}
    <3>1. PICK h \in Holders : \E b \in Boxes(Pages(h)'[1]) : at = <<h, b>>
      BY <1>7
    <3>2. PICK b \in Boxes(Pages(h)'[1]) : at = <<h, b>>
      BY <3>1
    <3>3. CASE h = i
      BY <3>2, <3>3, <1>1, <1>2, <1>5, InHeld
    <3>4. CASE h # i
      BY <3>2, <3>4, <1>3, InHeld
    <3> QED
      BY <3>3, <3>4
  <2>2. ASSUME NEW at \in Held PROVE at \in Held'
    <3>1. PICK h \in Holders : \E b \in Boxes(Pages(h)[1]) : at = <<h, b>>
      BY InHeld
    <3>2. PICK b \in Boxes(Pages(h)[1]) : at = <<h, b>>
      BY <3>1
    <3>3. b \in Boxes(Pages(h)'[1])
      BY <1>1, <1>3, <1>5
    <3> QED
      BY <3>2, <3>3, <1>7
  <2>3. ASSUME NEW m \in 1 .. n PROVE <<i, box[m]>> \in Held'
    BY <1>1, <1>2, <1>5, <1>7
  <2> QED
    BY <2>1, <2>2, <2>3
<1>9. \A m \in 1 .. n : <<i, box[m]>> \notin Held
  BY <1>1, <1>5, InHeld
<1>10. ASSUME NEW at \in Held PROVE RowHeld(at)' = RowHeld(at)
  <2>1. PICK h \in Holders : \E b \in Boxes(Pages(h)[1]) : at = <<h, b>>
    BY InHeld
  <2>2. PICK b \in Boxes(Pages(h)[1]) : at = <<h, b>>
    BY <2>1
  <2>3. /\ RowHeld(at) = [c \in Columns |-> Pages(h)[c][b[1]][b[2]]]
        /\ RowHeld(at)' = [c \in Columns |-> Pages(h)'[c][b[1]][b[2]]]
    <3>1. at[1] = h /\ at[2] = b
      BY <2>2
    <3> QED
      BY <1>1, <3>1 DEF RowHeld, RowAt
  <2>4. \A c \in Columns : Pages(h)'[c][b[1]][b[2]] = Pages(h)[c][b[1]][b[2]]
    BY <2>2, <1>3, <1>5, <1>6
  <2> QED
    BY <2>3, <2>4
<1>11. ASSUME NEW m \in 1 .. n
       PROVE  RowHeld(<<i, box[m]>>)' =
                Combined(PairFor(i, matches, m)[1], PairFor(i, matches, m)[2])
  <2>1. RowHeld(<<i, box[m]>>)' = [c \in Columns |-> Pages(i)'[c][box[m][1]][box[m][2]]]
    BY <1>1 DEF RowHeld, RowAt
  <2>2. \A c \in Columns : Pages(i)'[c][box[m][1]][box[m][2]] =
          Combined(PairFor(i, matches, m)[1], PairFor(i, matches, m)[2])[c]
    BY <1>0, <1>5, CopiedRow
  <2>3. \A l, r : Combined(l, r) = [c \in Columns |-> Combined(l, r)[c]]
    BY DEF Combined
  <2> QED
    BY <2>1, <2>2, <2>3
<1> QED
  BY <1>8, <1>9, <1>10, <1>11

LEMMA MergeHeld ==
    ASSUME JoinInv, [Next]_vars, Columns # {}, MergePages
    PROVE  \E M \in Bijection(Held, Held') : \A at \in Held : RowHeld(M[at])' = RowHeld(at)
<1>0. InputsInv /\ CallerInv /\ ColumnsInv /\ mi \in Threads
  BY DEF JoinInv, CallerInv
<1>1. Columns' = Columns /\ 1 \in Columns
  BY <1>0, JoinUnchanged DEF join, Columns, InputsInv
<1>2. /\ mi \in Holders /\ mi # NumThreads /\ Threads \subseteq Holders /\ NumThreads \in Holders
      /\ \A h \in Holders : h = NumThreads \/ (h # NumThreads /\ h \in Threads)
  BY <1>0, JoinPagesAssumption DEF Holders, Threads
<1>3. /\ Pages(NumThreads) = results /\ Pages(NumThreads)' = results'
      /\ Pages(mi) = thread_results[mi]
      /\ \A h \in Threads : Pages(h) = thread_results[h] /\ Pages(h)' = thread_results'[h]
  BY <1>2, JoinPagesAssumption DEF Pages, Threads
<1>4. /\ \A c \in Columns : results'[c] = results[c] \o thread_results[mi][c]
      /\ \A h \in Threads : thread_results'[h] = IF h = mi THEN NoPages ELSE thread_results[h]
  BY <1>0, MergeAligned DEF MergePages
<1> DEFINE n == Len(results[1])
           Moved(b) == <<n + b[1], b[2]>>
<1>5. ASSUME NEW c \in Columns
      PROVE  /\ n \in Nat
             /\ \A b : b \in Boxes(results'[c]) <=>
                  \/ b \in Boxes(results[1])
                  \/ \E d \in Boxes(thread_results[mi][1]) : b = Moved(d)
             /\ \A b \in Boxes(results[1]) :
                  results'[c][b[1]][b[2]] = results[c][b[1]][b[2]]
             /\ \A d \in Boxes(thread_results[mi][1]) :
                  results'[c][n + d[1]][d[2]] = thread_results[mi][c][d[1]][d[2]]
  <2> DEFINE a == results[c]
             t == thread_results[mi][c]
  <2>1. /\ a \in Seq(Seq(Origin)) /\ t \in Seq(Seq(Origin))
        /\ PagesWithin(a, PageSlots) /\ PagesWithin(t, PageSlots)
        /\ Boxes(a) = Boxes(results[1]) /\ Len(a) = n
        /\ Boxes(t) = Boxes(thread_results[mi][1])
    BY <1>0, <1>2, <1>3, HeldBoxes
  <2> DEFINE new == results'[c]
  <2>2. new = a \o t
    BY <1>4
  <2>3. PageSlots \in Nat
    BY JoinPagesAssumption
  <2> HIDE DEF a, t, n, new
  <2>4. Behind(new, a, t)
    BY <2>1, <2>2, <2>3, ConcatPages
  <2>5. Len(a) \in Nat
    BY <2>1
  <2> QED
    BY <2>1, <2>4, <2>5 DEF a, t, new, Behind
<1>6. ASSUME NEW b \in Boxes(results[1]) PROVE b[1] \in 1 .. n
  <2>1. results[1] \in Seq(Seq(Origin))
    BY <1>0, <1>1 DEF ColumnsInv
  <2>2. DOMAIN results[1] = 1 .. n
    BY <2>1
  <2> QED
    BY <2>2, InBoxes
<1>7. ASSUME NEW b \in Boxes(thread_results[mi][1])
      PROVE  b[1] \in Nat \ {0} /\ b = <<b[1], b[2]>>
  <2>1. thread_results[mi][1] \in Seq(Seq(Origin))
    BY <1>0, <1>1 DEF ColumnsInv
  <2>2. DOMAIN thread_results[mi][1] = 1 .. Len(thread_results[mi][1])
    BY <2>1
  <2> QED
    BY <2>2, InBoxes
<1>8. n \in Nat
  BY <1>1, <1>5
<1> HIDE DEF n
<1>9. ASSUME NEW at
      PROVE  at \in Held' <=> \E h \in Holders : \E b \in Boxes(Pages(h)'[1]) : at = <<h, b>>
  BY DEF Held, Holders
<1> DEFINE Target(at) == IF at[1] = mi THEN <<NumThreads, Moved(at[2])>> ELSE at
<1>10. PICK M : M = [at \in Held |-> Target(at)]
  OBVIOUS
<1>11. DOMAIN M = Held /\ \A at \in Held : M[at] = Target(at)
  BY <1>10
<1>12. ASSUME NEW at \in Held
       PROVE  \E h \in Holders : \E b \in Boxes(Pages(h)[1]) : at = <<h, b>>
  BY InHeld
<1>13. ASSUME NEW b \in Boxes(Pages(mi)[1])
       PROVE  M[<<mi, b>>] = <<NumThreads, Moved(b)>>
  <2>1. <<mi, b>> \in Held
    BY <1>2, InHeld
  <2> QED
    BY <2>1, <1>11
<1>14. ASSUME NEW h \in Holders, h # mi, NEW b \in Boxes(Pages(h)[1])
       PROVE  M[<<h, b>>] = <<h, b>>
  <2>1. <<h, b>> \in Held
    BY InHeld
  <2> QED
    BY <2>1, <1>11, <1>14
<1>15. ASSUME NEW at \in Held PROVE M[at] \in Held' /\ RowHeld(M[at])' = RowHeld(at)
  <2>1. PICK h \in Holders : \E b \in Boxes(Pages(h)[1]) : at = <<h, b>>
    BY <1>12
  <2>2. PICK b \in Boxes(Pages(h)[1]) : at = <<h, b>>
    BY <2>1
  <2>3. RowHeld(at) = [c \in Columns |-> Pages(h)[c][b[1]][b[2]]]
    BY <2>2 DEF RowHeld, RowAt
  <2>4. \A g, d : RowHeld(<<g, d>>)' = [c \in Columns |-> Pages(g)'[c][d[1]][d[2]]]
    BY <1>1 DEF RowHeld, RowAt
  <2>5. CASE h = mi
    <3>1. PICK d : d = Moved(b)
      OBVIOUS
    <3>2. M[at] = <<NumThreads, d>>
      BY <2>2, <2>5, <3>1, <1>13
    <3>3. d \in Boxes(results'[1])
      BY <2>5, <3>1, <1>1, <1>3, <1>5
    <3>4. <<NumThreads, d>> \in Held'
      BY <3>3, <1>2, <1>3, <1>9
    <3>5. \A c \in Columns : results'[c][d[1]][d[2]] = Pages(h)[c][b[1]][b[2]]
      BY <2>2, <2>5, <3>1, <1>3, <1>5
    <3>6. RowHeld(<<NumThreads, d>>)' = [c \in Columns |-> results'[c][d[1]][d[2]]]
      BY <2>4, <1>3
    <3> QED
      BY <2>3, <3>2, <3>4, <3>5, <3>6
  <2>6. CASE h # mi
    <3>1. M[at] = <<h, b>>
      BY <2>2, <2>6, <1>14
    <3>2. b \in Boxes(Pages(h)'[1]) /\ \A c \in Columns :
            Pages(h)'[c][b[1]][b[2]] = Pages(h)[c][b[1]][b[2]]
      <4>1. CASE h = NumThreads
        BY <4>1, <2>2, <1>1, <1>3, <1>5
      <4>2. CASE h # NumThreads
        BY <4>2, <2>6, <2>2, <1>2, <1>3, <1>4
      <4> QED
        BY <4>1, <4>2
    <3> QED
      BY <2>3, <2>4, <3>1, <3>2, <1>9
  <2> QED
    BY <2>5, <2>6
<1>16. ASSUME NEW at \in Held, NEW bt \in Held, M[at] = M[bt] PROVE at = bt
  <2>1. PICK h \in Holders : \E b \in Boxes(Pages(h)[1]) : at = <<h, b>>
    BY <1>12
  <2>2. PICK b \in Boxes(Pages(h)[1]) : at = <<h, b>>
    BY <2>1
  <2>3. PICK g \in Holders : \E d \in Boxes(Pages(g)[1]) : bt = <<g, d>>
    BY <1>12
  <2>4. PICK d \in Boxes(Pages(g)[1]) : bt = <<g, d>>
    BY <2>3
  <2>5. CASE h = mi /\ g = mi
    <3>1. Moved(b) = Moved(d)
      BY <2>2, <2>4, <2>5, <1>13, <1>16
    <3>2. n + b[1] = n + d[1] /\ b[2] = d[2]
      BY <3>1
    <3>3. /\ b[1] \in Nat /\ b = <<b[1], b[2]>>
          /\ d[1] \in Nat /\ d = <<d[1], d[2]>>
      BY <2>5, <1>3, <1>7
    <3>4. b[1] = d[1]
      BY <3>2, <3>3, <1>8
    <3> QED
      BY <2>2, <2>4, <2>5, <3>2, <3>3, <3>4
  <2>6. CASE h = mi /\ g # mi
    <3>1. <<NumThreads, Moved(b)>> = <<g, d>>
      BY <2>2, <2>4, <2>6, <1>13, <1>14, <1>16
    <3>2. d[1] = n + b[1] /\ d[1] \in 1 .. n
      BY <2>4, <3>1, <1>3, <1>6
    <3>3. b[1] \in Nat \ {0}
      BY <2>6, <1>3, <1>7
    <3> QED
      BY <3>2, <3>3, <1>8
  <2>7. CASE h # mi /\ g = mi
    <3>1. <<NumThreads, Moved(d)>> = <<h, b>>
      BY <2>2, <2>4, <2>7, <1>13, <1>14, <1>16
    <3>2. b[1] = n + d[1] /\ b[1] \in 1 .. n
      BY <2>2, <3>1, <1>3, <1>6
    <3>3. d[1] \in Nat \ {0}
      BY <2>7, <1>3, <1>7
    <3> QED
      BY <3>2, <3>3, <1>8
  <2>8. CASE h # mi /\ g # mi
    BY <2>2, <2>4, <2>8, <1>14, <1>16
  <2> QED
    BY <2>5, <2>6, <2>7, <2>8
<1>17. ASSUME NEW bt \in Held' PROVE \E at \in Held : M[at] = bt
  <2>1. PICK h \in Holders : \E b \in Boxes(Pages(h)'[1]) : bt = <<h, b>>
    BY <1>9
  <2>2. PICK b \in Boxes(Pages(h)'[1]) : bt = <<h, b>>
    BY <2>1
  <2>3. CASE h = NumThreads /\ b \in Boxes(results[1])
    BY <2>2, <2>3, <1>2, <1>3, <1>14, InHeld
  <2>4. CASE h = NumThreads /\ b \notin Boxes(results[1])
    <3>1. PICK d \in Boxes(thread_results[mi][1]) : b = Moved(d)
      BY <2>2, <2>4, <1>1, <1>3, <1>5
    <3> QED
      BY <2>2, <2>4, <3>1, <1>2, <1>3, <1>13, InHeld
  <2>5. CASE h # NumThreads
    <3>1. h # mi
      <4>1. Boxes(<<>>) = {} /\ NoPages[1] = <<>>
        BY <1>1, EmptyColumns
      <4> QED
        BY <4>1, <2>2, <2>5, <1>0, <1>3, <1>4
    <3>2. b \in Boxes(Pages(h)[1])
      BY <3>1, <2>2, <2>5, <1>2, <1>3, <1>4
    <3> QED
      BY <2>2, <3>1, <3>2, <1>14, InHeld
  <2> QED
    BY <2>3, <2>4, <2>5
<1>18. M \in Bijection(Held, Held')
  <2>1. M = [at \in Held |-> M[at]]
    BY <1>10
  <2> HIDE DEF Target
  <2>2. M \in [Held -> Held']
    BY <2>1, <1>15
  <2> QED
    BY <2>2, <1>11, <1>16, <1>17 DEF Bijection, Injection, Surjection, IsInjective
<1> QED
  BY <1>15, <1>18

LEMMA HeldSame ==
    ASSUME [Next]_vars, UNCHANGED <<results, thread_results>>
    PROVE  Held' = Held /\ \A at : RowHeld(at)' = RowHeld(at)
<1>1. Columns' = Columns
  BY JoinUnchanged DEF join, Columns
<1> QED
  BY <1>1 DEF Held, Holders, Pages, RowHeld, RowAt

(* Before the first claim nothing is found and nobody holds a page. *)
LEMMA NothingYet ==
    ASSUME JoinInv, mpc = "start", Columns # {}
    PROVE  Found = {} /\ Held = {}
<1>1. InputsInv /\ CallerInv /\ ColumnsInv
  BY DEF JoinInv
<1>2. 1 \in Columns
  BY <1>1 DEF InputsInv, Columns
<1>3. ASSUME NEW pair \in Found PROVE FALSE
  <2>1. Probed(ProbeSide(pair)) /\ ProbeSide(pair) \in Cells(probe_table)
    BY <1>1, InFound
  <2>2. ProbeSide(pair)[1] \in Nat /\ ProbeSide(pair)[1] < 0
    BY <2>1, <1>1, CellPosition DEF InputsInv, CallerInv, Probed, probe_table
  <2> QED
    BY <2>2
<1>4. ASSUME NEW h \in Holders PROVE Boxes(Pages(h)[1]) = {}
  <2>1. h = NumThreads \/ (h # NumThreads /\ h \in Threads)
    BY JoinPagesAssumption DEF Holders, Threads
  <2>2. Pages(h) = NoPages
    BY <1>1, <2>1 DEF ColumnsInv, Pages
  <2> QED
    BY <1>2, <2>2, EmptyColumns
<1> QED
  BY <1>3, <1>4, InHeld

LEMMA RowsStep == JoinInv /\ RowsInv /\ [Next]_vars => RowsInv'
<1> SUFFICES ASSUME JoinInv, RowsInv, [Next]_vars,
                    mpc' \in {"create", "join", "merge", "done"},
                    build_type' = "INT32", Columns' # {}
             PROVE  \E B \in Bijection(Found', Held') :
                      \A pair \in Found' : RowHeld(B[pair])' = Combined(pair[1], pair[2])
  <2>1. ASSUME [Next]_vars, NEW l, NEW r PROVE Combined(l, r)' = Combined(l, r)
    BY <2>1, JoinUnchanged DEF join, Columns, Combined
  <2> QED
    BY <2>1 DEF RowsInv
<1>1. build_type = "INT32" /\ Columns # {}
  BY JoinUnchanged DEF join, Columns
<1>2. InputsInv /\ ClaimInv /\ CallerInv
  BY DEF JoinInv
<1>3. ASSUME mpc \in {"create", "join", "merge", "done"}
      PROVE  \E B \in Bijection(Found, Held) :
               \A pair \in Found : RowHeld(B[pair]) = Combined(pair[1], pair[2])
  BY <1>1, <1>3 DEF RowsInv
<1>4. ASSUME mpc \in {"create", "join", "merge", "done"},
             UNCHANGED <<results, thread_results>>, \A i \in Threads : ~ProbeKey(i)
      PROVE  \E B \in Bijection(Found', Held') :
               \A pair \in Found' : RowHeld(B[pair])' = Combined(pair[1], pair[2])
  <2>1. PICK B \in Bijection(Found, Held) :
          \A pair \in Found : RowHeld(B[pair]) = Combined(pair[1], pair[2])
    BY <1>3, <1>4
  <2>2. Found' = Found /\ Held' = Held /\ \A at : RowHeld(at)' = RowHeld(at)
    BY <1>2, <1>4, FoundSame, HeldSame
  <2>3. B \in Bijection(Found', Held')
    BY <2>2
  <2> QED
    BY <2>1, <2>2, <2>3
<1>5. ASSUME NEW i \in Threads, ProbeKey(i)
      PROVE  \E B \in Bijection(Found', Held') :
               \A pair \in Found' : RowHeld(B[pair])' = Combined(pair[1], pair[2])
  <2>1. PICK matches, after, box : Appended(i, matches, after, box)
    BY <1>1, <1>5, ProbeAppends DEF JoinInv
  <2>2. PICK n : n = Cardinality(Matches(cell(i)))
    OBVIOUS
  <2>3. n \in Nat /\ matches \in Bijection(1 .. n, Matches(cell(i)))
    BY <2>1, <2>2 DEF Appended
  <2>4. PICK x : x = [m \in 1 .. n |-> PairFor(i, matches, m)]
    OBVIOUS
  <2>5. PICK y : y = [m \in 1 .. n |-> <<i, box[m]>>]
    OBVIOUS
  <2>6. \A m \in 1 .. n : x[m] = PairFor(i, matches, m) /\ y[m] = <<i, box[m]>>
    BY <2>4, <2>5
  <2>7. /\ Found' = Found \cup {x[m] : m \in 1 .. n}
        /\ \A m \in 1 .. n : x[m] \notin Found
        /\ \A m, k \in 1 .. n : m # k => x[m] # x[k]
    <3>1. /\ Found' = Found \cup {PairFor(i, matches, m) : m \in 1 .. n}
          /\ \A m \in 1 .. n : PairFor(i, matches, m) \notin Found
          /\ \A m, k \in 1 .. n : m # k => PairFor(i, matches, m) # PairFor(i, matches, k)
      BY <1>5, <2>2, <2>3, ProbeFound
    <3> QED
      BY <2>6, <3>1
  <2>8. /\ Held' = Held \cup {y[m] : m \in 1 .. n}
        /\ \A m \in 1 .. n : y[m] \notin Held
        /\ \A at \in Held : RowHeld(at)' = RowHeld(at)
        /\ \A m \in 1 .. n : RowHeld(y[m])' = Combined(x[m][1], x[m][2])
    <3>1. /\ Held' = Held \cup {<<i, box[m]>> : m \in 1 .. n}
          /\ \A m \in 1 .. n : <<i, box[m]>> \notin Held
          /\ \A at \in Held : RowHeld(at)' = RowHeld(at)
          /\ \A m \in 1 .. n : RowHeld(<<i, box[m]>>)' =
               Combined(PairFor(i, matches, m)[1], PairFor(i, matches, m)[2])
      BY <1>1, <1>5, <2>1, <2>2, ProbeHeld
    <3>2. {<<i, box[m]>> : m \in 1 .. n} = {y[m] : m \in 1 .. n}
      BY <2>6
    <3>3. ASSUME NEW m \in 1 .. n PROVE RowHeld(y[m])' = Combined(x[m][1], x[m][2])
      BY <2>6, <3>1
    <3> QED
      BY <2>6, <3>1, <3>2, <3>3
  <2>9. \A m, k \in 1 .. n : m # k => y[m] # y[k]
    <3>1. \A m, k \in 1 .. n : m # k => box[m] # box[k]
      BY <2>1, <2>2 DEF Appended
    <3> QED
      BY <2>6, <3>1
  <2>10. PICK B \in Bijection(Found, Held) :
          \A pair \in Found : RowHeld(B[pair]) = Combined(pair[1], pair[2])
    BY <1>3, <1>5 DEF ProbeKey, AtCell, Running
  <2>11. PICK D : Extends(D, B, Found, Held, x, y, n)
    BY <2>3, <2>7, <2>8, <2>9, <2>10, ExtendBijection
  <2>12. /\ D \in Bijection(Found', Held')
         /\ \A pair \in Found : D[pair] = B[pair]
         /\ \A m \in 1 .. n : D[x[m]] = y[m]
    BY <2>7, <2>8, <2>11 DEF Extends
  <2>13. ASSUME NEW pair \in Found' PROVE RowHeld(D[pair])' = Combined(pair[1], pair[2])
    <3>1. CASE pair \in Found
      <4>1. D[pair] = B[pair] /\ B[pair] \in Held
        BY <2>10, <2>12, <3>1 DEF Bijection, Injection
      <4>2. RowHeld(B[pair])' = RowHeld(B[pair])
        BY <2>8, <4>1
      <4> QED
        BY <2>10, <3>1, <4>1, <4>2
    <3>2. CASE pair \notin Found
      <4>1. PICK m \in 1 .. n : pair = x[m]
        BY <2>7, <3>2
      <4> QED
        BY <4>1, <2>8, <2>12
    <3> QED
      BY <3>1, <3>2
  <2> QED
    BY <2>12, <2>13
<1>6. CASE MergePages
  <2>1. mpc = "merge" /\ \A i \in Threads : ~ProbeKey(i)
    BY <1>6 DEF MergePages, ProbeKey, AtCell, Running
  <2>2. Found' = Found
    BY <1>2, <2>1, FoundSame
  <2>3. PICK M \in Bijection(Held, Held') : \A at \in Held : RowHeld(M[at])' = RowHeld(at)
    BY <1>1, <1>6, MergeHeld
  <2>4. PICK B \in Bijection(Found, Held) :
          \A pair \in Found : RowHeld(B[pair]) = Combined(pair[1], pair[2])
    BY <1>3, <2>1
  <2>5. PICK D : D = [pair \in Found |-> M[B[pair]]]
    OBVIOUS
  <2>6. D \in Bijection(Found', Held')
    BY <2>2, <2>5, ComposeBijection
  <2>7. ASSUME NEW pair \in Found' PROVE RowHeld(D[pair])' = Combined(pair[1], pair[2])
    <3>1. D[pair] = M[B[pair]] /\ B[pair] \in Held
      BY <2>2, <2>5 DEF Bijection, Injection
    <3> QED
      BY <3>1, <2>2, <2>3, <2>4
  <2> QED
    BY <2>6, <2>7
<1>7. CASE CollectBuild
  <2>1. mpc = "start" /\ UNCHANGED <<results, thread_results>> /\ \A i \in Threads : ~ProbeKey(i)
    BY <1>7 DEF CollectBuild, ProbeKey, AtCell, Running
  <2>2. Found' = {} /\ Held' = {}
    BY <1>1, <1>2, <2>1, NothingYet, FoundSame, HeldSame
  <2>3. PICK B : B = [pair \in {} |-> pair]
    OBVIOUS
  <2>4. B \in Bijection({}, {})
    BY <2>3 DEF Bijection, Injection, Surjection, IsInjective
  <2> QED
    BY <2>2, <2>4
<1>8. CASE SkipJoin \/ CollectThrows \/ \E i \in Threads : ProbeThrows(i)
  BY <1>1, <1>8 DEF SkipJoin, CollectThrows, ProbeThrows
<1>9. CASE UNCHANGED vars
  <2>1. /\ mpc \in {"create", "join", "merge", "done"}
        /\ UNCHANGED <<results, thread_results, page_counter, wpc, page, slot, mpc>>
    BY <1>9 DEF vars
  <2>2. ASSUME NEW i \in Threads, ProbeKey(i) PROVE FALSE
    <3>1. slot' = [slot EXCEPT ![i] = slot[i] + 1] /\ slot \in [Threads -> Nat]
      BY <2>2, <1>2 DEF ProbeKey, CallerInv
    <3>2. slot'[i] = slot[i] + 1 /\ slot[i] \in Nat /\ slot' = slot
      BY <2>1, <3>1
    <3> QED
      BY <3>2
  <2> QED
    BY <1>4, <2>1, <2>2
<1>10. CASE CreateProbeThread \/ JoinProbeThread
  <2>1. /\ mpc \in {"create", "join", "merge", "done"}
        /\ UNCHANGED <<results, thread_results, slot>>
    BY <1>10 DEF CreateProbeThread, JoinProbeThread
  <2>2. ASSUME NEW i \in Threads, ProbeKey(i) PROVE FALSE
    <3>1. slot' = [slot EXCEPT ![i] = slot[i] + 1] /\ slot \in [Threads -> Nat]
      BY <2>2, <1>2 DEF ProbeKey, CallerInv
    <3>2. slot'[i] = slot[i] + 1 /\ slot[i] \in Nat /\ slot' = slot
      BY <2>1, <3>1
    <3> QED
      BY <3>2
  <2> QED
    BY <1>4, <2>1, <2>2
<1>11. ASSUME NEW i \in Threads, Prober(i)
       PROVE  \E B \in Bijection(Found', Held') :
                \A pair \in Found' : RowHeld(B[pair])' = Combined(pair[1], pair[2])
  <2>1. CASE \E j \in Threads : ProbeKey(j)
    BY <1>5, <2>1
  <2>2. CASE \A j \in Threads : ~ProbeKey(j)
    <3>1. CASE ProbeThrows(i)
      BY <1>8, <3>1
    <3>2. CASE ClaimPage(i) \/ SkipNull(i) \/ PageEnd(i)
      <4>1. /\ mpc \in {"create", "join", "merge", "done"}
            /\ UNCHANGED <<results, thread_results>>
        BY <3>2 DEF ClaimPage, SkipNull, PageEnd, AtCell, Running
      <4> QED
        BY <1>4, <2>2, <4>1
    <3> QED
      BY <1>11, <2>2, <3>1, <3>2 DEF Prober
  <2> QED
    BY <2>1, <2>2
<1> QED
  BY <1>6, <1>7, <1>8, <1>9, <1>10, <1>11 DEF Next, Caller, Over

LEMMA RowsInit == Init => RowsInv
BY DEF Init, RowsInv

LEMMA FoundFinite == ASSUME InputsInv PROVE IsFiniteSet(Found) /\ IsFiniteSet(Joined)
<1>1. IsFiniteSet(Cells(left)) /\ IsFiniteSet(Cells(right))
  BY CellsFinite DEF InputsInv
<1>2. IsFiniteSet(Cells(left) \X Cells(right))
  BY <1>1, FS_Product
<1>3. Joined \subseteq Cells(left) \X Cells(right) /\ Found \subseteq Joined
  BY DEF Joined, Found
<1>4. IsFiniteSet(Joined)
  BY <1>2, <1>3, FS_Subset
<1> QED
  BY <1>3, <1>4, FS_Subset

(* As many places hold a row as found pairs make it. *)
LEMMA RowsCounted ==
    ASSUME InputsInv, RowsInv, mpc \in {"create", "join", "merge", "done"},
           build_type = "INT32", Columns # {}, NEW row
    PROVE  Cardinality({at \in Held : RowHeld(at) = row}) = Makes(Found, row)
<1> DEFINE P == {pair \in Found : Combined(pair[1], pair[2]) = row}
           Q == {at \in Held : RowHeld(at) = row}
<1>1. PICK B \in Bijection(Found, Held) :
        \A pair \in Found : RowHeld(B[pair]) = Combined(pair[1], pair[2])
  BY DEF RowsInv
<1>2. \A pair \in Found : pair \in P <=> B[pair] \in Q
  BY <1>1 DEF Bijection, Injection
<1>3. IsFiniteSet(Found)
  BY FoundFinite
<1>4. P \subseteq Found /\ Q \subseteq Held
  OBVIOUS
<1> HIDE DEF P, Q
<1>5. Cardinality(P) = Cardinality(Q)
  BY <1>1, <1>2, <1>3, <1>4, CountBijection
<1> QED
  BY <1>5 DEF P, Q, Makes

LEMMA SomeColumn == ASSUME InputsInv, output_attrs # <<>> PROVE Columns # {}
<1>1. output_attrs \in Seq(Nat)
  BY DEF InputsInv
<1>2. Len(output_attrs) \in Nat \ {0} /\ DOMAIN output_attrs = 1 .. Len(output_attrs)
  BY <1>1, EmptySeq
<1> QED
  BY <1>2 DEF Columns

(* No claim, page boundary or merge loses or repeats a match, for every    *)
(* number of threads and every order in which they run: at every moment    *)
(* the pages of all hold the matches of the rows dealt with, each once.    *)
THEOREM NothingStaysLost == Spec => []NothingLost
<1>1. JoinInv /\ RowsInv => NothingLost
  <2> SUFFICES ASSUME JoinInv, RowsInv, mpc \in {"create", "join", "merge", "done"},
                      build_type = "INT32", output_attrs # <<>>,
                      NEW l \in Cells(left), NEW r \in Cells(right)
               PROVE  Cardinality({at \in Held : RowHeld(at) = Combined(l, r)})
                        = Makes(Found, Combined(l, r))
    BY DEF NothingLost
  <2>1. InputsInv /\ Columns # {}
    BY SomeColumn DEF JoinInv
  <2> QED
    BY <2>1, RowsCounted
<1> QED
  BY <1>1, JoinInvInit, JoinInvStep, RowsInit, RowsStep, PTL DEF Spec

(* A finished join has dealt with every probe row. *)
LEMMA AllFound ==
    ASSUME JoinInv, mpc = "done", build_type = "INT32"
    PROVE  Found = Joined
<1>1. InputsInv /\ CallerInv /\ 0 \in Threads
  BY JoinPagesAssumption DEF JoinInv, Threads
<1>2. /\ \A i \in Threads : wpc[i] = "returned"
      /\ Len(probe_table) <= page_counter
  BY <1>1 DEF CallerInv
<1>3. page_counter \in Nat
  BY DEF JoinInv, ClaimInv
<1>4. ASSUME NEW pair \in Joined PROVE pair \in Found
  <2>1. PICK q : q = ProbeSide(pair)
    OBVIOUS
  <2>2. q \in Cells(probe_table) /\ IsTable(probe_table)
    BY <1>1, <2>1, InFound DEF InputsInv, probe_table
  <2>3. q[1] \in Nat /\ q[1] < Len(probe_table) /\ Len(probe_table) \in Nat
    <3>1. PICK p, s : p \in 1 .. Len(probe_table) /\ q = <<p - 1, s - 1>>
      BY <2>2, CellsAre
    <3>2. Len(probe_table) \in Nat
      BY <2>2, TableFacts
    <3>3. q[1] = p - 1
      BY <3>1
    <3> QED
      BY <3>1, <3>2, <3>3
  <2>4. Probed(q)
    BY <1>2, <1>3, <2>3 DEF Probed
  <2> QED
    BY <1>1, <2>1, <2>4, InFound
<1> QED
  BY <1>4 DEF Found

(* After the merge the caller holds every row. *)
LEMMA AllMerged ==
    ASSUME JoinInv, mpc = "done", Columns # {}
    PROVE  [at \in Held |-> at[2]] \in Bijection(Held, Boxes(results[1]))
<1>1. 1 \in Columns /\ \A i \in Threads : thread_results[i] = NoPages
  BY DEF JoinInv, ColumnsInv, InputsInv, Columns
<1>2. /\ NumThreads \in Holders
      /\ \A h \in Holders : h # NumThreads => h \in Threads
  BY JoinPagesAssumption DEF Holders, Threads
<1>3. ASSUME NEW at
      PROVE  at \in Held <=> \E b \in Boxes(results[1]) : at = <<NumThreads, b>>
  <2>1. Pages(NumThreads) = results
    BY DEF Pages
  <2>2. ASSUME NEW h \in Holders, h # NumThreads PROVE Boxes(Pages(h)[1]) = {}
    BY <1>1, <1>2, <2>2, EmptyColumns DEF Pages
  <2> QED
    BY <1>2, <2>1, <2>2, InHeld
<1> DEFINE C == [at \in Held |-> at[2]]
<1>4. C \in [Held -> Boxes(results[1])] /\ \A at \in Held : C[at] = at[2]
  BY <1>3
<1>5. \A at, bt \in Held : C[at] = C[bt] => at = bt
  BY <1>3, <1>4
<1>6. ASSUME NEW b \in Boxes(results[1]) PROVE \E at \in Held : C[at] = b
  <2>1. <<NumThreads, b>> \in Held
    BY <1>3
  <2>2. C[<<NumThreads, b>>] = b
    BY <1>4, <2>1
  <2> QED
    BY <2>1, <2>2
<1>7. DOMAIN C = Held
  OBVIOUS
<1> HIDE DEF C
<1>8. C \in Bijection(Held, Boxes(results[1]))
  BY <1>4, <1>5, <1>6, <1>7 DEF Bijection, Injection, Surjection, IsInjective
<1> QED
  BY <1>8 DEF C

(* The rows of a finished join stand for the pairs of rows with equal keys. *)
LEMMA Finished ==
    ASSUME JoinInv, RowsInv, mpc = "done", build_type = "INT32", Columns # {}
    PROVE  \E D \in Bijection(Joined, Boxes(results[1])) :
             \A pair \in Joined : RowAt(results, D[pair]) = Combined(pair[1], pair[2])
<1>1. PICK B \in Bijection(Joined, Held) :
        \A pair \in Joined : RowHeld(B[pair]) = Combined(pair[1], pair[2])
  BY AllFound DEF RowsInv
<1>2. PICK C : C = [at \in Held |-> at[2]]
  OBVIOUS
<1>3. C \in Bijection(Held, Boxes(results[1]))
  BY <1>2, AllMerged
<1>4. PICK D : D = [pair \in Joined |-> C[B[pair]]]
  OBVIOUS
<1>5. D \in Bijection(Joined, Boxes(results[1]))
  BY <1>1, <1>3, <1>4, ComposeBijection
<1>6. ASSUME NEW pair \in Joined
      PROVE  RowAt(results, D[pair]) = Combined(pair[1], pair[2])
  <2>1. PICK at \in Held : at = B[pair]
    BY <1>1 DEF Bijection, Injection
  <2>2. D[pair] = at[2]
    BY <1>2, <1>4, <2>1
  <2>3. at[1] = NumThreads
    <3>1. PICK h \in Holders : \E b \in Boxes(Pages(h)[1]) : at = <<h, b>>
      BY <2>1, InHeld
    <3>2. PICK b \in Boxes(Pages(h)[1]) : at = <<h, b>>
      BY <3>1
    <3>3. h # NumThreads => Pages(h) = NoPages
      BY JoinPagesAssumption DEF JoinInv, ColumnsInv, Pages, Holders, Threads
    <3>4. 1 \in Columns
      BY DEF JoinInv, InputsInv, Columns
    <3> QED
      BY <3>2, <3>3, <3>4, EmptyColumns
  <2>4. RowHeld(at) = RowAt(results, at[2])
    BY <2>3 DEF RowHeld, Pages
  <2> QED
    BY <1>1, <2>1, <2>2, <2>4
<1> QED
  BY <1>5, <1>6

(* A finished join is the relational inner join of its inputs, for every   *)
(* number of threads, size of pages, pair of inputs and list of columns,   *)
(* whichever side is built and however the probe pages were claimed.       *)
THEOREM JoinIsCorrect == Spec => []JoinCorrect
<1>1. JoinInv /\ RowsInv => JoinCorrect
  <2> SUFFICES ASSUME JoinInv, RowsInv, mpc = "done", build_type = "INT32",
                      output_attrs # <<>>
               PROVE  /\ \A l \in Cells(left), r \in Cells(right) :
                           RowTimes(results, Combined(l, r)) = Makes(Joined, Combined(l, r))
                      /\ Rows(results) \subseteq
                           {Combined(l, r) : l \in Cells(left), r \in Cells(right)}
    BY DEF JoinCorrect
  <2>1. InputsInv /\ Columns # {}
    BY SomeColumn DEF JoinInv
  <2>2. PICK D \in Bijection(Joined, Boxes(results[1])) :
          \A pair \in Joined : RowAt(results, D[pair]) = Combined(pair[1], pair[2])
    BY <2>1, Finished
  <2>3. ASSUME NEW row PROVE RowTimes(results, row) = Makes(Joined, row)
    <3> DEFINE P == {pair \in Joined : Combined(pair[1], pair[2]) = row}
               Q == {b \in Boxes(results[1]) : RowAt(results, b) = row}
    <3>1. \A pair \in Joined : pair \in P <=> D[pair] \in Q
      BY <2>2 DEF Bijection, Injection
    <3>2. IsFiniteSet(Joined) /\ P \subseteq Joined /\ Q \subseteq Boxes(results[1])
      BY <2>1, FoundFinite
    <3> HIDE DEF P, Q
    <3>3. Cardinality(P) = Cardinality(Q)
      BY <2>2, <3>1, <3>2, CountBijection
    <3> QED
      BY <3>3 DEF P, Q, RowTimes, Makes
  <2>4. ASSUME NEW b \in Boxes(results[1])
        PROVE  \E l \in Cells(left), r \in Cells(right) : RowAt(results, b) = Combined(l, r)
    <3>1. PICK pair \in Joined : D[pair] = b
      BY <2>2 DEF Bijection, Surjection
    <3>2. pair[1] \in Cells(left) /\ pair[2] \in Cells(right)
      BY DEF Joined
    <3> QED
      BY <2>2, <3>1, <3>2
  <2> QED
    BY <2>3, <2>4 DEF Rows
<1> QED
  BY <1>1, JoinInvInit, JoinInvStep, RowsInit, RowsStep, PTL DEF Spec

-----------------------------------------------------------------------------
(* What a finished join leaves.  The outcomes that the execution of a plan *)
(* reckons with go back to one claim of the pages and one order of the     *)
(* matches; the state keeps neither, so the invariant says that there are  *)
(* a claim and an order that the state goes back to.                       *)

Pairs == Nat \X Nat

(* The position of a cell of the probe column, both counted from one. *)
SiteOf(p, s) == (p - 1) * PageSlots + s - 1

(* What the matches of a cell append. *)
PairsAt(matches, p, s) == [m \in DOMAIN matches |-> <<matches[m], SiteOf(p, s)>>]

(* x is what slot s of probe page p can append. *)
Appends(p, s, x) ==
    LET key == probe_table[p][s]
    IN  IF IsKey(key)
        THEN \E matches \in SetToSeqs(PositionsOf(build_table, key)) : x = PairsAt(matches, p, s)
        ELSE x = <<>>

(* found[p][s] is what slot s of page p has appended; thread i has         *)
(* appended what was found on the pages it claimed.                        *)
Parts(n, claim, found, i) ==
    [p \in 1 .. n |-> IF claim[p] = i THEN FlattenSeq(found[p]) ELSE <<>>]

FoundBy(n, claim, found, i) ==
    append_all(<<>>, FlattenSeq(Parts(n, claim, found, i)), PageSlots)

(* Pages are claimed in order, and their slots dealt with in order. *)
ClaimHistory(claim, found) ==
    LET n == Len(probe_table)
    IN  /\ claim \in [1 .. n -> Threads]
        /\ found \in Seq(Seq(Seq(Pairs))) /\ Len(found) = n
        /\ \A p \in 1 .. n :
             /\ \A s \in 1 .. Len(found[p]) : Appends(p, s, found[p][s])
             /\ page_counter < p => found[p] = <<>>
             /\ \/ page_counter < p
                \/ Len(found[p]) = Len(probe_table[p])
                \/ \E i \in Threads : wpc[i] = "probe" /\ page[i] + 1 = p
        /\ \A i \in Threads : wpc[i] = "probe" =>
             /\ claim[page[i] + 1] = i /\ Len(found[page[i] + 1]) = slot[i]
             /\ \A p \in 1 .. n : page[i] + 1 < p /\ claim[p] = i => found[p] = <<>>

(* The cell of column c that a pair stands for. *)
CellOf(c) ==
    [pair \in Pairs |->
        LET b == PositionAt(pair[1])
            q == PositionAt(pair[2])
        IN  (IF build_left THEN Combined(b, q) ELSE Combined(q, b))[c]]

(* How many threads have been merged. *)
Merged == IF mpc = "merge" THEN mi ELSE IF mpc = "done" THEN NumThreads ELSE 0

(* The pages of the threads that are merged, in order. *)
MergedPages(n, claim, found, k) ==
    FlattenSeq([i \in 1 .. k |-> FoundBy(n, claim, found, i - 1)])

PagesHistory(claim, found) ==
    LET n == Len(probe_table)
    IN  \A c \in Columns :
          /\ \A i \in Threads : Merged <= i =>
               thread_results[i][c] = MapPages(CellOf(c), FoundBy(n, claim, found, i))
          /\ results[c] = MapPages(CellOf(c), MergedPages(n, claim, found, Merged))

OutcomeInv ==
    mpc \in {"create", "join", "merge", "done"} /\ build_type = "INT32" =>
        \E claim, found : ClaimHistory(claim, found) /\ PagesHistory(claim, found)

(* The positions that a probe finds are those that JoinPages speaks of. *)
LEMMA PositionsAre ==
    ASSUME NEW t, IsTable(t), NEW key
    PROVE  PositionsOf(t, key) = {PositionOf(b) : b \in {x \in Cells(t) : KeyAt(t, x) = key}}
<1>1. /\ Len(t) \in Nat /\ DOMAIN t = 1 .. Len(t) /\ PageSlots \in Nat \ {0}
      /\ \A p \in 1 .. Len(t) : /\ Len(t[p]) \in 0 .. PageSlots
                                /\ DOMAIN t[p] = 1 .. Len(t[p])
  BY TableFacts, JoinPagesAssumption
<1>2. ASSUME NEW p \in 1 .. Len(t), NEW s \in 1 .. Len(t[p])
      PROVE  /\ <<p - 1, s - 1>> \in Cells(t)
             /\ PositionOf(<<p - 1, s - 1>>) = SiteOf(p, s)
             /\ KeyAt(t, <<p - 1, s - 1>>) = t[p][s]
             /\ CellAt(t, SiteOf(p, s)) = t[p][s]
  <2>1. PICK j, r : j = p - 1 /\ r = s - 1
    OBVIOUS
  <2>2. j \in Nat /\ r \in 0 .. PageSlots - 1 /\ j + 1 = p /\ r + 1 = s
    BY <1>1, <2>1
  <2>3. /\ j * PageSlots + r \in Nat
        /\ (j * PageSlots + r) \div PageSlots = j /\ (j * PageSlots + r) % PageSlots = r
    BY <1>1, <2>2, PositionParts
  <2>4. SiteOf(p, s) = j * PageSlots + r
    <3>1. j * PageSlots \in Nat
      BY <1>1, <2>2
    <3>2. SiteOf(p, s) = j * PageSlots + s - 1
      BY <2>1 DEF SiteOf
    <3>3. PICK x, site : x = j * PageSlots /\ site = SiteOf(p, s)
      OBVIOUS
    <3>4. x \in Nat /\ site = x + s - 1 /\ r + 1 = s /\ r \in 0 .. PageSlots - 1
      BY <2>2, <3>1, <3>2, <3>3
    <3>5. site = x + r
      BY ONLY <1>1, <3>4
    <3> QED
      BY <3>3, <3>5
  <2>5. <<p - 1, s - 1>> \in Cells(t)
    BY CellsAre
  <2> QED
    BY <2>1, <2>2, <2>3, <2>4, <2>5 DEF PositionOf, KeyAt, CellAt
<1>3. ASSUME NEW pos
      PROVE  pos \in PositionsOf(t, key) <=>
               \E p \in 1 .. Len(t) : \E s \in 1 .. Len(t[p]) : pos = SiteOf(p, s) /\ t[p][s] = key
  <2>1. \A p \in 1 .. Len(t) :
          pos \in Range(PagePositions(t, p)) <=> \E s \in 1 .. Len(t[p]) : pos = SiteOf(p, s)
    BY <1>1 DEF PagePositions, Range, SiteOf
  <2>2. pos \in PositionsOf(t, key) <=>
          /\ \E p \in 1 .. Len(t) : pos \in Range(PagePositions(t, p))
          /\ CellAt(t, pos) = key
    BY <1>1 DEF PositionsOf
  <2>3. ASSUME NEW p \in 1 .. Len(t), NEW s \in 1 .. Len(t[p]), pos = SiteOf(p, s)
        PROVE  pos \in Range(PagePositions(t, p)) /\ CellAt(t, pos) = t[p][s]
    BY <1>2, <2>1, <2>3
  <2>4. ASSUME pos \in PositionsOf(t, key)
        PROVE  \E p \in 1 .. Len(t) : \E s \in 1 .. Len(t[p]) : pos = SiteOf(p, s) /\ t[p][s] = key
    <3>1. PICK p \in 1 .. Len(t) : pos \in Range(PagePositions(t, p))
      BY <2>2, <2>4
    <3>2. PICK s \in 1 .. Len(t[p]) : pos = SiteOf(p, s)
      BY <2>1, <3>1
    <3>3. CellAt(t, pos) = t[p][s]
      BY <2>3, <3>2
    <3> QED
      BY <2>2, <2>4, <3>2, <3>3
  <2> QED
    BY <2>2, <2>3, <2>4
<1>4. ASSUME NEW pos
      PROVE  pos \in {PositionOf(b) : b \in {x \in Cells(t) : KeyAt(t, x) = key}} <=>
               \E p \in 1 .. Len(t) : \E s \in 1 .. Len(t[p]) : pos = SiteOf(p, s) /\ t[p][s] = key
  <2>1. ASSUME NEW b \in Cells(t), KeyAt(t, b) = key, pos = PositionOf(b)
        PROVE  \E p \in 1 .. Len(t) : \E s \in 1 .. Len(t[p]) : pos = SiteOf(p, s) /\ t[p][s] = key
    <3>1. PICK p, s : p \in 1 .. Len(t) /\ s \in 1 .. Len(t[p]) /\ b = <<p - 1, s - 1>>
      BY CellsAre
    <3> QED
      BY <1>2, <2>1, <3>1
  <2>2. ASSUME NEW p \in 1 .. Len(t), NEW s \in 1 .. Len(t[p]), pos = SiteOf(p, s), t[p][s] = key
        PROVE  \E b \in Cells(t) : KeyAt(t, b) = key /\ pos = PositionOf(b)
    BY <1>2, <2>2
  <2> QED
    BY <2>1, <2>2
<1> QED
  BY <1>3, <1>4

LEMMA MatchesPositions ==
    ASSUME InputsInv, Range(temp_keys_pos) = Entries(build_table), NEW key, IsKey(key)
    PROVE  Matches(key) = PositionsOf(build_table, key)
<1>1. IsTable(build_table)
  BY DEF InputsInv, build_table
<1> QED
  BY <1>1, MatchesAre, PositionsAre DEF BuildCells

LEMMA SiteFacts ==
    ASSUME NEW p \in Nat \ {0}, NEW s \in 1 .. PageSlots
    PROVE  SiteOf(p, s) \in Nat /\ PositionAt(SiteOf(p, s)) = <<p - 1, s - 1>>
<1>1. PICK j, r : j = p - 1 /\ r = s - 1
  OBVIOUS
<1>2. j \in Nat /\ r \in 0 .. PageSlots - 1 /\ PageSlots \in Nat \ {0}
  BY <1>1, JoinPagesAssumption
<1>3. /\ j * PageSlots + r \in Nat
      /\ (j * PageSlots + r) \div PageSlots = j /\ (j * PageSlots + r) % PageSlots = r
  BY <1>2, PositionParts
<1>4. SiteOf(p, s) = j * PageSlots + r
  <2>1. j * PageSlots \in Nat
    BY <1>2
  <2>2. SiteOf(p, s) = j * PageSlots + s - 1
    BY <1>1 DEF SiteOf
  <2>3. PICK x : x = j * PageSlots
    OBVIOUS
  <2> QED
    BY <1>1, <2>1, <2>2, <2>3
<1> QED
  BY <1>1, <1>3, <1>4 DEF PositionAt

(* The columns of a join hold origins. *)
LEMMA CellOfType ==
    ASSUME InputsInv, NEW c \in Columns
    PROVE  Maps(CellOf(c), Pairs, Origin)
<1> SUFFICES ASSUME NEW pair \in Pairs PROVE CellOf(c)[pair] \in Origin
  BY DEF Maps
<1>1. output_attrs[c] \in Nat
  BY DEF InputsInv, Columns
<1>2. PICK b, q : b = PositionAt(pair[1]) /\ q = PositionAt(pair[2])
  OBVIOUS
<1>3. /\ pair[1] \in Nat /\ pair[2] \in Nat /\ PageSlots \in Nat \ {0}
  BY JoinPagesAssumption DEF Pairs
<1>4. b[1] \in Nat /\ b[2] \in Nat /\ q[1] \in Nat /\ q[2] \in Nat
  BY <1>2, <1>3 DEF PositionAt
<1>5. CellOf(c)[pair] = (IF build_left THEN Combined(b, q) ELSE Combined(q, b))[c]
  BY <1>2 DEF CellOf
<1>6. \A x, y : x[1] \in Nat /\ x[2] \in Nat /\ y[1] \in Nat /\ y[2] \in Nat =>
                  Combined(x, y)[c] \in Origin
  <2> SUFFICES ASSUME NEW x, NEW y, x[1] \in Nat, x[2] \in Nat, y[1] \in Nat, y[2] \in Nat
               PROVE  Combined(x, y)[c] \in Origin
    OBVIOUS
  <2>1. PICK at : at = IF output_attrs[c] < LeftCols THEN x ELSE y
    OBVIOUS
  <2>2. Combined(x, y)[c] = [col |-> output_attrs[c], page |-> at[1], slot |-> at[2]]
    BY <2>1 DEF Combined
  <2>3. at[1] \in Nat /\ at[2] \in Nat
    BY <2>1
  <2> QED
    BY <1>1, <2>2, <2>3 DEF Origin
<1> QED
  BY <1>4, <1>5, <1>6

(* An order of positions is a sequence of numbers. *)
LEMMA OrderType ==
    ASSUME NEW t, IsTable(t), NEW key, NEW matches \in SetToSeqs(PositionsOf(t, key))
    PROVE  matches \in Seq(Nat) /\ DOMAIN matches = 1 .. Len(matches)
<1> DEFINE C == {x \in Cells(t) : KeyAt(t, x) = key}
<1>1. PICK S : S = PositionsOf(t, key)
  OBVIOUS
<1>2. S = {PositionOf(b) : b \in C}
  BY <1>1, PositionsAre
<1>3. IsFiniteSet(C) /\ C \subseteq Cells(t)
  BY CellsFinite, FS_Subset
<1> HIDE DEF C
<1>4. S \subseteq Nat
  BY <1>2, <1>3, CellPosition
<1>5. IsFiniteSet(S)
  <2> DEFINE f == [b \in C |-> PositionOf(b)]
  <2>1. f \in Surjection(C, S)
    BY <1>2 DEF Surjection
  <2> QED
    BY <2>1, <1>3, FS_Surjection
<1>6. PICK n : n = Cardinality(S)
  OBVIOUS
<1>7. n \in Nat
  BY <1>5, <1>6, FS_CardinalityType
<1>8. matches \in [1 .. n -> S]
  BY <1>1, <1>6 DEF SetToSeqs
<1>9. matches \in [1 .. n -> Nat]
  BY <1>4, <1>8
<1>10. matches = [m \in 1 .. n |-> matches[m]] /\ \A m \in 1 .. n : matches[m] \in Nat
  BY <1>9
<1> QED
  BY <1>7, <1>10, IsSeq

LEMMA PairsAtType ==
    ASSUME NEW matches \in Seq(Nat), NEW p \in Nat \ {0}, NEW s \in 1 .. PageSlots
    PROVE  /\ PairsAt(matches, p, s) \in Seq(Pairs)
           /\ Len(PairsAt(matches, p, s)) = Len(matches)
           /\ \A m \in 1 .. Len(matches) :
                PairsAt(matches, p, s)[m] = <<matches[m], SiteOf(p, s)>>
<1>1. PICK x, n, site : x = PairsAt(matches, p, s) /\ n = Len(matches) /\ site = SiteOf(p, s)
  OBVIOUS
<1>2. n \in Nat /\ DOMAIN matches = 1 .. n /\ site \in Nat
  BY <1>1, SiteFacts
<1>3. x = [m \in 1 .. n |-> <<matches[m], site>>]
  BY <1>1, <1>2 DEF PairsAt
<1>4. \A m \in 1 .. n : x[m] = <<matches[m], site>> /\ x[m] \in Pairs
  BY <1>1, <1>2, <1>3 DEF Pairs
<1>5. x \in Seq(Pairs) /\ Len(x) = n
  <2>1. x = [m \in 1 .. n |-> x[m]]
    BY <1>3
  <2> QED
    BY <1>2, <1>4, <2>1, IsSeq
<1> QED
  BY <1>1, <1>4, <1>5

(* What a thread has found: pages of pairs. *)
IsHistory(n, claim, found) ==
    n \in Nat /\ claim \in [1 .. n -> Threads] /\ found \in Seq(Seq(Seq(Pairs))) /\ Len(found) = n

LEMMA PartsType ==
    ASSUME NEW n, NEW claim, NEW found, IsHistory(n, claim, found), NEW i
    PROVE  /\ Parts(n, claim, found, i) \in Seq(Seq(Pairs))
           /\ Len(Parts(n, claim, found, i)) = n
           /\ \A p \in 1 .. n : Parts(n, claim, found, i)[p] =
                IF claim[p] = i THEN FlattenSeq(found[p]) ELSE <<>>
<1>1. PICK parts : parts = Parts(n, claim, found, i)
  OBVIOUS
<1>2. n \in Nat /\ \A p \in 1 .. n : found[p] \in Seq(Seq(Pairs))
  BY DEF IsHistory
<1>3. \A p \in 1 .. n : parts[p] = IF claim[p] = i THEN FlattenSeq(found[p]) ELSE <<>>
  BY <1>1 DEF Parts
<1>4. ASSUME NEW p \in 1 .. n PROVE parts[p] \in Seq(Pairs)
  <2>1. FlattenSeq(found[p]) \in Seq(Pairs)
    <3>1. PICK seqs : seqs = found[p]
      OBVIOUS
    <3>2. seqs \in Seq(Seq(Pairs))
      BY <1>2, <3>1
    <3> QED
      BY <3>1, <3>2, FlattenRange
  <2>2. PICK e : e = <<>>
    OBVIOUS
  <2>3. e \in Seq(Pairs) /\ parts[p] = IF claim[p] = i THEN FlattenSeq(found[p]) ELSE e
    BY <1>3, <2>2
  <2> QED
    BY <2>1, <2>3
<1>5. parts = [p \in 1 .. n |-> parts[p]]
  BY <1>1 DEF Parts
<1>6. parts \in Seq(Seq(Pairs)) /\ Len(parts) = n
  BY <1>2, <1>4, <1>5, IsSeq
<1> QED
  BY <1>1, <1>3, <1>6

LEMMA FoundByType ==
    ASSUME NEW n, NEW claim, NEW found, IsHistory(n, claim, found), NEW i
    PROVE  /\ FlattenSeq(Parts(n, claim, found, i)) \in Seq(Pairs)
           /\ FoundBy(n, claim, found, i) \in Seq(Seq(Pairs))
<1>1. PICK parts, flat : parts = Parts(n, claim, found, i) /\ flat = FlattenSeq(parts)
  OBVIOUS
<1>2. parts \in Seq(Seq(Pairs))
  BY <1>1, PartsType
<1>3. flat \in Seq(Pairs)
  BY <1>1, <1>2, FlattenRange
<1>4. append_all(<<>>, flat, PageSlots) \in Seq(Seq(Pairs))
  <2>1. PageSlots \in Nat \ {0} /\ Len(flat) = Len(flat)
    BY JoinPagesAssumption
  <2> QED
    BY <1>3, <2>1, FilledPages
<1> QED
  BY <1>1, <1>3, <1>4 DEF FoundBy

(* A claim takes a page of which nothing has been found. *)
Claims(n, claim, found, i, q, claim2) ==
    /\ i \in Threads /\ q \in 1 .. n /\ found[q] = <<>>
    /\ claim2 = [claim EXCEPT ![q] = i]

LEMMA ClaimKeeps ==
    ASSUME NEW n, NEW claim, NEW found, IsHistory(n, claim, found),
           NEW i, NEW q, NEW claim2, Claims(n, claim, found, i, q, claim2), NEW j
    PROVE  IsHistory(n, claim2, found) /\ FoundBy(n, claim2, found, j) = FoundBy(n, claim, found, j)
<1>6. i \in Threads /\ q \in 1 .. n /\ found[q] = <<>> /\ claim2 = [claim EXCEPT ![q] = i]
  BY DEF Claims
<1>1. IsHistory(n, claim2, found)
  BY <1>6 DEF IsHistory
<1>2. claim \in [1 .. n -> Threads]
  BY DEF IsHistory
<1>3. FlattenSeq(found[q]) = <<>>
  BY <1>6, FlattenNone
<1>4. \A p \in 1 .. n : Parts(n, claim2, found, j)[p] = Parts(n, claim, found, j)[p]
  BY <1>2, <1>3, <1>6 DEF Parts
<1>5. Parts(n, claim2, found, j) = Parts(n, claim, found, j)
  BY <1>4 DEF Parts
<1> QED
  BY <1>1, <1>5 DEF FoundBy

(* A slot is the last that its thread has dealt with. *)
LastOf(n, claim, found, i, q) ==
    /\ q \in 1 .. n /\ claim[q] = i
    /\ \A p \in 1 .. n : q < p /\ claim[p] = i => found[p] = <<>>

(* What thread i appends for its next slot of page q is x. *)
Adds(n, claim, found, i, q, x, found2) ==
    LastOf(n, claim, found, i, q) /\ x \in Seq(Pairs) /\ found2 = [found EXCEPT ![q] = Append(@, x)]

LEMMA FoundGrows ==
    ASSUME NEW n, NEW claim, NEW found, IsHistory(n, claim, found),
           NEW i, NEW q, NEW x, NEW found2, Adds(n, claim, found, i, q, x, found2)
    PROVE  /\ IsHistory(n, claim, found2)
           /\ FoundBy(n, claim, found2, i) = append_all(FoundBy(n, claim, found, i), x, PageSlots)
           /\ \A j : j # i => FoundBy(n, claim, found2, j) = FoundBy(n, claim, found, j)
<1>15. x \in Seq(Pairs) /\ found2 = [found EXCEPT ![q] = Append(@, x)]
  BY DEF Adds
<1>1. n \in Nat /\ Len(found) = n /\ DOMAIN found = 1 .. n /\ found[q] \in Seq(Seq(Pairs))
      /\ q \in 1 .. n /\ claim[q] = i
      /\ \A p \in 1 .. n : q < p /\ claim[p] = i => found[p] = <<>>
  BY DEF IsHistory, LastOf, Adds
<1>2. PICK fq, fq2 : fq = found[q] /\ fq2 = Append(fq, x)
  OBVIOUS
<1>3. fq \in Seq(Seq(Pairs)) /\ fq2 \in Seq(Seq(Pairs)) /\ fq2 = fq \o <<x>>
  <2>1. fq \in Seq(Seq(Pairs)) /\ fq2 = Append(fq, x)
    BY <1>1, <1>2
  <2>2. PICK T : T = Seq(Pairs)
    OBVIOUS
  <2>3. fq \in Seq(T) /\ x \in T
    BY <1>15, <2>1, <2>2
  <2>4. Append(fq, x) \in Seq(T) /\ Append(fq, x) = fq \o <<x>>
    BY ONLY <2>3
  <2> QED
    BY <2>1, <2>2, <2>4
<1>4. found2[q] = fq2 /\ \A p \in 1 .. n : p # q => found2[p] = found[p]
  BY <1>1, <1>2, <1>15
<1>5. IsHistory(n, claim, found2)
  BY <1>1, <1>2, <1>3, <1>15 DEF IsHistory
<1>6. FlattenSeq(fq2) = FlattenSeq(fq) \o x
  <2>1. PICK one : one = <<x>>
    OBVIOUS
  <2>2. one \in Seq(Seq(Pairs))
    BY <1>15, <2>1
  <2>3. FlattenSeq(fq \o one) = FlattenSeq(fq) \o FlattenSeq(one)
    BY <1>3, <2>2, FlattenConcat
  <2>4. FlattenSeq(one) = x
    BY <1>15, <2>1, FlattenOne
  <2> QED
    BY <1>3, <2>1, <2>3, <2>4
<1>7. PICK a, b : a = Parts(n, claim, found, i) /\ b = Parts(n, claim, found2, i)
  OBVIOUS
<1>8. /\ a \in Seq(Seq(Pairs)) /\ Len(a) = n
      /\ \A p \in 1 .. n : a[p] = IF claim[p] = i THEN FlattenSeq(found[p]) ELSE <<>>
  BY <1>7, PartsType
<1>9. /\ b \in Seq(Seq(Pairs)) /\ Len(b) = n
      /\ \A p \in 1 .. n : b[p] = IF claim[p] = i THEN FlattenSeq(found2[p]) ELSE <<>>
  <2>1. IsHistory(n, claim, found2)
    BY <1>5
  <2> QED
    BY ONLY <2>1, <1>7, PartsType
<1>10. Grows(a, b, q, x)
  <2>1. b[q] = a[q] \o x
    BY <1>1, <1>2, <1>4, <1>6, <1>8, <1>9
  <2>2. \A p \in 1 .. n : p # q => b[p] = a[p]
    BY <1>4, <1>8, <1>9
  <2>3. ASSUME NEW p \in 1 .. n, p > q PROVE a[p] = <<>>
    <3>1. claim[p] = i => found[p] = <<>>
      BY <1>1, <2>3
    <3> QED
      BY <1>8, <3>1, FlattenNone
  <2> QED
    BY <1>1, <1>8, <1>9, <2>1, <2>2, <2>3 DEF Grows
<1>11. PICK fa, fb : fa = FlattenSeq(a) /\ fb = FlattenSeq(b)
  OBVIOUS
<1>12. fb = fa \o x /\ fa \in Seq(Pairs)
  <2>1. a \in Seq(Seq(Pairs)) /\ b \in Seq(Seq(Pairs)) /\ x \in Seq(Pairs)
    BY <1>8, <1>9, <1>15
  <2>2. FlattenSeq(b) = FlattenSeq(a) \o x
    BY ONLY <2>1, <1>10, FlattenLast
  <2>3. FlattenSeq(a) \in Seq(Pairs)
    BY ONLY <2>1, FlattenRange
  <2> QED
    BY <1>11, <2>2, <2>3
<1>13. append_all(append_all(<<>>, fa, PageSlots), x, PageSlots) = append_all(<<>>, fb, PageSlots)
  BY <1>12, <1>15, AppendAllTwice
<1>14. ASSUME NEW j, j # i PROVE FoundBy(n, claim, found2, j) = FoundBy(n, claim, found, j)
  <2>1. \A p \in 1 .. n : Parts(n, claim, found2, j)[p] = Parts(n, claim, found, j)[p]
    BY <1>1, <1>4, <1>14 DEF Parts
  <2>2. Parts(n, claim, found2, j) = Parts(n, claim, found, j)
    BY <2>1 DEF Parts
  <2> QED
    BY <2>2 DEF FoundBy
<1> QED
  BY <1>5, <1>7, <1>11, <1>13, <1>14 DEF FoundBy

(* What a history speaks of does not change with the join. *)
LEMMA HistoryRigid ==
    ASSUME UNCHANGED join
    PROVE  /\ build_table' = build_table /\ probe_table' = probe_table /\ Columns' = Columns
           /\ build_type' = build_type
           /\ \A c : CellOf(c)' = CellOf(c)
           /\ \A p, s, x : Appends(p, s, x)' <=> Appends(p, s, x)
<1>1. /\ left' = left /\ right' = right /\ build_left' = build_left
      /\ build_type' = build_type /\ output_attrs' = output_attrs
  BY DEF join
<1>2. build_table' = build_table /\ probe_table' = probe_table /\ Columns' = Columns
  BY <1>1 DEF build_table, probe_table, Columns
<1>3. \A c : CellOf(c)' = CellOf(c)
  BY <1>1, <1>2 DEF CellOf, Combined, PositionAt
<1>4. \A p, s, x : Appends(p, s, x)' <=> Appends(p, s, x)
  BY <1>2 DEF Appends, IsKey
<1> QED
  BY <1>1, <1>2, <1>3, <1>4

LEMMA HistoryType ==
    ASSUME InputsInv, NEW claim, NEW found, ClaimHistory(claim, found)
    PROVE  IsHistory(Len(probe_table), claim, found)
<1>1. Len(probe_table) \in Nat
  BY TableFacts DEF InputsInv, probe_table
<1> QED
  BY <1>1 DEF ClaimHistory, IsHistory

LEMMA ClaimSame ==
    ASSUME UNCHANGED join, UNCHANGED <<page_counter, page, slot>>,
           \A i \in Threads : wpc'[i] = "probe" <=> wpc[i] = "probe",
           NEW claim, NEW found, ClaimHistory(claim, found)
    PROVE  ClaimHistory(claim, found)'
<1>1. page_counter' = page_counter /\ page' = page /\ slot' = slot
  OBVIOUS
<1>2. PICK n : n = Len(probe_table)
  OBVIOUS
<1>3. /\ probe_table' = probe_table /\ n = Len(probe_table)'
      /\ \A p, s, x : Appends(p, s, x)' <=> Appends(p, s, x)
  BY <1>2, HistoryRigid
<1>4. claim \in [1 .. n -> Threads] /\ found \in Seq(Seq(Seq(Pairs))) /\ Len(found) = n
  BY <1>2 DEF ClaimHistory
<1>5. ASSUME NEW p \in 1 .. n
      PROVE  /\ \A s \in 1 .. Len(found[p]) : Appends(p, s, found[p][s])'
             /\ page_counter' < p => found[p] = <<>>
             /\ \/ page_counter' < p
                \/ Len(found[p]) = Len(probe_table'[p])
                \/ \E i \in Threads : wpc'[i] = "probe" /\ page'[i] + 1 = p
  BY <1>1, <1>2, <1>3 DEF ClaimHistory
<1>6. ASSUME NEW i \in Threads, wpc'[i] = "probe"
      PROVE  /\ claim[page'[i] + 1] = i /\ Len(found[page'[i] + 1]) = slot'[i]
             /\ \A p \in 1 .. n : page'[i] + 1 < p /\ claim[p] = i => found[p] = <<>>
  BY <1>1, <1>2, <1>6 DEF ClaimHistory
<1> QED
  BY <1>3, <1>4, <1>5, <1>6 DEF ClaimHistory

LEMMA PagesSame ==
    ASSUME UNCHANGED join, UNCHANGED <<thread_results, results>>, Merged' = Merged,
           NEW claim, NEW found, PagesHistory(claim, found)
    PROVE  PagesHistory(claim, found)'
<1>1. thread_results' = thread_results /\ results' = results
  OBVIOUS
<1> QED
  BY <1>1, HistoryRigid DEF PagesHistory

(* Nothing has been found before the first claim. *)
LEMMA NothingFound ==
    ASSUME NEW n \in Nat, NEW claim, NEW found, IsHistory(n, claim, found),
           \A p \in 1 .. n : found[p] = <<>>, NEW i
    PROVE  FoundBy(n, claim, found, i) = <<>>
<1>1. PICK parts : parts = Parts(n, claim, found, i)
  OBVIOUS
<1>2. /\ parts \in Seq(Seq(Pairs)) /\ Len(parts) = n
      /\ \A p \in 1 .. n : parts[p] = IF claim[p] = i THEN FlattenSeq(found[p]) ELSE <<>>
  BY <1>1, PartsType
<1>3. \A p \in 1 .. n : parts[p] = <<>>
  BY <1>2, FlattenNone
<1>4. FlattenSeq(parts) = <<>>
  <2>1. FlattenSeq(parts) \in Seq(Pairs) /\ Range(FlattenSeq(parts)) = UNION {Range(parts[m]) : m \in 1 .. n}
    BY <1>2, FlattenRange
  <2>2. \A m \in 1 .. n : Range(parts[m]) = {}
    BY <1>3 DEF Range
  <2>3. Range(FlattenSeq(parts)) = {}
    BY <2>1, <2>2
  <2>4. PICK flat : flat = FlattenSeq(parts)
    OBVIOUS
  <2>5. flat \in Seq(Pairs) /\ Range(flat) = {}
    BY <2>1, <2>3, <2>4
  <2>6. Len(flat) = 0
    <3> SUFFICES ASSUME Len(flat) # 0 PROVE FALSE
      OBVIOUS
    <3>1. 1 \in DOMAIN flat
      BY <2>5
    <3> QED
      BY <2>5, <3>1 DEF Range
  <2> QED
    BY <2>4, <2>5, <2>6
<1>5. append_all(<<>>, <<>>, PageSlots) = <<>>
  <2>1. PICK e : e = <<>>
    OBVIOUS
  <2>2. e \in Seq(Pairs) /\ Len(e) = 0
    BY <2>1
  <2>4. e \in Seq(Pairs)
    BY <2>2
  <2>3. PICK h : /\ h[0] = e
                 /\ \A m \in 1 .. Len(e) : h[m] = append(h[m - 1], e[m], PageSlots)
                 /\ append_all(e, e, PageSlots) = h[Len(e)]
    BY ONLY <2>4, FoldSteps
  <2> QED
    BY <2>1, <2>2, <2>3
<1> QED
  BY <1>1, <1>4, <1>5 DEF FoundBy

LEMMA NothingMerged ==
    ASSUME NEW n, NEW claim, NEW found
    PROVE  MergedPages(n, claim, found, 0) = <<>>
<1>1. [i \in 1 .. 0 |-> FoundBy(n, claim, found, i - 1)] = <<>>
  OBVIOUS
<1> QED
  BY <1>1, FlattenNone DEF MergedPages

LEMMA MapNothing == ASSUME NEW f PROVE MapPages(f, <<>>) = <<>>
BY DEF MapPages

LEMMA OutcomeBegins ==
    ASSUME JoinInv, [Next]_vars, mpc = "start"
    PROVE  OutcomeInv'
<1> SUFFICES ASSUME mpc' \in {"create", "join", "merge", "done"}, build_type' = "INT32"
             PROVE  \E claim, found : ClaimHistory(claim, found)' /\ PagesHistory(claim, found)'
  BY DEF OutcomeInv
<1>1. UNCHANGED join
  BY JoinUnchanged
<1>2. /\ InputsInv /\ CallerInv /\ ColumnsInv /\ page_counter = 0 /\ mi = 0
      /\ \A i \in Threads : wpc[i] = "none"
      /\ results = NoPages /\ \A i \in Threads : thread_results[i] = NoPages
  BY DEF JoinInv, CallerInv, ColumnsInv
<1>3. build_type = "INT32"
  BY <1>1, HistoryRigid
<1>4. /\ mpc' = "create"
      /\ UNCHANGED <<mi, page_counter, wpc, page, slot, thread_results, results>>
  <2>1. \A i \in Threads : ~Prober(i)
    BY <1>2 DEF Prober, ClaimPage, ProbeKey, SkipNull, ProbeThrows, PageEnd, AtCell, Running
  <2>2. ~UNCHANGED vars
    BY DEF vars
  <2>3. CollectBuild
    BY <1>3, <2>1, <2>2 DEF Next, Caller, Over, SkipJoin, CollectThrows, CreateProbeThread,
       JoinProbeThread, MergePages
  <2> QED
    BY <2>3 DEF CollectBuild
<1>5. PICK n : n = Len(probe_table)
  OBVIOUS
<1>6. n \in Nat /\ 0 \in Threads
  BY <1>2, <1>5, TableFacts, JoinPagesAssumption DEF InputsInv, probe_table, Threads
<1>7. PICK claim, found : claim = [p \in 1 .. n |-> 0] /\ found = [p \in 1 .. n |-> <<>>]
  OBVIOUS
<1>8. \A p \in 1 .. n : found[p] = <<>>
  BY <1>7
<1>9. found \in Seq(Seq(Seq(Pairs))) /\ Len(found) = n
  <2>1. PICK e : e = <<>>
    OBVIOUS
  <2>2. e \in Seq(Seq(Pairs)) /\ found = [p \in 1 .. n |-> e]
    BY <1>7, <2>1
  <2> QED
    BY <1>6, <2>2
<1>10. claim \in [1 .. n -> Threads]
  BY <1>6, <1>7
<1>11. IsHistory(n, claim, found)
  BY <1>6, <1>9, <1>10 DEF IsHistory
<1>12. ClaimHistory(claim, found)'
  <2>1. probe_table' = probe_table /\ page_counter' = 0 /\ \A i \in Threads : wpc'[i] = "none"
    BY <1>1, <1>2, <1>4, HistoryRigid
  <2>2. \A p \in 1 .. n : 0 < p /\ \A s \in 1 .. Len(found[p]) : FALSE
    BY <1>6, <1>8
  <2> QED
    BY <1>5, <1>8, <1>9, <1>10, <2>1, <2>2 DEF ClaimHistory
<1>13. PagesHistory(claim, found)'
  <2>1. probe_table' = probe_table /\ Columns' = Columns /\ Merged' = 0
    BY <1>1, <1>4, HistoryRigid DEF Merged
  <2>2. \A i : FoundBy(n, claim, found, i) = <<>>
    BY <1>6, <1>8, <1>11, NothingFound
  <2>3. \A c \in Columns : results'[c] = <<>> /\ \A i \in Threads : thread_results'[i][c] = <<>>
    BY <1>2, <1>4 DEF NoPages
  <2> QED
    BY <1>5, <2>1, <2>2, <2>3, NothingMerged, MapNothing DEF PagesHistory
<1> QED
  BY <1>12, <1>13

(* The next thread's pages come behind those merged so far. *)
LEMMA MergedNext ==
    ASSUME NEW n, NEW claim, NEW found, IsHistory(n, claim, found), NEW k \in Nat
    PROVE  /\ MergedPages(n, claim, found, k) \in Seq(Seq(Pairs))
           /\ MergedPages(n, claim, found, k + 1) =
                MergedPages(n, claim, found, k) \o FoundBy(n, claim, found, k)
<1>1. PICK T : T = Seq(Pairs)
  OBVIOUS
<1>2. \A i : FoundBy(n, claim, found, i) \in Seq(T)
  BY <1>1, FoundByType
<1>3. PICK a, b : /\ a = [i \in 1 .. k |-> FoundBy(n, claim, found, i - 1)]
                  /\ b = [i \in 1 .. k + 1 |-> FoundBy(n, claim, found, i - 1)]
  OBVIOUS
<1>4. a \in Seq(Seq(T)) /\ Len(a) = k
  BY <1>2, <1>3
<1>5. b \in Seq(Seq(T)) /\ Len(b) = k + 1
  BY <1>2, <1>3
<1>6. PICK x, one : x = FoundBy(n, claim, found, k) /\ one = <<x>>
  OBVIOUS
<1>7. x \in Seq(T) /\ one \in Seq(Seq(T)) /\ Len(one) = 1 /\ one[1] = x
  BY <1>2, <1>6
<1>8. b = a \o one
  <2>1. PICK c, l, U : c = a \o one /\ l = 1 /\ U = Seq(T)
    OBVIOUS
  <2>2. a \in Seq(U) /\ one \in Seq(U) /\ k = Len(a) /\ l = Len(one)
    BY <1>4, <1>7, <2>1
  <2>3. /\ a \o one \in Seq(U) /\ Len(a \o one) = k + l
        /\ \A p \in 1 .. k : (a \o one)[p] = a[p]
        /\ \A p \in 1 .. l : (a \o one)[k + p] = one[p]
    BY ONLY <2>2, ConcatenationAt
  <2>4. \A i \in 1 .. k : b[i] = a[i]
    BY <1>3
  <2>5. b[k + 1] = x
    BY <1>3, <1>6
  <2>6. c \in Seq(U) /\ Len(c) = k + 1 /\ c[k + 1] = x /\ \A i \in 1 .. k : c[i] = a[i]
    BY <1>7, <2>1, <2>3
  <2>7. \A i \in 1 .. k + 1 : c[i] = b[i]
    BY <2>4, <2>5, <2>6
  <2>8. c = b
    BY <1>5, <2>1, <2>6, <2>7, EqualSeqs
  <2> QED
    BY <2>1, <2>8
<1>9. FlattenSeq(b) = FlattenSeq(a) \o FlattenSeq(one)
  BY <1>4, <1>7, <1>8, FlattenConcat
<1>10. FlattenSeq(one) = x
  BY <1>6, <1>7, FlattenOne
<1>11. FlattenSeq(a) \in Seq(T)
  BY <1>4, FlattenRange
<1> QED
  BY <1>1, <1>3, <1>6, <1>9, <1>10, <1>11 DEF MergedPages

(* The caller's steps that move no page. *)
LEMMA CallerHistory ==
    ASSUME JoinInv, [Next]_vars, CreateProbeThread \/ JoinProbeThread \/ UNCHANGED vars,
           NEW claim, NEW found, ClaimHistory(claim, found), PagesHistory(claim, found)
    PROVE  ClaimHistory(claim, found)' /\ PagesHistory(claim, found)'
<1>1. UNCHANGED join
  BY JoinUnchanged
<1>2. /\ CallerInv /\ wpc \in [Threads -> {"none", "claim", "probe", "returned"}]
      /\ mi \in Threads
  BY DEF JoinInv, CallerInv, ClaimInv
<1>3. UNCHANGED <<page_counter, page, slot>> /\ UNCHANGED <<thread_results, results>>
  BY DEF CreateProbeThread, JoinProbeThread, vars
<1>4. \A i \in Threads : wpc'[i] = "probe" <=> wpc[i] = "probe"
  <2>1. CASE CreateProbeThread
    <3>1. mpc = "create" /\ wpc' = [wpc EXCEPT ![mi] = "claim"]
      BY <2>1 DEF CreateProbeThread
    <3>2. wpc[mi] = "none"
      <4>1. mi <= mi
        BY <1>2, JoinPagesAssumption DEF Threads
      <4> QED
        BY <1>2, <3>1, <4>1 DEF CallerInv
    <3> QED
      BY <1>2, <3>1, <3>2
  <2>2. CASE ~CreateProbeThread
    BY <2>2 DEF JoinProbeThread, vars
  <2> QED
    BY <2>1, <2>2
<1>5. Merged' = Merged
  <2>1. CASE CreateProbeThread
    BY <2>1 DEF CreateProbeThread, NextThread, Merged
  <2>2. CASE JoinProbeThread
    BY <2>2 DEF JoinProbeThread, NextThread, Merged
  <2>3. CASE UNCHANGED vars
    BY <2>3 DEF vars, Merged
  <2> QED
    BY <2>1, <2>2, <2>3
<1> QED
  BY <1>1, <1>3, <1>4, <1>5, ClaimSame, PagesSame

LEMMA MergeHistory ==
    ASSUME JoinInv, [Next]_vars, MergePages,
           NEW claim, NEW found, ClaimHistory(claim, found), PagesHistory(claim, found)
    PROVE  ClaimHistory(claim, found)' /\ PagesHistory(claim, found)'
<1>1. UNCHANGED join /\ InputsInv /\ ColumnsInv /\ mi \in Threads
  BY JoinUnchanged DEF JoinInv, CallerInv
<1>2. ClaimHistory(claim, found)'
  BY <1>1, ClaimSame DEF MergePages
<1>3. PICK n : n = Len(probe_table)
  OBVIOUS
<1>4. IsHistory(n, claim, found) /\ n = Len(probe_table)' /\ Columns' = Columns
  BY <1>1, <1>3, HistoryType, HistoryRigid
<1>5. mi \in Nat /\ Merged = mi /\ Merged' = mi + 1
  <2>1. mi \in Nat /\ mi < NumThreads /\ NumThreads \in Nat
    BY <1>1, JoinPagesAssumption DEF Threads
  <2>2. /\ mpc = "merge"
        /\ IF mi + 1 < NumThreads THEN mi' = mi + 1 /\ mpc' = "merge" ELSE mi' = 0 /\ mpc' = "done"
    BY DEF MergePages, NextThread
  <2> QED
    BY <2>1, <2>2 DEF Merged
<1>6. PICK k : k = mi
  OBVIOUS
<1>7. k \in Nat /\ Merged = k /\ Merged' = k + 1 /\ k \in Threads
  BY <1>1, <1>5, <1>6
<1>8. /\ \A c \in Columns : results'[c] = results[c] \o thread_results[k][c]
      /\ \A i \in Threads : i # k => thread_results'[i] = thread_results[i]
  BY <1>1, <1>6 DEF MergePages, ColumnsInv
<1>9. ASSUME NEW c \in Columns
      PROVE  /\ \A i \in Threads : k + 1 <= i =>
                  thread_results'[i][c] = MapPages(CellOf(c), FoundBy(n, claim, found, i))
             /\ results'[c] = MapPages(CellOf(c), MergedPages(n, claim, found, k + 1))
  <2>1. /\ \A i \in Threads : k <= i =>
             thread_results[i][c] = MapPages(CellOf(c), FoundBy(n, claim, found, i))
        /\ results[c] = MapPages(CellOf(c), MergedPages(n, claim, found, k))
    BY <1>3, <1>7 DEF PagesHistory
  <2>2. ASSUME NEW i \in Threads, k + 1 <= i
        PROVE  thread_results'[i][c] = MapPages(CellOf(c), FoundBy(n, claim, found, i))
    <3>1. i # k /\ k <= i
      BY <1>7, <2>2, JoinPagesAssumption DEF Threads
    <3> QED
      BY <1>8, <2>1, <3>1
  <2>3. results'[c] = MapPages(CellOf(c), MergedPages(n, claim, found, k + 1))
    <3>1. PICK f, a, b : /\ f = CellOf(c) /\ a = MergedPages(n, claim, found, k)
                         /\ b = FoundBy(n, claim, found, k)
      OBVIOUS
    <3>2. Maps(f, Pairs, Origin)
      BY <1>1, <3>1, CellOfType
    <3>3. a \in Seq(Seq(Pairs)) /\ b \in Seq(Seq(Pairs))
      BY <1>4, <1>7, <3>1, MergedNext, FoundByType
    <3>4. MapPages(f, a) \o MapPages(f, b) = MapPages(f, a \o b)
      BY ONLY <3>2, <3>3, MapConcat
    <3>5. MergedPages(n, claim, found, k + 1) = a \o b
      BY <1>4, <1>7, <3>1, MergedNext
    <3>6. k <= k
      BY <1>7
    <3> QED
      BY <1>7, <1>8, <2>1, <3>1, <3>4, <3>5, <3>6
  <2> QED
    BY <2>2, <2>3
<1>10. PagesHistory(claim, found)'
  <2>1. /\ n = Len(probe_table)' /\ Columns' = Columns /\ Merged' = k + 1
        /\ \A c : CellOf(c)' = CellOf(c)
    BY <1>1, <1>4, <1>7, HistoryRigid
  <2> QED
    BY <1>9, <2>1 DEF PagesHistory
<1> QED
  BY <1>2, <1>10

LEMMA ClaimPageHistory ==
    ASSUME JoinInv, [Next]_vars, NEW i \in Threads, ClaimPage(i),
           NEW claim, NEW found, ClaimHistory(claim, found), PagesHistory(claim, found)
    PROVE  \E claim2 : ClaimHistory(claim2, found)' /\ PagesHistory(claim2, found)'
<1>1. /\ UNCHANGED join /\ InputsInv /\ ClaimInv /\ page_counter \in Nat
      /\ wpc \in [Threads -> {"none", "claim", "probe", "returned"}]
      /\ page \in [Threads -> Nat] /\ slot \in [Threads -> Nat]
      /\ \A j \in Threads : wpc[j] = "probe" => page[j] < page_counter
  BY JoinUnchanged DEF JoinInv, CallerInv, ClaimInv, PageClaimedOnce
<1>2. PICK n : n = Len(probe_table)
  OBVIOUS
<1>3. /\ IsHistory(n, claim, found) /\ n = Len(probe_table)' /\ n \in Nat
      /\ probe_table' = probe_table
  <2>1. IsHistory(n, claim, found)
    BY <1>1, <1>2, HistoryType
  <2> QED
    BY <1>1, <1>2, <2>1, HistoryRigid DEF IsHistory
<1>4. /\ wpc[i] = "claim" /\ page_counter' = page_counter + 1 /\ Running
      /\ UNCHANGED <<mpc, mi, thread_results, results>>
  BY DEF ClaimPage
<1>5. Merged' = Merged
  BY <1>4 DEF Merged
<1>6. CASE page_counter < n
  <2>1. /\ page' = [page EXCEPT ![i] = page_counter]
        /\ slot' = [slot EXCEPT ![i] = 0]
        /\ wpc' = [wpc EXCEPT ![i] = "probe"]
    BY <1>2, <1>6 DEF ClaimPage
  <2>2. PICK k, q : k = page_counter /\ q = k + 1
    OBVIOUS
  <2>3. /\ k \in Nat /\ q \in 1 .. n /\ page_counter = k /\ page_counter' = q
        /\ wpc'[i] = "probe" /\ page'[i] = k /\ slot'[i] = 0
        /\ \A j \in Threads : j # i => wpc'[j] = wpc[j] /\ page'[j] = page[j] /\ slot'[j] = slot[j]
    BY <1>1, <1>3, <1>4, <1>6, <2>1, <2>2
  <2>4. PICK claim2 : claim2 = [claim EXCEPT ![q] = i]
    OBVIOUS
  <2>5. /\ claim \in [1 .. n -> Threads] /\ claim2 \in [1 .. n -> Threads]
        /\ claim2[q] = i /\ \A p \in 1 .. n : p # q => claim2[p] = claim[p]
    BY <2>3, <2>4, <1>3 DEF IsHistory
  <2>6. \A p \in 1 .. n : k < p => found[p] = <<>>
    BY <1>2, <2>3 DEF ClaimHistory
  <2>7. found[q] = <<>>
    BY <2>2, <2>3, <2>6
  <2>8. ClaimHistory(claim2, found)'
    <3>1. ASSUME NEW p \in 1 .. n
          PROVE  /\ \A s \in 1 .. Len(found[p]) : Appends(p, s, found[p][s])'
                 /\ q < p => found[p] = <<>>
                 /\ \/ q < p
                    \/ Len(found[p]) = Len(probe_table'[p])
                    \/ \E j \in Threads : wpc'[j] = "probe" /\ page'[j] + 1 = p
      <4>1. \A s \in 1 .. Len(found[p]) : Appends(p, s, found[p][s])'
        BY <1>1, <1>2, HistoryRigid DEF ClaimHistory
      <4>2. q < p => found[p] = <<>>
        BY <2>2, <2>3, <2>6
      <4>3. CASE p = q
        BY <2>2, <2>3, <4>1, <4>2, <4>3
      <4>4. CASE p < q
        <5>1. ~(page_counter < p)
          BY <2>2, <2>3, <4>4
        <5>2. \/ Len(found[p]) = Len(probe_table[p])
              \/ \E j \in Threads : wpc[j] = "probe" /\ page[j] + 1 = p
          BY <1>2, <5>1 DEF ClaimHistory
        <5>3. \A j \in Threads : wpc[j] = "probe" => j # i
          BY <1>4
        <5> QED
          BY <1>3, <2>3, <4>1, <4>2, <5>2, <5>3
      <4> QED
        BY <2>3, <4>1, <4>2, <4>3, <4>4
    <3>2. ASSUME NEW j \in Threads, wpc'[j] = "probe"
          PROVE  /\ claim2[page'[j] + 1] = j /\ Len(found[page'[j] + 1]) = slot'[j]
                 /\ \A p \in 1 .. n : page'[j] + 1 < p /\ claim2[p] = j => found[p] = <<>>
      <4>1. CASE j = i
        <5>1. page'[j] + 1 = q
          BY <2>2, <2>3, <4>1
        <5>2. \A p \in 1 .. n : q < p => k < p
          BY <2>2, <2>3
        <5> QED
          BY <2>3, <2>5, <2>6, <2>7, <4>1, <5>1, <5>2
      <4>2. CASE j # i
        <5>1. wpc[j] = "probe" /\ page'[j] = page[j] /\ slot'[j] = slot[j]
          BY <2>3, <3>2, <4>2
        <5>2. /\ claim[page[j] + 1] = j /\ Len(found[page[j] + 1]) = slot[j]
              /\ \A p \in 1 .. n : page[j] + 1 < p /\ claim[p] = j => found[p] = <<>>
          BY <1>2, <5>1 DEF ClaimHistory
        <5>3. PICK g : g = page[j]
          OBVIOUS
        <5>7. g \in Nat /\ g < k
          BY <1>1, <2>3, <5>1, <5>3
        <5>8. k \in Nat /\ n \in Nat /\ k + 1 \in 1 .. n /\ q = k + 1
          BY <1>3, <2>2, <2>3
        <5>9. g + 1 \in 1 .. n /\ g + 1 # q
          BY ONLY <5>7, <5>8
        <5>4. page[j] + 1 \in 1 .. n /\ page[j] + 1 # q
          BY <5>3, <5>9
        <5>5. \A p \in 1 .. n : claim2[p] = j => claim[p] = j
          BY <2>5, <4>2
        <5>6. claim2[page[j] + 1] = j
          BY <2>5, <5>2, <5>4
        <5> QED
          BY <5>1, <5>2, <5>5, <5>6
      <4> QED
        BY <4>1, <4>2
    <3> QED
      BY <1>3, <2>3, <2>5, <3>1, <3>2 DEF ClaimHistory, IsHistory
  <2>9. \A j : FoundBy(n, claim2, found, j) = FoundBy(n, claim, found, j)
    <3>1. IsHistory(n, claim, found) /\ Claims(n, claim, found, i, q, claim2)
      BY <1>3, <2>3, <2>4, <2>7 DEF Claims
    <3> QED
      BY ONLY <3>1, ClaimKeeps
  <2>10. \A m : MergedPages(n, claim2, found, m) = MergedPages(n, claim, found, m)
    BY <2>9 DEF MergedPages
  <2>11. PagesHistory(claim2, found)'
    <3>1. /\ thread_results' = thread_results /\ results' = results /\ Columns' = Columns
          /\ \A c : CellOf(c)' = CellOf(c)
      BY <1>1, <1>4, HistoryRigid
    <3> QED
      BY <1>2, <1>3, <1>5, <2>9, <2>10, <3>1 DEF PagesHistory
  <2> QED
    BY <2>8, <2>11
<1>7. CASE ~(page_counter < n)
  <2>1. wpc' = [wpc EXCEPT ![i] = "returned"] /\ UNCHANGED <<page, slot>>
    BY <1>2, <1>7 DEF ClaimPage
  <2>2. \A j \in Threads : wpc'[j] = "probe" <=> wpc[j] = "probe"
    BY <1>1, <1>4, <2>1
  <2>3. \A p \in 1 .. n : ~(page_counter < p) /\ ~(page_counter' < p)
    BY <1>1, <1>3, <1>4, <1>7
  <2>4. ClaimHistory(claim, found)'
    <3>1. ASSUME NEW p \in 1 .. n
          PROVE  /\ \A s \in 1 .. Len(found[p]) : Appends(p, s, found[p][s])'
                 /\ \/ Len(found[p]) = Len(probe_table'[p])
                    \/ \E j \in Threads : wpc'[j] = "probe" /\ page'[j] + 1 = p
      <4>1. \A s \in 1 .. Len(found[p]) : Appends(p, s, found[p][s])'
        BY <1>1, <1>2, HistoryRigid DEF ClaimHistory
      <4>2. \/ Len(found[p]) = Len(probe_table[p])
            \/ \E j \in Threads : wpc[j] = "probe" /\ page[j] + 1 = p
        BY <1>2, <2>3 DEF ClaimHistory
      <4> QED
        BY <1>3, <2>1, <2>2, <4>1, <4>2
    <3>2. ASSUME NEW j \in Threads, wpc'[j] = "probe"
          PROVE  /\ claim[page'[j] + 1] = j /\ Len(found[page'[j] + 1]) = slot'[j]
                 /\ \A p \in 1 .. n : page'[j] + 1 < p /\ claim[p] = j => found[p] = <<>>
      BY <1>2, <2>1, <2>2, <3>2 DEF ClaimHistory
    <3> QED
      BY <1>3, <2>3, <3>1, <3>2 DEF ClaimHistory, IsHistory
  <2>5. PagesHistory(claim, found)'
    BY <1>1, <1>4, <1>5, PagesSame
  <2> QED
    BY <2>4, <2>5
<1> QED
  BY <1>6, <1>7

(* The slot that thread i is at, counted from one. *)
AtSlot(i, q, s) ==
    /\ q = page[i] + 1 /\ s = slot[i] + 1
    /\ q \in Nat \ {0} /\ q \in 1 .. Len(probe_table)
    /\ s \in 1 .. PageSlots /\ s \in 1 .. Len(probe_table[q])
    /\ cell(i) = probe_table[q][s]

LEMMA AtCellSlot ==
    ASSUME JoinInv, NEW i \in Threads, AtCell(i)
    PROVE  \E q, s : AtSlot(i, q, s)
<1>1. /\ page[i] \in Nat /\ slot[i] \in Nat /\ page[i] < Len(probe_table)
      /\ slot[i] < Len(probe_table[page[i] + 1])
  BY DEF JoinInv, ClaimInv, CallerInv, AtCell
<1>2. PICK t : t = probe_table
  OBVIOUS
<1>3. Len(t) \in Nat /\ \A p \in 1 .. Len(t) : Len(t[p]) \in 0 .. PageSlots
  BY <1>2, TableFacts DEF JoinInv, InputsInv, probe_table
<1>4. PICK k, l : k = page[i] /\ l = slot[i]
  OBVIOUS
<1>5. k \in Nat /\ l \in Nat /\ k < Len(t) /\ l < Len(t[k + 1]) /\ PageSlots \in Nat
  BY <1>1, <1>2, <1>4, JoinPagesAssumption
<1>6. PICK q, s : q = k + 1 /\ s = l + 1
  OBVIOUS
<1>7. q \in Nat \ {0} /\ q \in 1 .. Len(t)
  BY <1>3, <1>5, <1>6
<1>8. s \in 1 .. PageSlots /\ s \in 1 .. Len(t[q])
  BY <1>3, <1>5, <1>6, <1>7
<1>9. cell(i) = t[q][s]
  BY <1>2, <1>4, <1>6 DEF cell
<1>10. AtSlot(i, q, s)
  BY <1>2, <1>4, <1>6, <1>7, <1>8, <1>9 DEF AtSlot
<1> QED
  BY <1>10

(* A slot that is dealt with adds what it appends. *)
LEMMA DealtHistory ==
    ASSUME JoinInv, UNCHANGED join, UNCHANGED <<page_counter, wpc, page>>,
           NEW i \in Threads, wpc[i] = "probe", slot' = [slot EXCEPT ![i] = @ + 1],
           NEW q, NEW s, AtSlot(i, q, s), NEW x \in Seq(Pairs), Appends(q, s, x),
           NEW claim, NEW found, ClaimHistory(claim, found),
           NEW found2, found2 = [found EXCEPT ![q] = Append(@, x)]
    PROVE  /\ LastOf(Len(probe_table), claim, found, i, q)
           /\ ClaimHistory(claim, found2)'
<1>1. /\ page_counter' = page_counter /\ wpc' = wpc /\ page' = page
      /\ InputsInv /\ page_counter \in Nat
      /\ page \in [Threads -> Nat] /\ slot \in [Threads -> Nat]
      /\ \A j \in Threads : wpc[j] = "probe" => page[j] < page_counter
      /\ \A j \in Threads \ {i} : wpc[j] = "probe" => page[j] # page[i]
  BY DEF JoinInv, ClaimInv, CallerInv, PageClaimedOnce
<1>2. PICK n : n = Len(probe_table)
  OBVIOUS
<1>3. /\ IsHistory(n, claim, found) /\ n = Len(probe_table)' /\ n \in Nat
      /\ probe_table' = probe_table /\ \A p, r, y : Appends(p, r, y)' <=> Appends(p, r, y)
  <2>1. IsHistory(n, claim, found)
    BY <1>1, <1>2, HistoryType
  <2> QED
    BY <1>2, <2>1, HistoryRigid DEF IsHistory
<1>4. q = page[i] + 1 /\ s = slot[i] + 1 /\ q \in 1 .. n
  BY <1>2 DEF AtSlot
<1>5. /\ claim[q] = i /\ Len(found[q]) = slot[i]
      /\ \A p \in 1 .. n : q < p /\ claim[p] = i => found[p] = <<>>
  BY <1>2, <1>4 DEF ClaimHistory
<1>6. LastOf(n, claim, found, i, q)
  BY <1>4, <1>5 DEF LastOf
<1>7. IsHistory(n, claim, found2)
  <2>1. Adds(n, claim, found, i, q, x, found2)
    BY <1>6 DEF Adds
  <2> QED
    BY ONLY <1>3, <2>1, FoundGrows
<1>8. PICK fq, k : fq = found[q] /\ k = slot[i]
  OBVIOUS
<1>9. fq \in Seq(Seq(Pairs)) /\ Len(fq) = k /\ k \in Nat /\ s = k + 1
  BY <1>1, <1>3, <1>4, <1>5, <1>8 DEF IsHistory
<1>10. found2[q] = Append(fq, x) /\ \A p \in 1 .. n : p # q => found2[p] = found[p]
  BY <1>3, <1>4, <1>8 DEF IsHistory
<1>11. /\ Len(found2[q]) = k + 1 /\ found2[q][k + 1] = x
       /\ \A r \in 1 .. k : found2[q][r] = fq[r]
  <2>1. PICK T : T = Seq(Pairs)
    OBVIOUS
  <2>2. fq \in Seq(T) /\ x \in T /\ Len(fq) = k
    BY <1>9, <2>1
  <2>3. /\ Len(Append(fq, x)) = k + 1 /\ Append(fq, x)[k + 1] = x
        /\ \A r \in 1 .. k : Append(fq, x)[r] = fq[r]
    BY ONLY <2>2, <1>9
  <2> QED
    BY <1>10, <2>3
<1>12. ~(page_counter < q)
  <2>1. PICK g : g = page[i]
    OBVIOUS
  <2>2. g \in Nat /\ g < page_counter /\ q = g + 1
    BY <1>1, <1>4, <2>1
  <2> QED
    BY ONLY <2>2, <1>1
<1>13. ASSUME NEW p \in 1 .. n
       PROVE  /\ \A r \in 1 .. Len(found2[p]) : Appends(p, r, found2[p][r])'
              /\ page_counter' < p => found2[p] = <<>>
              /\ \/ page_counter' < p
                 \/ Len(found2[p]) = Len(probe_table'[p])
                 \/ \E j \in Threads : wpc'[j] = "probe" /\ page'[j] + 1 = p
  <2>1. CASE p = q
    <3>1. ASSUME NEW r \in 1 .. Len(found2[p]) PROVE Appends(p, r, found2[p][r])'
      <4>1. CASE r = k + 1
        BY <1>3, <1>9, <1>11, <2>1, <4>1
      <4>2. CASE r # k + 1
        <5>1. r \in 1 .. k
          BY <1>9, <1>11, <2>1, <4>2
        <5>2. found2[p][r] = found[q][r]
          BY <1>8, <1>11, <2>1, <5>1
        <5>3. Appends(q, r, found[q][r])
          BY <1>2, <1>4, <1>8, <1>9, <5>1 DEF ClaimHistory
        <5> QED
          BY <1>3, <2>1, <5>2, <5>3
      <4> QED
        BY <4>1, <4>2
    <3>2. wpc'[i] = "probe" /\ page'[i] + 1 = p
      BY <1>1, <1>4, <2>1
    <3> QED
      BY <1>1, <1>12, <2>1, <3>1, <3>2
  <2>2. CASE p # q
    <3>1. found2[p] = found[p]
      BY <1>10, <2>2
    <3>2. /\ \A r \in 1 .. Len(found[p]) : Appends(p, r, found[p][r])
          /\ page_counter < p => found[p] = <<>>
          /\ \/ page_counter < p
             \/ Len(found[p]) = Len(probe_table[p])
             \/ \E j \in Threads : wpc[j] = "probe" /\ page[j] + 1 = p
      BY <1>2 DEF ClaimHistory
    <3>3. \A r \in 1 .. Len(found2[p]) : Appends(p, r, found2[p][r])'
      BY <1>3, <3>1, <3>2
    <3>4. page_counter' < p => found2[p] = <<>>
      BY <1>1, <3>1, <3>2
    <3>5. \/ page_counter' < p
          \/ Len(found2[p]) = Len(probe_table'[p])
          \/ \E j \in Threads : wpc'[j] = "probe" /\ page'[j] + 1 = p
      BY <1>1, <1>3, <3>1, <3>2
    <3> QED
      BY <3>3, <3>4, <3>5
  <2> QED
    BY <2>1, <2>2
<1>14. ASSUME NEW j \in Threads, wpc'[j] = "probe"
       PROVE  /\ claim[page'[j] + 1] = j /\ Len(found2[page'[j] + 1]) = slot'[j]
              /\ \A p \in 1 .. n : page'[j] + 1 < p /\ claim[p] = j => found2[p] = <<>>
  <2>1. CASE j = i
    <3>1. page'[j] + 1 = q /\ slot'[j] = k + 1
      BY <1>1, <1>4, <1>8, <2>1
    <3>2. \A p \in 1 .. n : q < p => p # q
      BY <1>4
    <3> QED
      BY <1>5, <1>10, <1>11, <2>1, <3>1, <3>2
  <2>2. CASE j # i
    <3>1. wpc[j] = "probe" /\ page'[j] = page[j] /\ slot'[j] = slot[j]
      BY <1>1, <1>14, <2>2
    <3>2. /\ claim[page[j] + 1] = j /\ Len(found[page[j] + 1]) = slot[j]
          /\ \A p \in 1 .. n : page[j] + 1 < p /\ claim[p] = j => found[p] = <<>>
      BY <1>2, <3>1 DEF ClaimHistory
    <3>3. PICK g, h : g = page[j] /\ h = page[i]
      OBVIOUS
    <3>4. g \in Nat /\ h \in Nat /\ g # h /\ q = h + 1
      BY <1>1, <1>4, <2>2, <3>1, <3>3
    <3>5. g + 1 # q
      BY ONLY <3>4
    <3>6. g + 1 \in 1 .. n
      <4>1. page[j] < Len(probe_table)
        BY <3>1 DEF JoinInv, CallerInv
      <4>2. g < n
        BY <1>2, <3>3, <4>1
      <4> QED
        BY ONLY <3>4, <4>2, <1>3
    <3>7. found2[page[j] + 1] = found[page[j] + 1]
      BY <1>10, <3>3, <3>5, <3>6
    <3>8. \A p \in 1 .. n : claim[p] = j => p # q
      BY <1>5, <2>2
    <3> QED
      BY <1>10, <3>1, <3>2, <3>7, <3>8
  <2> QED
    BY <2>1, <2>2
<1>15. claim \in [1 .. n -> Threads] /\ found2 \in Seq(Seq(Seq(Pairs))) /\ Len(found2) = n
  BY <1>7 DEF IsHistory
<1>16. ClaimHistory(claim, found2)'
  <2>1. Len(probe_table') = n
    BY <1>3
  <2> QED
    BY ONLY <2>1, <1>13, <1>14, <1>15 DEF ClaimHistory
<1> QED
  BY <1>2, <1>6, <1>16

LEMMA AppendNone ==
    ASSUME NEW pages, NEW slots
    PROVE  append_all(pages, <<>>, slots) = pages
<1>1. PICK e : e = <<>>
  OBVIOUS
<1>2. e \in Seq(Nat) /\ Len(e) = 0
  BY <1>1
<1>3. e \in Seq(Nat)
  BY <1>2
<1>4. PICK h : /\ h[0] = pages
               /\ \A m \in 1 .. Len(e) : h[m] = append(h[m - 1], e[m], slots)
               /\ append_all(pages, e, slots) = h[Len(e)]
  BY ONLY <1>3, FoldSteps
<1> QED
  BY <1>1, <1>2, <1>4

(* A slot without matches appends nothing. *)
LEMMA SkipHistory ==
    ASSUME JoinInv, [Next]_vars, NEW i \in Threads, SkipNull(i),
           NEW claim, NEW found, ClaimHistory(claim, found), PagesHistory(claim, found)
    PROVE  \E found2 : ClaimHistory(claim, found2)' /\ PagesHistory(claim, found2)'
<1>1. /\ UNCHANGED join /\ UNCHANGED <<page_counter, wpc, page>>
      /\ UNCHANGED <<mpc, mi, thread_results, results>>
      /\ AtCell(i) /\ wpc[i] = "probe" /\ cell(i) = Null
      /\ slot' = [slot EXCEPT ![i] = @ + 1]
  BY JoinUnchanged DEF SkipNull, AtCell
<1>2. PICK q, s : AtSlot(i, q, s)
  BY <1>1, AtCellSlot
<1>3. PICK x : x = <<>>
  OBVIOUS
<1>4. x \in Seq(Pairs) /\ Appends(q, s, x)
  <2>1. probe_table[q][s] = Null
    BY <1>1, <1>2 DEF AtSlot
  <2>2. Appends(q, s, x)
    BY <1>3, <2>1 DEF Appends, IsKey
  <2> QED
    BY <1>3, <2>2
<1>5. PICK found2 : found2 = [found EXCEPT ![q] = Append(@, x)]
  OBVIOUS
<1>6. PICK n : n = Len(probe_table)
  OBVIOUS
<1>7. LastOf(n, claim, found, i, q) /\ ClaimHistory(claim, found2)'
  BY <1>1, <1>2, <1>4, <1>5, <1>6, DealtHistory
<1>8. IsHistory(n, claim, found)
  BY <1>6, HistoryType DEF JoinInv
<1>9. \A j : FoundBy(n, claim, found2, j) = FoundBy(n, claim, found, j)
  <2>1. /\ FoundBy(n, claim, found2, i) = append_all(FoundBy(n, claim, found, i), x, PageSlots)
        /\ \A j : j # i => FoundBy(n, claim, found2, j) = FoundBy(n, claim, found, j)
    <3>1. x \in Seq(Pairs)
      BY <1>4
    <3>3. Adds(n, claim, found, i, q, x, found2)
      BY <1>5, <1>7, <3>1 DEF Adds
    <3> QED
      BY ONLY <3>3, <1>8, FoundGrows
  <2> QED
    BY <1>3, <2>1, AppendNone
<1>10. \A m : MergedPages(n, claim, found2, m) = MergedPages(n, claim, found, m)
  BY <1>9 DEF MergedPages
<1>11. PagesHistory(claim, found2)'
  <2>1. /\ thread_results' = thread_results /\ results' = results /\ Columns' = Columns
        /\ \A c : CellOf(c)' = CellOf(c)
        /\ n = Len(probe_table)' /\ Merged' = Merged
    BY <1>1, <1>6, HistoryRigid DEF Merged
  <2> QED
    BY <1>6, <1>9, <1>10, <2>1 DEF PagesHistory
<1> QED
  BY <1>7, <1>11

(* What is copied for a match is the cell that its pair stands for. *)
LEMMA CopiedCell ==
    ASSUME JoinInv, NEW i \in Threads, NEW q, NEW s, AtSlot(i, q, s),
           NEW matches \in Seq(Nat), NEW x, x = PairsAt(matches, q, s),
           NEW c \in Columns,
           NEW new, new = [m \in DOMAIN matches |-> Copied(i, c, matches[m])]
    PROVE  new \in Seq(Origin) /\ Image(CellOf(c), x, new)
<1>1. PICK n, site : n = Len(matches) /\ site = SiteOf(q, s)
  OBVIOUS
<1>2. /\ n \in Nat /\ DOMAIN matches = 1 .. n /\ \A m \in 1 .. n : matches[m] \in Nat
      /\ q \in Nat \ {0} /\ s \in 1 .. PageSlots
      /\ page[i] \in Nat /\ slot[i] \in Nat /\ q = page[i] + 1 /\ s = slot[i] + 1
  <2>1. page[i] \in Nat /\ slot[i] \in Nat
    BY DEF JoinInv, ClaimInv, CallerInv
  <2>2. n \in Nat /\ DOMAIN matches = 1 .. n /\ \A m \in 1 .. n : matches[m] \in Nat
    BY <1>1
  <2> QED
    BY <2>1, <2>2 DEF AtSlot
<1>3. /\ x \in Seq(Pairs) /\ Len(x) = n /\ \A m \in 1 .. n : x[m] = <<matches[m], site>>
  BY <1>1, <1>2, PairsAtType
<1>4. site \in Nat /\ PositionAt(site) = <<page[i], slot[i]>>
  <2>1. site \in Nat /\ PositionAt(site) = <<q - 1, s - 1>>
    BY <1>1, <1>2, SiteFacts
  <2>3. PICK k, l : k = page[i] /\ l = slot[i]
    OBVIOUS
  <2>4. k \in Nat /\ l \in Nat /\ q = k + 1 /\ s = l + 1
    BY <1>2, <2>3
  <2>5. q - 1 = k /\ s - 1 = l
    BY ONLY <2>4
  <2>2. q - 1 = page[i] /\ s - 1 = slot[i]
    BY <2>3, <2>5
  <2> QED
    BY <2>1, <2>2
<1>5. ASSUME NEW m \in 1 .. n
      PROVE  Copied(i, c, matches[m]) = CellOf(c)[x[m]] /\ CellOf(c)[x[m]] \in Origin
  <2>7. PICK pos : pos = matches[m]
    OBVIOUS
  <2>8. pos \in Nat /\ site \in Nat /\ x[m] = <<pos, site>>
    BY <1>2, <1>3, <1>4, <2>7
  <2>9. PICK pair : pair = x[m]
    OBVIOUS
  <2>1. pair = <<pos, site>> /\ pair \in Pairs /\ pair[1] = pos /\ pair[2] = site
    BY ONLY <2>8, <2>9 DEF Pairs
  <2>2. PICK b, r : b = PositionAt(pos) /\ r = <<page[i], slot[i]>>
    OBVIOUS
  <2>3. CellOf(c)[x[m]] = (IF build_left THEN Combined(b, r) ELSE Combined(r, b))[c]
    <3>1. CellOf(c)[pair] = LET u == PositionAt(pair[1])
                                v == PositionAt(pair[2])
                            IN  (IF build_left THEN Combined(u, v) ELSE Combined(v, u))[c]
      BY <2>1 DEF CellOf
    <3>2. PositionAt(pair[1]) = b /\ PositionAt(pair[2]) = r
      BY <1>4, <2>1, <2>2
    <3> QED
      BY <2>9, <3>1, <3>2
  <2>4. Copied(i, c, matches[m]) =
          Combined(PairFor(i, matches, m)[1], PairFor(i, matches, m)[2])[c]
    BY CopiedRow DEF JoinInv
  <2>5. PairFor(i, matches, m) = IF build_left THEN <<b, r>> ELSE <<r, b>>
    BY <2>2, <2>7 DEF PairFor, PairOf
  <2>6. CellOf(c)[x[m]] \in Origin
    BY <2>1, <2>9, CellOfType DEF JoinInv, Maps
  <2> QED
    BY <2>3, <2>4, <2>5, <2>6
<1>6. \A m \in 1 .. n : new[m] = CellOf(c)[x[m]] /\ new[m] \in Origin
  BY <1>2, <1>5
<1>7. new \in Seq(Origin) /\ Len(new) = n
  <2>1. new = [m \in 1 .. n |-> new[m]]
    BY <1>2
  <2> QED
    BY <1>2, <1>6, <2>1, IsSeq
<1> QED
  BY <1>3, <1>6, <1>7 DEF Image

LEMMA ProbeHistory ==
    ASSUME JoinInv, [Next]_vars, NEW i \in Threads, ProbeKey(i),
           NEW claim, NEW found, ClaimHistory(claim, found), PagesHistory(claim, found)
    PROVE  \E found2 : ClaimHistory(claim, found2)' /\ PagesHistory(claim, found2)'
<1>1. /\ UNCHANGED join /\ UNCHANGED <<page_counter, wpc, page>>
      /\ UNCHANGED <<mpc, mi, results>>
      /\ AtCell(i) /\ wpc[i] = "probe" /\ IsKey(cell(i)) /\ mpc \in {"create", "join"}
      /\ slot' = [slot EXCEPT ![i] = @ + 1]
  BY JoinUnchanged DEF ProbeKey, AtCell, Running
<1>2. PICK q, s : AtSlot(i, q, s)
  BY <1>1, AtCellSlot
<1>3. InputsInv /\ BuildInv /\ ColumnsInv /\ IsTable(build_table)
  BY DEF JoinInv, InputsInv, build_table
<1>4. PICK key : key = cell(i)
  OBVIOUS
<1>5. Matches(key) = PositionsOf(build_table, key)
  BY <1>1, <1>3, <1>4, MatchesPositions DEF BuildInv
<1>6. PICK matches \in SetToSeqs(Matches(cell(i))) :
        thread_results' = [thread_results EXCEPT ![i] =
            [c \in Columns |->
               append_all(@[c], [m \in DOMAIN matches |-> Copied(i, c, matches[m])], PageSlots)]]
  BY DEF ProbeKey
<1>7. matches \in SetToSeqs(PositionsOf(build_table, key))
  BY <1>4, <1>5, <1>6
<1>8. matches \in Seq(Nat)
  BY <1>3, <1>7, OrderType
<1>9. PICK x : x = PairsAt(matches, q, s)
  OBVIOUS
<1>10. x \in Seq(Pairs) /\ Appends(q, s, x)
  <2>1. x \in Seq(Pairs)
    BY <1>2, <1>8, <1>9, PairsAtType DEF AtSlot
  <2>2. probe_table[q][s] = key /\ IsKey(key)
    BY <1>1, <1>2, <1>4 DEF AtSlot
  <2> QED
    BY <1>7, <1>9, <2>1, <2>2 DEF Appends
<1>11. PICK found2 : found2 = [found EXCEPT ![q] = Append(@, x)]
  OBVIOUS
<1>12. PICK n : n = Len(probe_table)
  OBVIOUS
<1>13. LastOf(n, claim, found, i, q) /\ ClaimHistory(claim, found2)'
  BY <1>1, <1>2, <1>10, <1>11, <1>12, DealtHistory
<1>14. IsHistory(n, claim, found)
  BY <1>3, <1>12, HistoryType
<1>15. /\ FoundBy(n, claim, found2, i) = append_all(FoundBy(n, claim, found, i), x, PageSlots)
       /\ \A j : j # i => FoundBy(n, claim, found2, j) = FoundBy(n, claim, found, j)
  <2>1. x \in Seq(Pairs)
    BY <1>10
  <2>2. Adds(n, claim, found, i, q, x, found2)
    BY <1>11, <1>13, <2>1 DEF Adds
  <2> QED
    BY ONLY <2>2, <1>14, FoundGrows
<1>16. Merged = 0 /\ Merged' = 0
  BY <1>1 DEF Merged
<1>17. ASSUME NEW c \in Columns
       PROVE  /\ \A j \in Threads :
                   thread_results'[j][c] = MapPages(CellOf(c), FoundBy(n, claim, found2, j))
              /\ results'[c] = MapPages(CellOf(c), MergedPages(n, claim, found2, 0))
  <2>1. /\ \A j \in Threads :
             thread_results[j][c] = MapPages(CellOf(c), FoundBy(n, claim, found, j))
        /\ results[c] = MapPages(CellOf(c), MergedPages(n, claim, found, 0))
    <3>1. \A j \in Threads : 0 <= j
      BY JoinPagesAssumption DEF Threads
    <3> QED
      BY <1>12, <1>16, <3>1 DEF PagesHistory
  <2>2. PICK new : new = [m \in DOMAIN matches |-> Copied(i, c, matches[m])]
    OBVIOUS
  <2>3. /\ thread_results'[i][c] = append_all(thread_results[i][c], new, PageSlots)
        /\ \A j \in Threads : j # i => thread_results'[j] = thread_results[j]
    BY <1>3, <1>6, <2>2 DEF ColumnsInv
  <2>4. PICK f, a : f = CellOf(c) /\ a = FoundBy(n, claim, found, i)
    OBVIOUS
  <2>5. new \in Seq(Origin) /\ Image(f, x, new)
    BY <1>2, <1>8, <1>9, <2>2, <2>4, CopiedCell
  <2>6. Maps(f, Pairs, Origin) /\ a \in Seq(Seq(Pairs))
    BY <1>3, <1>14, <2>4, CellOfType, FoundByType
  <2>7. append_all(MapPages(f, a), new, PageSlots) = MapPages(f, append_all(a, x, PageSlots))
    <3>1. x \in Seq(Pairs) /\ new \in Seq(Origin) /\ a \in Seq(Seq(Pairs))
      BY <1>10, <2>5, <2>6
    <3> QED
      BY ONLY <3>1, <2>5, <2>6, MapAppendAll
  <2>8. thread_results'[i][c] = MapPages(CellOf(c), FoundBy(n, claim, found2, i))
    BY <1>15, <2>1, <2>3, <2>4, <2>7
  <2>9. MergedPages(n, claim, found2, 0) = MergedPages(n, claim, found, 0)
    BY NothingMerged
  <2> QED
    BY <1>1, <1>15, <2>1, <2>3, <2>8, <2>9
<1>18. PagesHistory(claim, found2)'
  <2>1. /\ Columns' = Columns /\ n = Len(probe_table)' /\ \A c : CellOf(c)' = CellOf(c)
    BY <1>1, <1>12, HistoryRigid
  <2> QED
    BY <1>16, <1>17, <2>1 DEF PagesHistory
<1> QED
  BY <1>13, <1>18

LEMMA PageEndHistory ==
    ASSUME JoinInv, [Next]_vars, NEW i \in Threads, PageEnd(i),
           NEW claim, NEW found, ClaimHistory(claim, found), PagesHistory(claim, found)
    PROVE  ClaimHistory(claim, found)' /\ PagesHistory(claim, found)'
<1>1. /\ UNCHANGED join /\ UNCHANGED <<mpc, mi, thread_results, results>>
      /\ page_counter' = page_counter /\ page' = page /\ slot' = slot
      /\ wpc' = [wpc EXCEPT ![i] = "claim"] /\ wpc[i] = "probe" /\ Running /\ ~AtCell(i)
  BY JoinUnchanged DEF PageEnd
<1>2. /\ wpc \in [Threads -> {"none", "claim", "probe", "returned"}]
      /\ page[i] \in Nat /\ slot[i] \in Nat /\ InputsInv
      /\ slot[i] <= Len(probe_table[page[i] + 1])
      /\ ~(slot[i] < Len(probe_table[page[i] + 1]))
      /\ page[i] < Len(probe_table)
  BY <1>1 DEF JoinInv, ClaimInv, CallerInv, AtCell
<1>3. PICK n : n = Len(probe_table)
  OBVIOUS
<1>4. /\ IsHistory(n, claim, found) /\ n = Len(probe_table)' /\ n \in Nat
      /\ probe_table' = probe_table /\ \A p, r, y : Appends(p, r, y)' <=> Appends(p, r, y)
  <2>1. IsHistory(n, claim, found)
    BY <1>2, <1>3, HistoryType
  <2> QED
    BY <1>1, <1>3, <2>1, HistoryRigid DEF IsHistory
<1>5. PICK k : k = page[i]
  OBVIOUS
<1>6. k + 1 \in 1 .. n
  BY <1>2, <1>3, <1>4, <1>5
<1>7. Len(found[k + 1]) = Len(probe_table[k + 1])
  <2>1. Len(probe_table[k + 1]) \in Nat
    <3>1. IsTable(probe_table)
      BY <1>2 DEF InputsInv, probe_table
    <3> QED
      BY <1>3, <1>6, <3>1, TableFacts
  <2>2. Len(found[k + 1]) = slot[i]
    BY <1>1, <1>5 DEF ClaimHistory
  <2> QED
    BY <1>2, <1>5, <2>1, <2>2
<1>8. ASSUME NEW p \in 1 .. n
      PROVE  /\ \A s \in 1 .. Len(found[p]) : Appends(p, s, found[p][s])'
             /\ page_counter' < p => found[p] = <<>>
             /\ \/ page_counter' < p
                \/ Len(found[p]) = Len(probe_table'[p])
                \/ \E j \in Threads : wpc'[j] = "probe" /\ page'[j] + 1 = p
  <2>1. /\ \A s \in 1 .. Len(found[p]) : Appends(p, s, found[p][s])
        /\ page_counter < p => found[p] = <<>>
        /\ \/ page_counter < p
           \/ Len(found[p]) = Len(probe_table[p])
           \/ \E j \in Threads : wpc[j] = "probe" /\ page[j] + 1 = p
    BY <1>3 DEF ClaimHistory
  <2>2. CASE p = k + 1
    BY <1>1, <1>4, <1>7, <2>1, <2>2
  <2>3. CASE p # k + 1
    <3>1. \A j \in Threads : wpc[j] = "probe" /\ page[j] + 1 = p => wpc'[j] = "probe"
      BY <1>1, <1>2, <1>5, <2>3
    <3> QED
      BY <1>1, <1>4, <2>1, <3>1
  <2> QED
    BY <2>2, <2>3
<1>9. ASSUME NEW j \in Threads, wpc'[j] = "probe"
      PROVE  /\ claim[page'[j] + 1] = j /\ Len(found[page'[j] + 1]) = slot'[j]
             /\ \A p \in 1 .. n : page'[j] + 1 < p /\ claim[p] = j => found[p] = <<>>
  <2>1. wpc[j] = "probe"
    BY <1>1, <1>2, <1>9
  <2> QED
    BY <1>1, <1>3, <2>1 DEF ClaimHistory
<1>10. ClaimHistory(claim, found)'
  BY <1>4, <1>8, <1>9 DEF ClaimHistory, IsHistory
<1>11. PagesHistory(claim, found)'
  BY <1>1, PagesSame DEF Merged
<1> QED
  BY <1>10, <1>11

LEMMA OutcomeInit == Init => OutcomeInv
BY DEF Init, OutcomeInv

LEMMA OutcomeStep == JoinInv /\ OutcomeInv /\ [Next]_vars => OutcomeInv'
<1> SUFFICES ASSUME JoinInv, OutcomeInv, [Next]_vars,
                    mpc' \in {"create", "join", "merge", "done"}, build_type' = "INT32"
             PROVE  \E claim, found : ClaimHistory(claim, found)' /\ PagesHistory(claim, found)'
  BY DEF OutcomeInv
<1>1. CASE mpc = "start"
  BY <1>1, OutcomeBegins DEF OutcomeInv
<1>2. CASE mpc # "start"
  <2>1. build_type = "INT32"
    BY JoinUnchanged, HistoryRigid
  <2>2. \/ CreateProbeThread \/ JoinProbeThread \/ UNCHANGED vars \/ MergePages
        \/ \E i \in Threads : ClaimPage(i) \/ ProbeKey(i) \/ SkipNull(i) \/ PageEnd(i)
    BY <1>2 DEF Next, Caller, Prober, Over, SkipJoin, CollectBuild, CollectThrows, ProbeThrows
  <2>3. mpc \in {"create", "join", "merge", "done"}
    <3>1. mpc \in {"start", "create", "join", "merge", "done", "thrown", "terminated"}
      BY DEF JoinInv, CallerInv
    <3>2. UNCHANGED vars => mpc' = mpc
      BY DEF vars
    <3> QED
      BY <1>2, <2>2, <3>1, <3>2 DEF CreateProbeThread, JoinProbeThread, MergePages, ClaimPage,
         ProbeKey, SkipNull, PageEnd, Running, AtCell
  <2>4. PICK claim, found : ClaimHistory(claim, found) /\ PagesHistory(claim, found)
    BY <2>1, <2>3 DEF OutcomeInv
  <2>5. CASE CreateProbeThread \/ JoinProbeThread \/ UNCHANGED vars
    BY <2>4, <2>5, CallerHistory
  <2>6. CASE MergePages
    BY <2>4, <2>6, MergeHistory
  <2>7. ASSUME NEW i \in Threads, ClaimPage(i)
        PROVE  \E claim2, found2 : ClaimHistory(claim2, found2)' /\ PagesHistory(claim2, found2)'
    BY <2>4, <2>7, ClaimPageHistory
  <2>8. ASSUME NEW i \in Threads, ProbeKey(i)
        PROVE  \E claim2, found2 : ClaimHistory(claim2, found2)' /\ PagesHistory(claim2, found2)'
    BY <2>4, <2>8, ProbeHistory
  <2>9. ASSUME NEW i \in Threads, SkipNull(i)
        PROVE  \E claim2, found2 : ClaimHistory(claim2, found2)' /\ PagesHistory(claim2, found2)'
    BY <2>4, <2>9, SkipHistory
  <2>10. ASSUME NEW i \in Threads, PageEnd(i)
        PROVE  \E claim2, found2 : ClaimHistory(claim2, found2)' /\ PagesHistory(claim2, found2)'
    BY <2>4, <2>10, PageEndHistory
  <2> QED
    BY <2>2, <2>5, <2>6, <2>7, <2>8, <2>9, <2>10
<1> QED
  BY <1>1, <1>2

LEMMA IsOutcome ==
    ASSUME NEW build, NEW probe, NEW KeyCells, NEW order \in MatchOrders(build, probe, KeyCells),
           NEW claim \in [DOMAIN probe -> Threads]
    PROVE  AllPages(probe, order, claim) \in JoinOutcomes(build, probe, KeyCells)
<1>1. PICK A, B : A = MatchOrders(build, probe, KeyCells) /\ B = [DOMAIN probe -> Threads]
  OBVIOUS
<1> QED
  BY SMTT(20), <1>1 DEF JoinOutcomes

(* The cell at a position. *)
LEMMA SiteCell ==
    ASSUME NEW t, IsTable(t), NEW p \in 1 .. Len(t), NEW s \in 1 .. Len(t[p])
    PROVE  /\ p \in Nat \ {0} /\ s \in 1 .. PageSlots
           /\ CellAt(t, SiteOf(p, s)) = t[p][s]
           /\ SiteOf(p, s) \div PageSlots + 1 = p /\ (SiteOf(p, s) % PageSlots) + 1 = s
           /\ SiteOf(p, s) = PagePositions(t, p)[s]
           /\ SiteOf(p, s) \in Range(PagePositions(t, p))
<1>1. /\ Len(t) \in Nat /\ DOMAIN t = 1 .. Len(t) /\ PageSlots \in Nat \ {0}
      /\ Len(t[p]) \in 0 .. PageSlots /\ DOMAIN t[p] = 1 .. Len(t[p])
  BY TableFacts, JoinPagesAssumption
<1>2. p \in Nat \ {0} /\ s \in 1 .. PageSlots
  BY <1>1
<1>3. PICK site : site = SiteOf(p, s)
  OBVIOUS
<1>4. site \in Nat /\ <<site \div PageSlots, site % PageSlots>> = <<p - 1, s - 1>>
  BY <1>2, <1>3, SiteFacts DEF PositionAt
<1>5. site \div PageSlots = p - 1 /\ site % PageSlots = s - 1
  BY <1>4
<1>6. site \div PageSlots + 1 = p /\ (site % PageSlots) + 1 = s
  BY <1>2, <1>5
<1>7. CellAt(t, site) = t[p][s]
  BY <1>6 DEF CellAt
<1>8. site = PagePositions(t, p)[s] /\ site \in Range(PagePositions(t, p))
  BY <1>1, <1>3 DEF PagePositions, SiteOf, Range
<1> QED
  BY <1>2, <1>3, <1>6, <1>7, <1>8

CellsOf(t) == UNION {Range(p) : p \in Range(t)}

KeyCellsOf(t) == CellsOf(t) \ {Null, Wrong}

(* The positions of the probe cells that are keys. *)
SitesOf(t, KeyCells) ==
    {pos \in UNION {Range(PagePositions(t, p)) : p \in DOMAIN t} : CellAt(t, pos) \in KeyCells}

LEMMA SitesAre ==
    ASSUME NEW t, IsTable(t)
    PROVE  /\ \A p \in 1 .. Len(t) : \A s \in 1 .. Len(t[p]) :
                SiteOf(p, s) \in SitesOf(t, KeyCellsOf(t)) <=> IsKey(t[p][s])
           /\ \A pos \in SitesOf(t, KeyCellsOf(t)) :
                \E p \in 1 .. Len(t) : \E s \in 1 .. Len(t[p]) : pos = SiteOf(p, s) /\ IsKey(t[p][s])
<1>1. /\ Len(t) \in Nat /\ DOMAIN t = 1 .. Len(t)
      /\ \A p \in 1 .. Len(t) : DOMAIN t[p] = 1 .. Len(t[p])
  BY TableFacts
<1>2. PICK K : K = KeyCellsOf(t)
  OBVIOUS
<1>3. ASSUME NEW p \in 1 .. Len(t), NEW s \in 1 .. Len(t[p])
      PROVE  t[p][s] \in K <=> IsKey(t[p][s])
  <2>1. t[p] \in Range(t) /\ t[p][s] \in Range(t[p])
    BY <1>1 DEF Range
  <2>2. PICK v, U : v = t[p][s] /\ U = CellsOf(t)
    OBVIOUS
  <2>3. K = U \ {Null, Wrong}
    BY <1>2, <2>2 DEF KeyCellsOf
  <2>4. v \in U
    <3>1. PICK R : R = Range(t)
      OBVIOUS
    <3>2. PICK x : x = t[p]
      OBVIOUS
    <3>3. x \in R /\ v \in Range(x) /\ U = UNION {Range(y) : y \in R}
      BY <2>1, <2>2, <3>1, <3>2 DEF CellsOf
    <3> QED
      BY ONLY <3>3
  <2> QED
    BY <2>2, <2>3, <2>4 DEF IsKey
<1>4. ASSUME NEW p \in 1 .. Len(t), NEW s \in 1 .. Len(t[p])
      PROVE  SiteOf(p, s) \in SitesOf(t, K) <=> IsKey(t[p][s])
  <2>1. CellAt(t, SiteOf(p, s)) = t[p][s] /\ SiteOf(p, s) \in Range(PagePositions(t, p))
    BY SiteCell
  <2>2. SiteOf(p, s) \in UNION {Range(PagePositions(t, x)) : x \in DOMAIN t}
    BY <1>1, <2>1
  <2> QED
    BY <1>3, <2>1, <2>2 DEF SitesOf
<1>5. ASSUME NEW pos \in SitesOf(t, K)
      PROVE  \E p \in 1 .. Len(t) : \E s \in 1 .. Len(t[p]) : pos = SiteOf(p, s) /\ IsKey(t[p][s])
  <2>1. PICK p \in 1 .. Len(t) : pos \in Range(PagePositions(t, p))
    BY <1>1 DEF SitesOf
  <2>2. PICK s \in 1 .. Len(t[p]) : pos = SiteOf(p, s)
    BY <1>1, <2>1 DEF PagePositions, Range, SiteOf
  <2> QED
    BY <1>4, <2>2
<1> QED
  BY <1>2, <1>4, <1>5

(* Every cell of the probe column has been dealt with. *)
AllDealt(claim, found) ==
    LET n == Len(probe_table)
    IN  /\ IsHistory(n, claim, found)
        /\ \A p \in 1 .. n : /\ Len(found[p]) = Len(probe_table[p])
                             /\ \A s \in 1 .. Len(probe_table[p]) : Appends(p, s, found[p][s])

(* What was found goes back to an order of the matches. *)
LEMMA OrderFound ==
    ASSUME InputsInv, NEW claim, NEW found, AllDealt(claim, found)
    PROVE  \E order \in MatchOrders(build_table, probe_table, KeyCellsOf(probe_table)) :
               \A p \in 1 .. Len(probe_table) :
                   PairsOf(probe_table, order, p) = FlattenSeq(found[p])
<1>1. PICK t, b, K, n : /\ t = probe_table /\ b = build_table
                        /\ K = KeyCellsOf(t) /\ n = Len(t)
  OBVIOUS
<1>2. IsTable(t) /\ n \in Nat /\ DOMAIN t = 1 .. n /\ \A p \in 1 .. n : DOMAIN t[p] = 1 .. Len(t[p])
  <2>1. IsTable(t)
    BY <1>1 DEF InputsInv, probe_table
  <2> QED
    BY <1>1, <2>1, TableFacts
<1>3. \A p \in 1 .. n : /\ found[p] \in Seq(Seq(Pairs)) /\ Len(found[p]) = Len(t[p])
                        /\ \A s \in 1 .. Len(t[p]) : Appends(p, s, found[p][s])
  BY <1>1 DEF AllDealt, IsHistory
<1> DEFINE Fits(pos, o) == found[pos \div PageSlots + 1][(pos % PageSlots) + 1] =
                             [m \in DOMAIN o |-> <<o[m], pos>>]
<1>4. PICK sites : sites = SitesOf(t, K)
  OBVIOUS
<1>5. PICK order : order = [pos \in sites |-> CHOOSE o \in SetToSeqs(PositionsOf(b, CellAt(t, pos))) :
                                                 Fits(pos, o)]
  OBVIOUS
<1>6. ASSUME NEW p \in 1 .. n, NEW s \in 1 .. Len(t[p])
      PROVE  LET pos == SiteOf(p, s)
             IN  /\ pos \in sites <=> IsKey(t[p][s])
                 /\ pos = PagePositions(t, p)[s]
                 /\ IsKey(t[p][s]) =>
                      /\ order[pos] \in SetToSeqs(PositionsOf(b, CellAt(t, pos)))
                      /\ found[p][s] = [m \in DOMAIN order[pos] |-> <<order[pos][m], pos>>]
                 /\ ~IsKey(t[p][s]) => found[p][s] = <<>>
  <2>1. PICK pos : pos = SiteOf(p, s)
    OBVIOUS
  <2>2. /\ CellAt(t, pos) = t[p][s] /\ pos = PagePositions(t, p)[s]
        /\ pos \div PageSlots + 1 = p /\ (pos % PageSlots) + 1 = s
    BY <1>1, <1>2, <2>1, SiteCell
  <2>3. pos \in sites <=> IsKey(t[p][s])
    BY <1>1, <1>2, <1>4, <2>1, SitesAre
  <2>4. Appends(p, s, found[p][s])
    BY <1>3
  <2>5. ~IsKey(t[p][s]) => found[p][s] = <<>>
    BY <1>1, <2>4 DEF Appends
  <2>6. ASSUME IsKey(t[p][s])
        PROVE  /\ order[pos] \in SetToSeqs(PositionsOf(b, CellAt(t, pos)))
               /\ found[p][s] = [m \in DOMAIN order[pos] |-> <<order[pos][m], pos>>]
    <3>1. PICK o \in SetToSeqs(PositionsOf(b, t[p][s])) : found[p][s] = PairsAt(o, p, s)
      BY <1>1, <2>4, <2>6 DEF Appends
    <3>2. found[p][s] = [m \in DOMAIN o |-> <<o[m], pos>>]
      BY <2>1, <3>1 DEF PairsAt
    <3>3. \A y : Fits(pos, y) <=> found[p][s] = [m \in DOMAIN y |-> <<y[m], pos>>]
      BY <2>2
    <3> HIDE DEF Fits
    <3>4. Fits(pos, o) /\ o \in SetToSeqs(PositionsOf(b, CellAt(t, pos)))
      BY <2>2, <3>1, <3>2, <3>3
    <3>5. order[pos] = CHOOSE y \in SetToSeqs(PositionsOf(b, CellAt(t, pos))) : Fits(pos, y)
      BY <1>5, <2>3, <2>6
    <3>6. PICK S : S = SetToSeqs(PositionsOf(b, CellAt(t, pos)))
      OBVIOUS
    <3>7. order[pos] \in S /\ Fits(pos, order[pos])
      BY <3>4, <3>5, <3>6
    <3> QED
      BY <3>3, <3>6, <3>7
  <2> QED
    BY <2>1, <2>2, <2>3, <2>5, <2>6
<1> HIDE DEF Fits
<1>7. order \in MatchOrders(b, t, K)
  <2>1. ASSUME NEW pos \in sites
        PROVE  order[pos] \in SetToSeqs(PositionsOf(b, CellAt(t, pos)))
    <3>1. PICK p \in 1 .. n : \E s \in 1 .. Len(t[p]) : pos = SiteOf(p, s) /\ IsKey(t[p][s])
      BY <1>1, <1>2, <1>4, SitesAre
    <3>2. PICK s \in 1 .. Len(t[p]) : pos = SiteOf(p, s) /\ IsKey(t[p][s])
      BY <3>1
    <3> QED
      BY <1>6, <3>2
  <2>2. DOMAIN order = sites /\ order = [pos \in sites |-> order[pos]]
    BY <1>5
  <2>3. PICK M : M = [pos \in sites |-> SetToSeqs(PositionsOf(b, CellAt(t, pos)))]
    OBVIOUS
  <2>4. order \in [sites -> UNION {M[pos] : pos \in sites}]
    <3>1. \A pos \in sites : order[pos] \in UNION {M[x] : x \in sites}
      BY <2>1, <2>3
    <3> QED
      BY <2>2, <3>1
  <2>5. {M[pos] : pos \in sites} = {SetToSeqs(PositionsOf(b, CellAt(t, pos))) : pos \in sites}
    BY <2>3
  <2> QED
    BY <1>4, <2>1, <2>4, <2>5 DEF MatchOrders, SitesOf
<1>8. ASSUME NEW p \in 1 .. n PROVE PairsOf(t, order, p) = FlattenSeq(found[p])
  <2>1. PICK g : g = [s \in DOMAIN t[p] |->
                        LET pos == PagePositions(t, p)[s]
                        IN  IF pos \in DOMAIN order
                            THEN [m \in DOMAIN order[pos] |-> <<order[pos][m], pos>>] ELSE <<>>]
    OBVIOUS
  <2>2. PairsOf(t, order, p) = FlattenSeq(g)
    BY <2>1 DEF PairsOf
  <2>3. DOMAIN order = sites
    BY <1>5
  <2>4. ASSUME NEW s \in 1 .. Len(t[p]) PROVE g[s] = found[p][s]
    <3>1. PICK pos : pos = SiteOf(p, s)
      OBVIOUS
    <3>2. g[s] = IF pos \in sites
                 THEN [m \in DOMAIN order[pos] |-> <<order[pos][m], pos>>] ELSE <<>>
      BY <1>2, <1>6, <2>1, <2>3, <3>1
    <3> QED
      BY <1>6, <3>1, <3>2
  <2>5. PICK y : y = found[p]
    OBVIOUS
  <2>6. y \in Seq(Seq(Pairs)) /\ Len(y) = Len(t[p])
    BY <1>3, <2>5
  <2>7. y = [s \in 1 .. Len(t[p]) |-> y[s]]
    BY <2>6
  <2>8. g = [s \in 1 .. Len(t[p]) |-> g[s]]
    BY <1>2, <2>1
  <2>9. g = y
    BY <2>4, <2>5, <2>7, <2>8
  <2> QED
    BY <2>2, <2>5, <2>9
<1> QED
  BY <1>1, <1>7, <1>8

(* The pages that were merged are those of the order and the claim. *)
LEMMA PagesFound ==
    ASSUME InputsInv, NEW claim, NEW found, AllDealt(claim, found), NEW order,
           \A p \in 1 .. Len(probe_table) :
               PairsOf(probe_table, order, p) = FlattenSeq(found[p])
    PROVE  AllPages(probe_table, order, claim) =
             MergedPages(Len(probe_table), claim, found, NumThreads)
<1>1. PICK t, n : t = probe_table /\ n = Len(t)
  OBVIOUS
<1>2. DOMAIN t = 1 .. n
  BY <1>1, TableFacts DEF InputsInv, probe_table
<1>3. ASSUME NEW i PROVE ThreadPages(t, order, claim, i) = FoundBy(n, claim, found, i)
  <2>1. [p \in DOMAIN t |-> IF claim[p] = i THEN PairsOf(t, order, p) ELSE <<>>] =
          Parts(n, claim, found, i)
    BY <1>1, <1>2 DEF Parts
  <2> QED
    BY <2>1 DEF ThreadPages, FoundBy
<1>4. [i \in 1 .. NumThreads |-> ThreadPages(t, order, claim, i - 1)] =
        [i \in 1 .. NumThreads |-> FoundBy(n, claim, found, i - 1)]
  BY <1>3
<1> QED
  BY <1>1, <1>4 DEF AllPages, MergedPages

LEMMA JoinLeft ==
    ASSUME JoinInv, OutcomeInv, mpc = "done", build_type = "INT32"
    PROVE  \E pages \in JoinOutcomes(build_table, probe_table, KeyCellsOf(probe_table)) :
               /\ pages \in Seq(Seq(Pairs))
               /\ \A c \in Columns : results[c] = MapPages(CellOf(c), pages)
<1>1. PICK claim, found : ClaimHistory(claim, found) /\ PagesHistory(claim, found)
  BY DEF OutcomeInv
<1>2. PICK t, n : t = probe_table /\ n = Len(t)
  OBVIOUS
<1>3. InputsInv /\ CallerInv /\ ClaimInv /\ n \in Nat /\ DOMAIN t = 1 .. n
  BY <1>2, TableFacts DEF JoinInv, InputsInv, probe_table
<1>4. IsHistory(n, claim, found)
  BY <1>1, <1>2, <1>3, HistoryType
<1>5. n <= page_counter /\ page_counter \in Nat /\ \A i \in Threads : wpc[i] = "returned"
  <2>1. 0 \in Threads
    BY JoinPagesAssumption DEF Threads
  <2>2. \A i \in Threads : wpc[i] = "returned"
    BY <1>3 DEF CallerInv
  <2> QED
    BY <1>2, <1>3, <2>1, <2>2 DEF CallerInv, ClaimInv
<1>6. AllDealt(claim, found)
  <2>1. ASSUME NEW p \in 1 .. n
        PROVE  /\ Len(found[p]) = Len(t[p])
               /\ \A s \in 1 .. Len(t[p]) : Appends(p, s, found[p][s])
    <3>1. ~(page_counter < p)
      BY <1>3, <1>5
    <3>2. ~ \E i \in Threads : wpc[i] = "probe" /\ page[i] + 1 = p
      BY <1>5
    <3>3. Len(found[p]) = Len(t[p])
      BY <1>1, <1>2, <3>1, <3>2 DEF ClaimHistory
    <3>4. \A s \in 1 .. Len(found[p]) : Appends(p, s, found[p][s])
      BY <1>1, <1>2 DEF ClaimHistory
    <3> QED
      BY <3>3, <3>4
  <2> QED
    BY <1>2, <1>4, <2>1 DEF AllDealt
<1>7. PICK order \in MatchOrders(build_table, t, KeyCellsOf(t)) :
        \A p \in 1 .. n : PairsOf(t, order, p) = FlattenSeq(found[p])
  BY <1>2, <1>3, <1>6, OrderFound
<1>8. PICK pages : pages = AllPages(t, order, claim)
  OBVIOUS
<1>9. pages = MergedPages(n, claim, found, NumThreads)
  BY <1>2, <1>3, <1>6, <1>7, <1>8, PagesFound
<1>10. pages \in JoinOutcomes(build_table, t, KeyCellsOf(t))
  <2>1. claim \in [DOMAIN t -> Threads]
    BY <1>3, <1>4 DEF IsHistory
  <2> QED
    BY <1>7, <1>8, <2>1, IsOutcome
<1>11. pages \in Seq(Seq(Pairs))
  <2>1. PICK k : k = NumThreads
    OBVIOUS
  <2>2. k \in Nat
    BY <2>1, JoinPagesAssumption
  <2> QED
    BY <1>4, <1>9, <2>1, <2>2, MergedNext
<1>12. \A c \in Columns : results[c] = MapPages(CellOf(c), pages)
  <2>1. Merged = NumThreads
    BY DEF Merged
  <2> QED
    BY <1>1, <1>2, <1>9, <2>1 DEF PagesHistory
<1> QED
  BY <1>2, <1>10, <1>11, <1>12

(* A finished join leaves one of the outcomes that the execution of a plan *)
(* reckons with, for any number of threads, pages and rows.                *)
THEOREM JoinLeavesOutcome == Spec => []LeavesOutcome
<1>1. JoinInv /\ OutcomeInv => LeavesOutcome
  <2>3. KeyCellsOf(probe_table) = (UNION {Range(p) : p \in Range(probe_table)}) \ {Null, Wrong}
    BY DEF KeyCellsOf, CellsOf
  <2> SUFFICES ASSUME JoinInv, OutcomeInv, mpc = "done", build_type = "INT32"
               PROVE  \E pages \in JoinOutcomes(build_table, probe_table, KeyCellsOf(probe_table)) :
                        \A c \in Columns :
                          results[c] = [p \in DOMAIN pages |-> [s \in DOMAIN pages[p] |->
                              LET b == PositionAt(pages[p][s][1])
                                  q == PositionAt(pages[p][s][2])
                              IN  (IF build_left THEN Combined(b, q) ELSE Combined(q, b))[c]]]
    BY <2>3 DEF LeavesOutcome
  <2>1. PICK pages \in JoinOutcomes(build_table, probe_table, KeyCellsOf(probe_table)) :
          /\ pages \in Seq(Seq(Pairs))
          /\ \A c \in Columns : results[c] = MapPages(CellOf(c), pages)
    BY JoinLeft
  <2>2. ASSUME NEW c \in Columns
        PROVE  MapPages(CellOf(c), pages) =
                 [p \in DOMAIN pages |-> [s \in DOMAIN pages[p] |->
                     LET b == PositionAt(pages[p][s][1])
                         q == PositionAt(pages[p][s][2])
                     IN  (IF build_left THEN Combined(b, q) ELSE Combined(q, b))[c]]]
    <3> DEFINE Cell(pair) == LET b == PositionAt(pair[1])
                                 q == PositionAt(pair[2])
                             IN  (IF build_left THEN Combined(b, q) ELSE Combined(q, b))[c]
    <3>1. \A pair \in Pairs : CellOf(c)[pair] = Cell(pair)
      BY DEF CellOf
    <3>2. DOMAIN pages = 1 .. Len(pages)
      BY <2>1
    <3>3. \A p \in 1 .. Len(pages) : DOMAIN pages[p] = 1 .. Len(pages[p])
      BY <2>1
    <3>4. \A p \in 1 .. Len(pages) : \A s \in 1 .. Len(pages[p]) : pages[p][s] \in Pairs
      BY <2>1
    <3> HIDE DEF Cell
    <3>5. ASSUME NEW p \in 1 .. Len(pages)
          PROVE  [s \in 1 .. Len(pages[p]) |-> CellOf(c)[pages[p][s]]] =
                   [s \in DOMAIN pages[p] |-> Cell(pages[p][s])]
      BY <3>1, <3>3, <3>4
    <3>6. [p \in 1 .. Len(pages) |-> [s \in 1 .. Len(pages[p]) |-> CellOf(c)[pages[p][s]]]] =
            [p \in DOMAIN pages |-> [s \in DOMAIN pages[p] |-> Cell(pages[p][s])]]
      BY <3>2, <3>5
    <3> QED
      BY <3>6 DEF MapPages, Cell
  <2> QED
    BY <2>1, <2>2
<1>2. Init => JoinInv /\ OutcomeInv
  BY JoinInvInit, OutcomeInit
<1>3. JoinInv /\ OutcomeInv /\ [Next]_vars => JoinInv' /\ OutcomeInv'
  BY JoinInvStep, OutcomeStep
<1> QED
  BY <1>1, <1>2, <1>3, PTL DEF Spec
=============================================================================
