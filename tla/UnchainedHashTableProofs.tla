---------------------- MODULE UnchainedHashTableProofs ----------------------
(***************************************************************************)
(* Proofs about UnchainedHashTable, for every number of threads,           *)
(* partitions, slots and tuples and every placement of the keys: the       *)
(* phases of the parallel build share no list and lose no tuple, both      *)
(* builds make a right table, and a probe finds every tuple once.          *)
(***************************************************************************)
EXTENDS UnchainedHashTable, Lemmas

(* The merge slices are those of the module Lemmas. *)
LEMMA MergeBoundsAreBounds ==
    ASSUME NEW i \in Threads
    PROVE  MergeBounds(i) = [start |-> Bound(i, NumPartitions, NumThreads),
                             end |-> Bound(i + 1, NumPartitions, NumThreads)]
<1> DEFINE q == NumPartitions \div NumThreads
           r == NumPartitions % NumThreads
<1>1. q \in Nat /\ r \in Nat /\ i \in Nat
  BY TableAssumption, DivMod DEF Threads
<1>2. /\ i * (q + 1) = i * q + i
      /\ (i + 1) * (q + 1) = (i + 1) * q + (i + 1)
      /\ i * q \in Nat /\ (i + 1) * q \in Nat
  BY <1>1
<1>3. MergeBounds(i) =
        IF i < r THEN [start |-> i * (q + 1), end |-> (i + 1) * (q + 1)]
        ELSE [start |-> i * q + r, end |-> (i + 1) * q + r]
  BY DEF MergeBounds
<1>4. /\ Bound(i, NumPartitions, NumThreads) = i * q + Lesser(i, r)
      /\ Bound(i + 1, NumPartitions, NumThreads) = (i + 1) * q + Lesser(i + 1, r)
  BY DEF Bound
<1> HIDE DEF q, r
<1>5. CASE i < r
  BY <1>1, <1>2, <1>3, <1>4, <1>5 DEF Lesser
<1>6. CASE ~(i < r)
  BY <1>1, <1>2, <1>3, <1>4, <1>6 DEF Lesser
<1> QED
  BY <1>5, <1>6

(* A merge slice is an interval of partitions. *)
LEMMA MergeBoundsRange ==
    ASSUME NEW i \in Threads
    PROVE  /\ MergeBounds(i).start \in Nat /\ MergeBounds(i).end \in Nat
           /\ MergeBounds(i).start <= MergeBounds(i).end
           /\ MergeBounds(i).end <= NumPartitions
<1>1. /\ Bound(i, NumPartitions, NumThreads) \in 0 .. NumPartitions
      /\ Bound(i + 1, NumPartitions, NumThreads) \in 0 .. NumPartitions
      /\ Bound(i, NumPartitions, NumThreads) <= Bound(i + 1, NumPartitions, NumThreads)
  BY BoundRange, TableAssumption DEF Threads
<1> QED
  BY <1>1, MergeBoundsAreBounds, TableAssumption

(* Partition p is in the merge slice of thread i. *)
Owns(i, p) == MergeBounds(i).start <= p /\ p < MergeBounds(i).end

(* Every partition belongs to exactly one thread. *)
LEMMA OneOwner ==
    ASSUME NEW p \in Partitions
    PROVE  /\ \E i \in Threads : Owns(i, p)
           /\ \A i, j \in Threads : Owns(i, p) /\ Owns(j, p) => i = j
<1>1. p \in Nat /\ p \in 0 .. NumPartitions - 1
  BY TableAssumption DEF Partitions
<1>2. \A i \in Threads : Owns(i, p) <=> p \in Slice(i, NumPartitions, NumThreads)
  BY <1>1, MergeBoundsAreBounds DEF Owns, Slice
<1>3. \E i \in Threads : p \in Slice(i, NumPartitions, NumThreads)
  BY <1>1, TableAssumption, SlicesCover DEF Threads
<1>4. \A i, j \in Threads :
         p \in Slice(i, NumPartitions, NumThreads)
         /\ p \in Slice(j, NumPartitions, NumThreads) => i = j
  BY TableAssumption, SlicesDisjoint DEF Threads
<1> QED
  BY <1>2, <1>3, <1>4

(***************************************************************************)
(* The inductive invariant of the second phase.                            *)
(***************************************************************************)

(* Thread i has been created for the second phase. *)
Phase2(i) ==
    \/ mpc = "create_merge" /\ i < mi
    \/ mpc \in {"join_merge", "count", "scatter", "fill"}

Domains ==
    /\ mi \in Threads
    /\ DOMAIN wpc = Threads /\ DOMAIN args = Threads
    /\ DOMAIN at = Threads /\ DOMAIN from = Threads /\ DOMAIN local = Threads
    /\ \A i \in Threads : DOMAIN local[i] = Partitions

(* Threads of a phase run within it: the caller has joined the others. *)
PhaseInv ==
    \A i \in Threads :
        /\ wpc[i] = "partition" => mpc \in {"create_partition", "join_partition"}
        /\ wpc[i] = "merge" => Phase2(i)
        /\ Phase2(i) => wpc[i] \in {"merge", "done"}
        /\ mpc \in {"join_partition", "join_merge"} /\ i < mi => wpc[i] = "done"
        /\ mpc \in {"count", "scatter", "fill"} => wpc[i] = "done"

(* A merge thread is within its slice, and what it has passed is empty. *)
Passed(i, j, p) ==
    (args[i].start <= p /\ p < at[i]) \/ (p = at[i] /\ j < from[i])

MergeOf(i) ==
    /\ args[i] = MergeBounds(i)
    /\ at[i] \in Nat /\ from[i] \in Threads
    /\ args[i].start <= at[i] /\ at[i] <= args[i].end
    /\ wpc[i] = "done" => at[i] = args[i].end
    /\ \A p \in Partitions, j \in Threads :
         Passed(i, j, p) => local[j][p] = EmptyPartition

MergeInv == \A i \in Threads : Phase2(i) => MergeOf(i)

PInv == Domains /\ PhaseInv /\ MergeInv

(* Before the build, no thread exists. *)
LEMMA PhaseInit == Init => PInv
BY TableAssumption
   DEF Init, PInv, Domains, PhaseInv, MergeInv, Phase2, Threads

(* The caller's loops keep their index in range. *)
LEMMA NextThreadRange ==
    ASSUME mi \in Threads, NEW again, NEW after, NextThread(again, after)
    PROVE  mi' \in Threads
BY TableAssumption DEF NextThread, Threads

(* No step changes the domain of an array. *)
LEMMA DomainsStep == Domains /\ [Next]_vars => Domains'
<1> SUFFICES ASSUME Domains, [Next]_vars PROVE Domains'
  OBVIOUS
<1> USE DEF Domains
<1>1. CASE UNCHANGED vars
  BY <1>1 DEF vars
<1>2. ASSUME NEW i \in Threads, Worker(i) PROVE Domains'
  <2>1. CASE PartitionTuple(i)
    BY <2>1 DEF PartitionTuple
  <2>2. CASE WorkerReturn(i)
    BY <2>2 DEF WorkerReturn
  <2>3. CASE MergeList(i)
    <3>1. \A k \in Threads : DOMAIN local'[k] = Partitions
      BY <2>3 DEF MergeList
    <3> QED
      BY <2>3, <3>1 DEF MergeList
  <2> QED
    BY <1>2, <2>1, <2>2, <2>3 DEF Worker
<1>3. CASE CreatePartitionThread
  BY <1>3, NextThreadRange DEF CreatePartitionThread, Launch
<1>4. CASE CreateMergeThread
  BY <1>4, NextThreadRange DEF CreateMergeThread, Launch
<1>5. CASE JoinPartitionThread
  BY <1>5, NextThreadRange DEF JoinPartitionThread
<1>6. CASE JoinMergeThread
  BY <1>6, NextThreadRange DEF JoinMergeThread
<1>7. CASE build \/ StartParallel
  BY <1>7 DEF build, StartParallel
<1>8. CASE CountAndPrefix \/ Scatter
  BY <1>8 DEF CountAndPrefix, Scatter
<1>9. CASE FillAndFree
  BY <1>9 DEF FillAndFree
<1> QED
  BY <1>1, <1>2, <1>3, <1>4, <1>5, <1>6, <1>7, <1>8, <1>9
     DEF Next, Built, Caller

(* A phase begins when the caller has joined every thread of the last. *)
LEMMA PhaseStep == Domains /\ PhaseInv /\ [Next]_vars => PhaseInv'
<1> SUFFICES ASSUME Domains, PhaseInv, [Next]_vars PROVE PhaseInv'
  OBVIOUS
<1> USE DEF Domains, PhaseInv, Phase2
<1>1. CASE UNCHANGED vars
  BY <1>1 DEF vars
<1>2. ASSUME NEW i \in Threads, Worker(i) PROVE PhaseInv'
  <2>1. CASE PartitionTuple(i)
    <3>1. UNCHANGED <<mpc, mi, wpc>>
      BY <2>1 DEF PartitionTuple
    <3> QED
      BY <3>1
  <2>2. CASE WorkerReturn(i)
    BY <2>2 DEF WorkerReturn
  <2>3. CASE MergeList(i)
    <3>1. UNCHANGED <<mpc, mi, wpc>>
      BY <2>3 DEF MergeList
    <3> QED
      BY <3>1
  <2> QED
    BY <1>2, <2>1, <2>2, <2>3 DEF Worker
<1>3. CASE CreatePartitionThread
  BY <1>3, TableAssumption DEF CreatePartitionThread, Launch, NextThread, Threads
<1>4. CASE CreateMergeThread
  BY <1>4, TableAssumption DEF CreateMergeThread, Launch, NextThread, Threads
<1>5. CASE JoinPartitionThread
  BY <1>5, TableAssumption DEF JoinPartitionThread, NextThread, Threads
<1>6. CASE JoinMergeThread
  BY <1>6, TableAssumption DEF JoinMergeThread, NextThread, Threads
<1>7. CASE build \/ StartParallel
  BY <1>7 DEF build, StartParallel
<1>8. CASE CountAndPrefix \/ Scatter \/ FillAndFree
  BY <1>8 DEF CountAndPrefix, Scatter, FillAndFree
<1> QED
  BY <1>1, <1>2, <1>3, <1>4, <1>5, <1>6, <1>7, <1>8 DEF Next, Built, Caller

(* Outside the merge itself, the merge invariant follows the threads. *)
LEMMA MergeFrame ==
    ASSUME MergeInv, UNCHANGED <<args, at, from, local>>,
           \A i \in Threads : Phase2(i)' => Phase2(i),
           \A i \in Threads : Phase2(i) /\ wpc'[i] = "done" =>
               wpc[i] = "done" \/ ~(at[i] < args[i].end)
    PROVE  MergeInv'
<1> SUFFICES ASSUME NEW i \in Threads, Phase2(i)'
             PROVE  MergeOf(i)'
  BY DEF MergeInv
<1>1. MergeOf(i) /\ Phase2(i)
  BY DEF MergeInv
<1>2. wpc'[i] = "done" => at[i] = args[i].end
  BY <1>1, MergeBoundsRange DEF MergeOf
<1>3. (args[i] = MergeBounds(i))'
  BY <1>1 DEF MergeOf, MergeBounds
<1>4. \A j \in Threads, p \in Partitions : Passed(i, j, p)' <=> Passed(i, j, p)
  BY DEF Passed
<1> QED
  BY <1>1, <1>2, <1>3, <1>4 DEF MergeOf

(* Merging one list keeps what every thread has passed empty. *)
LEMMA MergeListStep ==
    ASSUME Domains, PhaseInv, MergeInv, NEW k \in Threads, MergeList(k)
    PROVE  MergeInv'
<1>1. /\ wpc[k] = "merge" /\ at[k] < args[k].end
      /\ UNCHANGED <<mpc, mi, args, wpc>>
  BY DEF MergeList
<1>2. Phase2(k) /\ MergeOf(k)
  BY <1>1 DEF PhaseInv, MergeInv
<1>3. /\ args[k].start \in Nat /\ args[k].end \in Nat
      /\ args[k].end <= NumPartitions
  BY <1>2, MergeBoundsRange DEF MergeOf
<1>4. at[k] \in Partitions /\ at[k] \in Nat /\ from[k] \in Threads
  BY <1>1, <1>2, <1>3, TableAssumption DEF MergeOf, Partitions
<1>5. local' = [local EXCEPT ![from[k]][at[k]] = EmptyPartition]
  BY DEF MergeList
<1>6. \A j \in Threads, p \in Partitions :
         local'[j][p] = IF j = from[k] /\ p = at[k] THEN EmptyPartition
                        ELSE local[j][p]
  BY <1>5 DEF Domains
<1>7. IF from[k] + 1 < NumThreads
      THEN from' = [from EXCEPT ![k] = from[k] + 1] /\ at' = at
      ELSE from' = [from EXCEPT ![k] = 0] /\ at' = [at EXCEPT ![k] = at[k] + 1]
  BY DEF MergeList
<1> SUFFICES ASSUME NEW i \in Threads, Phase2(i)'
             PROVE  MergeOf(i)'
  BY DEF MergeInv
<1>8. Phase2(i) /\ MergeOf(i)
  BY <1>1 DEF MergeInv, Phase2
<1>9. (args[i] = MergeBounds(i))'
  BY <1>1, <1>8 DEF MergeOf, MergeBounds
<1>10. CASE i # k
  <2>1. at'[i] = at[i] /\ from'[i] = from[i]
    BY <1>7, <1>10 DEF Domains
  <2>2. \A j \in Threads, p \in Partitions : Passed(i, j, p)' <=> Passed(i, j, p)
    BY <1>1, <2>1 DEF Passed
  <2> QED
    BY <1>1, <1>6, <1>8, <1>9, <2>1, <2>2 DEF MergeOf
<1>11. CASE i = k /\ from[k] + 1 < NumThreads
  <2>1. at'[k] = at[k] /\ from'[k] = from[k] + 1
    BY <1>7, <1>11 DEF Domains
  <2>2. from'[k] \in Threads
    BY <1>4, <1>11, <2>1, TableAssumption DEF Threads
  <2>3. ASSUME NEW j \in Threads, NEW p \in Partitions, Passed(k, j, p)'
        PROVE  local'[j][p] = EmptyPartition
    <3>1. Passed(k, j, p) \/ (p = at[k] /\ j = from[k])
      BY <1>1, <1>4, <2>1, <2>3, TableAssumption DEF Passed, Threads
    <3> QED
      BY <1>2, <1>6, <3>1 DEF MergeOf
  <2> QED
    BY <1>1, <1>2, <1>9, <1>11, <2>1, <2>2, <2>3 DEF MergeOf
<1>12. CASE i = k /\ ~(from[k] + 1 < NumThreads)
  <2>1. at'[k] = at[k] + 1 /\ from'[k] = 0
    BY <1>7, <1>12 DEF Domains
  <2>2. 0 \in Threads /\ from[k] = NumThreads - 1
    BY <1>4, <1>12, TableAssumption DEF Threads
  <2>3. ASSUME NEW j \in Threads, NEW p \in Partitions, Passed(k, j, p)'
        PROVE  local'[j][p] = EmptyPartition
    <3>1. p \in Int /\ j \in Nat /\ j <= NumThreads - 1
      BY TableAssumption DEF Threads, Partitions
    <3>2. args[k].start <= p /\ p < at[k] + 1
      BY <1>1, <2>1, <2>3, <3>1 DEF Passed
    <3>3. Passed(k, j, p) \/ (p = at[k] /\ j = from[k])
      BY <1>4, <2>2, <3>1, <3>2, TableAssumption DEF Passed
    <3> QED
      BY <1>2, <1>6, <3>3 DEF MergeOf
  <2>4. at'[k] \in Nat /\ args[k].start <= at'[k] /\ at'[k] <= args[k].end
    BY <1>1, <1>2, <1>3, <1>4, <2>1 DEF MergeOf
  <2> QED
    BY <1>1, <1>9, <1>12, <2>1, <2>2, <2>3, <2>4 DEF MergeOf
<1> QED
  BY <1>10, <1>11, <1>12

(* A new merge thread starts at the beginning of its slice. *)
LEMMA CreateMergeStep ==
    ASSUME Domains, MergeInv, CreateMergeThread
    PROVE  MergeInv'
<1>1. /\ mpc = "create_merge" /\ UNCHANGED local
      /\ args' = [args EXCEPT ![mi] = MergeBounds(mi)]
      /\ wpc' = [wpc EXCEPT ![mi] = "merge"]
      /\ at' = [at EXCEPT ![mi] = MergeBounds(mi).start]
      /\ from' = [from EXCEPT ![mi] = 0]
      /\ NextThread("create_merge", "join_merge")
  BY DEF CreateMergeThread, Launch
<1> SUFFICES ASSUME NEW i \in Threads, Phase2(i)'
             PROVE  MergeOf(i)'
  BY DEF MergeInv
<1>2. i <= mi /\ mi \in Nat /\ i \in Nat
  BY <1>1, TableAssumption DEF Phase2, NextThread, Threads, Domains
<1>3. MergeBounds(i)' = MergeBounds(i)
  BY DEF MergeBounds
<1>4. CASE i = mi
  <2>1. /\ args'[i] = MergeBounds(i) /\ wpc'[i] = "merge"
        /\ at'[i] = MergeBounds(i).start /\ from'[i] = 0
    BY <1>1, <1>4 DEF Domains
  <2>2. \A j \in Threads, p \in Partitions : ~Passed(i, j, p)'
    BY <2>1, MergeBoundsRange, TableAssumption DEF Passed, Threads, Partitions
  <2>3. 0 \in Threads
    BY TableAssumption DEF Threads
  <2> QED
    BY <1>3, <2>1, <2>2, <2>3, MergeBoundsRange DEF MergeOf
<1>5. CASE i # mi
  <2>1. MergeOf(i)
    BY <1>1, <1>2, <1>5 DEF MergeInv, Phase2
  <2>2. /\ args'[i] = args[i] /\ wpc'[i] = wpc[i]
        /\ at'[i] = at[i] /\ from'[i] = from[i]
    BY <1>1, <1>5 DEF Domains
  <2>3. \A j \in Threads, p \in Partitions : Passed(i, j, p)' <=> Passed(i, j, p)
    BY <2>2 DEF Passed
  <2> QED
    BY <1>1, <1>3, <2>1, <2>2, <2>3 DEF MergeOf
<1> QED
  BY <1>4, <1>5

(* What a merge thread has passed stays empty until the chunks are freed. *)
LEMMA MergeStep == Domains /\ PhaseInv /\ MergeInv /\ [Next]_vars => MergeInv'
<1> SUFFICES ASSUME Domains, PhaseInv, MergeInv, [Next]_vars PROVE MergeInv'
  OBVIOUS
<1>1. CASE UNCHANGED vars
  BY <1>1, MergeFrame DEF vars, Phase2
<1>2. ASSUME NEW k \in Threads, Worker(k) PROVE MergeInv'
  <2>1. CASE PartitionTuple(k)
    <3>1. wpc[k] = "partition" /\ UNCHANGED <<mpc, mi>>
      BY <2>1 DEF PartitionTuple
    <3>2. \A i \in Threads : ~Phase2(i)'
      BY <3>1 DEF PhaseInv, Phase2
    <3> QED
      BY <3>2 DEF MergeInv
  <2>2. CASE WorkerReturn(k)
    <3>1. /\ ~(at[k] < args[k].end) /\ wpc' = [wpc EXCEPT ![k] = "done"]
          /\ UNCHANGED <<mpc, mi, args, at, from, local>>
      BY <2>2 DEF WorkerReturn
    <3>2. \A i \in Threads : Phase2(i)' => Phase2(i)
      BY <3>1 DEF Phase2
    <3>3. \A i \in Threads : wpc'[i] = "done" =>
            wpc[i] = "done" \/ ~(at[i] < args[i].end)
      BY <3>1 DEF Domains
    <3> QED
      BY <3>1, <3>2, <3>3, MergeFrame
  <2>3. CASE MergeList(k)
    BY <2>3, MergeListStep
  <2> QED
    BY <1>2, <2>1, <2>2, <2>3 DEF Worker
<1>3. CASE CreateMergeThread
  BY <1>3, CreateMergeStep
<1>4. CASE JoinMergeThread
  <2>1. UNCHANGED <<args, at, from, local, wpc>>
    BY <1>4 DEF JoinMergeThread
  <2>2. \A i \in Threads : Phase2(i)
    BY <1>4 DEF JoinMergeThread, Phase2
  <2> QED
    BY <2>1, <2>2, MergeFrame
<1>5. CASE CountAndPrefix \/ Scatter
  <2>1. UNCHANGED <<args, at, from, local, wpc>>
    BY <1>5 DEF CountAndPrefix, Scatter
  <2>2. \A i \in Threads : Phase2(i)
    BY <1>5 DEF CountAndPrefix, Scatter, Phase2
  <2> QED
    BY <2>1, <2>2, MergeFrame
<1>6. CASE build \/ StartParallel \/ CreatePartitionThread
           \/ JoinPartitionThread \/ FillAndFree
  <2>1. CASE build \/ StartParallel \/ FillAndFree
    <3>1. mpc' \in {"built", "create_partition"}
      BY <2>1 DEF build, StartParallel, FillAndFree
    <3> QED
      BY <3>1 DEF MergeInv, Phase2
  <2>2. CASE CreatePartitionThread \/ JoinPartitionThread
    <3>1. \/ mpc' \in {"create_partition", "join_partition"}
          \/ mpc' = "create_merge" /\ mi' = 0
      BY <2>2 DEF CreatePartitionThread, JoinPartitionThread, NextThread
    <3>2. \A i \in Threads : ~Phase2(i)'
      BY <3>1, TableAssumption DEF Phase2, Threads
    <3> QED
      BY <3>2 DEF MergeInv
  <2> QED
    BY <1>6, <2>1, <2>2
<1> QED
  BY <1>1, <1>2, <1>3, <1>4, <1>5, <1>6 DEF Next, Built, Caller

(* The three parts together are inductive. *)
THEOREM BuildPhases == Spec => []PInv
<1>1. PInv /\ [Next]_vars => PInv'
  BY DomainsStep, PhaseStep, MergeStep DEF PInv
<1> QED
  BY PhaseInit, <1>1, PTL DEF Spec

(* Two threads of the second phase never work on lists of one partition,   *)
(* and none works on a list that is still being partitioned: merge_worker  *)
(* needs no lock.                                                          *)
THEOREM ListsAreNotShared == Spec => []NoSharedList
<1>1. PInv => NoSharedList
  <2> SUFFICES ASSUME PInv, NEW i \in Threads, NEW j \in Threads,
                      NEW p \in Partitions, i # j, Merging(i, p)
               PROVE  wpc[j] # "partition" /\ ~Merging(j, p)
    BY DEF NoSharedList
  <2>1. Phase2(i)
    BY DEF PInv, PhaseInv, Merging
  <2>2. wpc[j] # "partition"
    BY <2>1 DEF PInv, PhaseInv, Phase2
  <2>3. ASSUME NEW k \in Threads, Merging(k, p) PROVE Owns(k, p)
    BY <2>3 DEF PInv, PhaseInv, MergeInv, MergeOf, Merging, Owns
  <2>4. ~Merging(j, p)
    BY <2>3, OneOwner
  <2> QED
    BY <2>2, <2>4
<1> QED
  BY BuildPhases, <1>1, PTL

(* When all merge threads have returned, their slices are behind them. *)
LEMMA AllMerged == PInv => MergedBeforeRead
<1> SUFFICES ASSUME PInv, mpc \in {"count", "scatter", "fill"},
                    NEW j \in Threads
             PROVE  /\ wpc[j] = "done"
                    /\ \A p \in Partitions : local[j][p] = EmptyPartition
  BY DEF MergedBeforeRead
<1>1. wpc[j] = "done"
  BY DEF PInv, PhaseInv
<1>2. ASSUME NEW p \in Partitions PROVE local[j][p] = EmptyPartition
  <2>1. PICK i \in Threads : Owns(i, p)
    BY OneOwner
  <2>2. MergeOf(i) /\ wpc[i] = "done"
    BY DEF PInv, PhaseInv, MergeInv, Phase2
  <2>3. Passed(i, j, p)
    BY <2>1, <2>2 DEF MergeOf, Owns, Passed
  <2> QED
    BY <2>2, <2>3 DEF MergeOf
<1> QED
  BY <1>1, <1>2

(* When the caller counts, scatters and frees, every thread has returned   *)
(* and every list of theirs has been handed over.                          *)
THEOREM MergedBeforeCount == Spec => []MergedBeforeRead
BY BuildPhases, AllMerged, PTL

-----------------------------------------------------------------------------
(* The tuples and the slices of the first phase.                           *)

TuplesInv ==
    /\ temp_keys_pos \in Seq(Entry) /\ count <= MaxCount
    /\ \A t \in 1 .. count : temp_keys_pos[t].key_pos = t - 1
    /\ dirHash \in [Keys -> Slots]

(* Thread i has been created for the first phase. *)
Phase1(i) == (mpc = "create_partition" /\ i < mi) \/ mpc = "join_partition"

(* The running start is the bound of the next slice, and a thread of the   *)
(* first phase is within its slice.                                        *)
SlicesInv ==
    /\ next \in 0 .. count
    /\ mpc \in {"start", "create_partition", "join_partition", "create_merge",
                "join_merge", "count", "scatter", "fill", "built"}
    /\ mpc = "start" => next = 0 /\ mi = 0
    /\ mpc = "create_partition" => next = Bound(mi, count, NumThreads)
    /\ \A i \in Threads :
         /\ args[i].start \in Nat /\ args[i].end \in Nat
         /\ at[i] \in args[i].start .. args[i].end
         /\ from[i] \in Threads
         /\ wpc[i] \in {"none", "partition", "merge", "done"}
         /\ mpc = "start" \/ (mpc = "create_partition" /\ mi <= i) => wpc[i] = "none"
         /\ Phase1(i) => /\ args[i] = [start |-> Bound(i, count, NumThreads),
                                       end |-> Bound(i + 1, count, NumThreads)]
                         /\ wpc[i] \in {"partition", "done"}

LEMMA TuplesInit == Init => TuplesInv
<1> SUFFICES ASSUME Init PROVE TuplesInv
  OBVIOUS
<1>1. PICK n \in 0 .. MaxCount : \E k \in [1 .. n -> Keys] :
        temp_keys_pos = [i \in 1 .. n |-> [key |-> k[i], key_pos |-> i - 1]]
  BY DEF Init
<1>2. PICK k \in [1 .. n -> Keys] :
        temp_keys_pos = [i \in 1 .. n |-> [key |-> k[i], key_pos |-> i - 1]]
  BY <1>1
<1>3. n \in Nat /\ MaxCount \in Nat /\ n <= MaxCount
  BY TableAssumption
<1>4. \A i \in 1 .. n : [key |-> k[i], key_pos |-> i - 1] \in Entry
  BY <1>3 DEF Entry
<1>5. temp_keys_pos \in Seq(Entry) /\ Len(temp_keys_pos) = n
  BY <1>2, <1>3, <1>4
<1>6. dirHash \in [Keys -> Slots]
  BY SMTT(30), TableAssumption DEF Init, Slots
<1> QED
  BY <1>2, <1>3, <1>5, <1>6 DEF TuplesInv, count

LEMMA InputUnchanged == [Next]_vars => UNCHANGED <<temp_keys_pos, dirHash>>
BY DEF Next, vars, Built, Caller, Worker, build, StartParallel, CreatePartitionThread,
       JoinPartitionThread, CreateMergeThread, JoinMergeThread, CountAndPrefix, Scatter,
       FillAndFree, PartitionTuple, WorkerReturn, MergeList

LEMMA TuplesStep == TuplesInv /\ [Next]_vars => TuplesInv'
BY InputUnchanged DEF TuplesInv, count

LEMMA SlicesInit == Init => SlicesInv
<1> SUFFICES ASSUME Init PROVE SlicesInv
  OBVIOUS
<1>1. count \in Nat /\ 0 \in Threads
  BY TuplesInit, TableAssumption DEF TuplesInv, count, Threads
<1> QED
  BY <1>1 DEF Init, SlicesInv, Phase1

(* A slice of the first phase is as long as its thread's count. *)
LEMMA ThreadCountIs ==
    ASSUME TuplesInv, NEW i \in Threads
    PROVE  /\ Bound(i, count, NumThreads) + ThreadCount(i) = Bound(i + 1, count, NumThreads)
           /\ Bound(i, count, NumThreads) \in 0 .. count
           /\ Bound(i + 1, count, NumThreads) \in 0 .. count
           /\ Bound(i, count, NumThreads) <= Bound(i + 1, count, NumThreads)
<1> DEFINE q == count \div NumThreads
           r == count % NumThreads
<1>1. count \in Nat /\ q \in Nat /\ r \in Nat /\ i \in Nat
  <2>1. count \in Nat /\ NumThreads \in Nat \ {0}
    BY TableAssumption DEF TuplesInv, count
  <2> QED
    BY <2>1, DivMod DEF Threads
<1>2. (i + 1) * q = i * q + q /\ i * q \in Nat
  BY <1>1
<1>3. /\ Bound(i, count, NumThreads) = i * q + Lesser(i, r)
      /\ Bound(i + 1, count, NumThreads) = (i + 1) * q + Lesser(i + 1, r)
      /\ ThreadCount(i) = q + (IF i < r THEN 1 ELSE 0)
  BY DEF Bound, ThreadCount
<1>4. /\ Bound(i, count, NumThreads) \in 0 .. count
      /\ Bound(i + 1, count, NumThreads) \in 0 .. count
      /\ Bound(i, count, NumThreads) <= Bound(i + 1, count, NumThreads)
  BY <1>1, BoundRange, TableAssumption DEF Threads
<1> HIDE DEF q, r
<1>5. i * q + Lesser(i, r) + (q + (IF i < r THEN 1 ELSE 0)) = (i + 1) * q + Lesser(i + 1, r)
  BY <1>1, <1>2 DEF Lesser
<1> QED
  BY <1>3, <1>4, <1>5

LEMMA SlicesStep ==
    Domains /\ PhaseInv /\ MergeInv /\ TuplesInv /\ SlicesInv /\ [Next]_vars => SlicesInv'
<1> SUFFICES ASSUME Domains, PhaseInv, MergeInv, TuplesInv, SlicesInv, [Next]_vars
             PROVE  SlicesInv'
  OBVIOUS
<1>0. /\ count' = count /\ mi \in Threads /\ NumThreads \in Nat \ {0} /\ 0 \in Threads
      /\ \A i \in Threads : i \in Nat
      /\ DOMAIN wpc = Threads /\ DOMAIN args = Threads /\ DOMAIN at = Threads
      /\ DOMAIN from = Threads
  BY InputUnchanged, TableAssumption DEF count, Domains, Threads
<1>1. CASE UNCHANGED vars
  BY <1>0, <1>1 DEF vars, SlicesInv, Phase1
<1>2. ASSUME NEW k \in Threads, Worker(k) PROVE SlicesInv'
  <2>1. CASE PartitionTuple(k)
    <3>1. /\ UNCHANGED <<mpc, mi, next, args, wpc, from>>
          /\ at[k] < args[k].end /\ at' = [at EXCEPT ![k] = @ + 1]
      BY <2>1 DEF PartitionTuple
    <3>2. \A i \in Threads : at'[i] \in args[i].start .. args[i].end
      BY <1>0, <3>1 DEF SlicesInv
    <3> QED
      BY <1>0, <3>1, <3>2 DEF SlicesInv, Phase1
  <2>2. CASE WorkerReturn(k)
    <3>1. /\ UNCHANGED <<mpc, mi, next, args, at, from>>
          /\ wpc' = [wpc EXCEPT ![k] = "done"] /\ wpc[k] # "none"
      BY <2>2 DEF WorkerReturn
    <3>2. \A i \in Threads : /\ wpc'[i] = wpc[i] \/ (wpc'[i] = "done" /\ wpc[i] # "none")
      BY <1>0, <3>1
    <3> QED
      BY <1>0, <3>1, <3>2 DEF SlicesInv, Phase1
  <2>3. CASE MergeList(k)
    <3>1. /\ UNCHANGED <<mpc, mi, next, args, wpc>>
          /\ at[k] < args[k].end
          /\ \/ /\ from[k] + 1 < NumThreads
                /\ from' = [from EXCEPT ![k] = from[k] + 1] /\ at' = at
             \/ from' = [from EXCEPT ![k] = 0] /\ at' = [at EXCEPT ![k] = at[k] + 1]
      BY <2>3 DEF MergeList
    <3>2. \A i \in Threads : at'[i] \in args[i].start .. args[i].end /\ from'[i] \in Threads
      <4>1. ASSUME NEW i \in Threads, i # k PROVE at'[i] = at[i] /\ from'[i] = from[i]
        BY <1>0, <3>1, <4>1
      <4>2. /\ at[k] \in args[k].start .. args[k].end /\ args[k].start \in Nat
            /\ args[k].end \in Nat /\ from[k] \in Nat
        BY <1>0 DEF SlicesInv
      <4>3. /\ at'[k] \in {at[k], at[k] + 1}
            /\ from'[k] = 0 \/ (from'[k] = from[k] + 1 /\ from[k] + 1 < NumThreads)
        BY <1>0, <3>1
      <4>4. at'[k] \in args[k].start .. args[k].end
        BY <3>1, <4>2, <4>3
      <4>5. from'[k] \in Threads
        BY <1>0, <4>2, <4>3 DEF Threads
      <4> QED
        BY <4>1, <4>4, <4>5 DEF SlicesInv
    <3> QED
      BY <1>0, <3>1, <3>2 DEF SlicesInv, Phase1
  <2> QED
    BY <1>2, <2>1, <2>2, <2>3 DEF Worker
<1>3. CASE CreatePartitionThread
  <2> DEFINE start == Bound(mi, count, NumThreads)
             end == Bound(mi + 1, count, NumThreads)
  <2>1. mpc = "create_partition" /\ next = start
    BY <1>3 DEF CreatePartitionThread, SlicesInv
  <2>2. next + ThreadCount(mi) = end /\ start \in 0 .. count /\ end \in 0 .. count /\ start <= end
    BY <1>0, <2>1, ThreadCountIs
  <2>3. count \in Nat
    BY DEF TuplesInv, count
  <2>4. /\ args' = [args EXCEPT ![mi] = [start |-> start, end |-> end]]
        /\ wpc' = [wpc EXCEPT ![mi] = "partition"]
        /\ at' = [at EXCEPT ![mi] = start]
        /\ from' = [from EXCEPT ![mi] = 0]
        /\ next' = end
        /\ \/ mi + 1 < NumThreads /\ mi' = mi + 1 /\ mpc' = "create_partition"
           \/ ~(mi + 1 < NumThreads) /\ mi' = 0 /\ mpc' = "join_partition"
    BY <1>3, <2>1, <2>2 DEF CreatePartitionThread, Launch, NextThread
  <2> HIDE DEF start, end
  <2>5. ASSUME NEW i \in Threads
        PROVE  /\ args'[i] = IF i = mi THEN [start |-> start, end |-> end] ELSE args[i]
               /\ wpc'[i] = IF i = mi THEN "partition" ELSE wpc[i]
               /\ at'[i] = IF i = mi THEN start ELSE at[i]
               /\ from'[i] = IF i = mi THEN 0 ELSE from[i]
    BY <1>0, <2>4
  <2>6. ASSUME NEW i \in Threads, Phase1(i)', i # mi PROVE Phase1(i)
    BY <1>0, <2>1, <2>4, <2>6 DEF Phase1, Threads
  <2>7. ASSUME NEW i \in Threads, mpc' = "create_partition", mi' <= i PROVE mi <= i /\ i # mi
    BY <1>0, <2>4, <2>7
  <2>8. ASSUME NEW i \in Threads
        PROVE  /\ args'[i].start \in Nat /\ args'[i].end \in Nat
               /\ at'[i] \in args'[i].start .. args'[i].end
               /\ from'[i] \in Threads
               /\ wpc'[i] \in {"none", "partition", "merge", "done"}
               /\ mpc' = "start" \/ (mpc' = "create_partition" /\ mi' <= i) => wpc'[i] = "none"
               /\ Phase1(i)' => /\ args'[i] = [start |-> Bound(i, count, NumThreads),
                                               end |-> Bound(i + 1, count, NumThreads)]
                                /\ wpc'[i] \in {"partition", "done"}
    <3>1. CASE i = mi
      BY <1>0, <2>2, <2>4, <2>5, <2>7, <3>1 DEF start, end
    <3>2. CASE i # mi
      BY <1>0, <2>1, <2>4, <2>5, <2>6, <2>7, <3>2 DEF SlicesInv
    <3> QED
      BY <3>1, <3>2
  <2>9. mpc' = "create_partition" => next' = Bound(mi', count, NumThreads)
    BY <2>4 DEF end
  <2> QED
    BY <1>0, <2>2, <2>4, <2>8, <2>9 DEF SlicesInv
<1>4. CASE CreateMergeThread
  <2> DEFINE bounds == MergeBounds(mi)
  <2>1. /\ mpc = "create_merge" /\ mpc' \in {"create_merge", "join_merge"} /\ next' = next
        /\ args' = [args EXCEPT ![mi] = bounds]
        /\ wpc' = [wpc EXCEPT ![mi] = "merge"]
        /\ at' = [at EXCEPT ![mi] = bounds.start]
        /\ from' = [from EXCEPT ![mi] = 0]
    BY <1>4 DEF CreateMergeThread, Launch, NextThread
  <2>2. bounds.start \in Nat /\ bounds.end \in Nat /\ bounds.start <= bounds.end
    BY <1>0, MergeBoundsRange
  <2> HIDE DEF bounds
  <2>3. ASSUME NEW i \in Threads
        PROVE  /\ args'[i] = IF i = mi THEN bounds ELSE args[i]
               /\ wpc'[i] = IF i = mi THEN "merge" ELSE wpc[i]
               /\ at'[i] = IF i = mi THEN bounds.start ELSE at[i]
               /\ from'[i] = IF i = mi THEN 0 ELSE from[i]
    BY <1>0, <2>1
  <2> QED
    BY <1>0, <2>1, <2>2, <2>3 DEF SlicesInv, Phase1
<1>5. CASE JoinPartitionThread
  <2>1. /\ UNCHANGED <<next, args, wpc, at, from>> /\ mpc = "join_partition"
        /\ mpc' \in {"join_partition", "create_merge"}
    BY <1>5 DEF JoinPartitionThread, NextThread
  <2> QED
    BY <1>0, <2>1 DEF SlicesInv, Phase1
<1>6. CASE JoinMergeThread
  <2>1. /\ UNCHANGED <<next, args, wpc, at, from>> /\ mpc = "join_merge"
        /\ mpc' \in {"join_merge", "count"}
    BY <1>6 DEF JoinMergeThread, NextThread
  <2> QED
    BY <1>0, <2>1 DEF SlicesInv, Phase1
<1>7. CASE StartParallel
  <2>1. UNCHANGED <<mi, next, args, wpc, at, from>> /\ mpc = "start" /\ mpc' = "create_partition"
    BY <1>7 DEF StartParallel
  <2>2. Bound(0, count, NumThreads) = 0
    BY <1>0, BoundEnds DEF TuplesInv, count
  <2>3. \A i \in Threads : ~(i < 0)
    BY <1>0
  <2> QED
    BY <1>0, <2>1, <2>2, <2>3 DEF SlicesInv, Phase1
<1>8. CASE build \/ CountAndPrefix \/ Scatter \/ FillAndFree
  <2>1. UNCHANGED <<mi, next, args, wpc, at, from>> /\ mpc' \in {"built", "scatter", "fill"}
    BY <1>8 DEF build, CountAndPrefix, Scatter, FillAndFree
  <2> QED
    BY <1>0, <2>1 DEF SlicesInv, Phase1
<1> QED
  BY <1>1, <1>2, <1>3, <1>4, <1>5, <1>6, <1>7, <1>8 DEF Next, Built, Caller

(* Which tuples are pending changes only when one is partitioned. *)
LEMMA PendingSame ==
    ASSUME Domains, PhaseInv, TuplesInv, SlicesInv, [Next]_vars, mpc' # "built",
           \A i \in Threads : ~PartitionTuple(i), NEW t \in 1 .. count
    PROVE  Pending(t)' <=> Pending(t)
<1>0. /\ mi \in Threads /\ NumThreads \in Nat \ {0} /\ 0 \in Threads /\ t \in Nat \ {0}
      /\ t <= count /\ count \in Nat
      /\ \A i \in Threads : i \in Nat
      /\ DOMAIN wpc = Threads /\ DOMAIN args = Threads /\ DOMAIN at = Threads
  BY TableAssumption DEF count, Domains, Threads, TuplesInv
<1>1. CASE UNCHANGED vars
  BY <1>1 DEF vars, Pending
<1>2. ASSUME NEW k \in Threads, Worker(k) PROVE Pending(t)' <=> Pending(t)
  <2>1. CASE WorkerReturn(k)
    <3>1. /\ UNCHANGED <<mpc, mi, next, args, at>> /\ ~(at[k] < args[k].end)
          /\ wpc' = [wpc EXCEPT ![k] = "done"]
      BY <2>1 DEF WorkerReturn
    <3>2. ~(at[k] < t /\ t <= args[k].end)
      BY <1>0, <3>1 DEF SlicesInv
    <3>3. \A i \in Threads : /\ wpc'[i] = IF i = k THEN "done" ELSE wpc[i]
      BY <1>0, <3>1
    <3> QED
      BY <3>1, <3>2, <3>3 DEF Pending
  <2>2. CASE MergeList(k)
    <3>1. UNCHANGED <<mpc, mi, next, args, wpc>> /\ wpc[k] = "merge"
      BY <2>2 DEF MergeList
    <3>2. \A i \in Threads : i # k => at'[i] = at[i]
      BY <1>0, <2>2 DEF MergeList
    <3> QED
      BY <3>1, <3>2 DEF Pending
  <2> QED
    BY <1>2, <2>1, <2>2 DEF Worker
<1>3. CASE CreatePartitionThread
  <2> DEFINE start == Bound(mi, count, NumThreads)
             end == Bound(mi + 1, count, NumThreads)
  <2>1. mpc = "create_partition" /\ next = start /\ wpc[mi] = "none"
    BY <1>0, <1>3 DEF CreatePartitionThread, SlicesInv
  <2>2. next + ThreadCount(mi) = end /\ start \in 0 .. count /\ end \in 0 .. count /\ start <= end
    BY <1>0, <2>1, ThreadCountIs
  <2>3. /\ args' = [args EXCEPT ![mi] = [start |-> start, end |-> end]]
        /\ wpc' = [wpc EXCEPT ![mi] = "partition"]
        /\ at' = [at EXCEPT ![mi] = start]
        /\ next' = end
        /\ \/ mi + 1 < NumThreads /\ mi' = mi + 1 /\ mpc' = "create_partition"
           \/ ~(mi + 1 < NumThreads) /\ mi' = 0 /\ mpc' = "join_partition"
    BY <1>3, <2>1, <2>2 DEF CreatePartitionThread, Launch, NextThread
  <2>4. ~(mi + 1 < NumThreads) => end = count
    <3>1. ~(mi + 1 < NumThreads) => mi + 1 = NumThreads
      BY <1>0 DEF Threads
    <3> QED
      BY <1>0, <3>1, BoundEnds
  <2> HIDE DEF start, end
  <2>5. ASSUME NEW i \in Threads
        PROVE  /\ args'[i] = IF i = mi THEN [start |-> start, end |-> end] ELSE args[i]
               /\ wpc'[i] = IF i = mi THEN "partition" ELSE wpc[i]
               /\ at'[i] = IF i = mi THEN start ELSE at[i]
    BY <1>0, <2>3
  <2> DEFINE Remains(i) == wpc[i] = "partition" /\ at[i] < t /\ t <= args[i].end
  <2>6. ASSUME NEW i \in Threads
        PROVE  Remains(i)' <=> IF i = mi THEN start < t /\ t <= end ELSE Remains(i)
    BY <2>5
  <2>7. ~Remains(mi)
    BY <2>1
  <2>8. Pending(t) <=> t > start \/ \E i \in Threads : Remains(i)
    BY <2>1 DEF Pending
  <2>9. Pending(t)' <=> t > end \/ \E i \in Threads : Remains(i)'
    BY <1>0, <2>2, <2>3, <2>4 DEF Pending
  <2>10. start \in Nat /\ end \in Nat
    BY <2>2
  <2> HIDE DEF Remains
  <2> QED
    BY <1>0, <2>2, <2>6, <2>7, <2>8, <2>9, <2>10
<1>4. CASE CreateMergeThread
  <2>1. /\ mpc = "create_merge" /\ mpc' \in {"create_merge", "join_merge"}
        /\ wpc' = [wpc EXCEPT ![mi] = "merge"]
    BY <1>4 DEF CreateMergeThread, Launch, NextThread
  <2>2. \A i \in Threads : wpc[i] # "partition" /\ wpc'[i] # "partition"
    BY <1>0, <2>1 DEF PhaseInv
  <2> QED
    BY <2>1, <2>2 DEF Pending
<1>5. CASE JoinPartitionThread \/ JoinMergeThread
  <2>1. /\ UNCHANGED <<next, args, wpc, at>>
        /\ mpc \notin {"start", "create_partition"} /\ mpc' \notin {"start", "create_partition"}
    BY <1>5 DEF JoinPartitionThread, JoinMergeThread, NextThread
  <2> QED
    BY <2>1 DEF Pending
<1>6. CASE StartParallel
  <2>1. UNCHANGED <<next, args, wpc, at>> /\ mpc = "start" /\ mpc' = "create_partition"
    BY <1>6 DEF StartParallel
  <2>2. next = 0
    BY <2>1 DEF SlicesInv
  <2> QED
    BY <1>0, <2>1, <2>2 DEF Pending
<1>7. CASE CountAndPrefix \/ Scatter
  <2>1. /\ UNCHANGED <<next, args, wpc, at>>
        /\ mpc \notin {"start", "create_partition"} /\ mpc' \notin {"start", "create_partition"}
    BY <1>7 DEF CountAndPrefix, Scatter
  <2> QED
    BY <2>1 DEF Pending
<1>8. CASE build \/ FillAndFree
  BY <1>8 DEF build, FillAndFree
<1> QED
  BY <1>1, <1>2, <1>3, <1>4, <1>5, <1>6, <1>7, <1>8 DEF Next, Built, Caller

-----------------------------------------------------------------------------
(* What the chunk lists hold.                                              *)

Part == [chunk_list : Seq(Seq(Entry)), total_count : Nat]

(* What a list holds, the same tuple not twice. *)
LEMMA ContentsType ==
    ASSUME NEW part \in Part
    PROVE  Contents(part) \in Seq(Entry) /\ Len(Contents(part)) \in Nat
<1>1. part.chunk_list \in Seq(Seq(Entry))
  BY DEF Part
<1>2. FlattenSeq(part.chunk_list) \in Seq(Entry)
  BY <1>1, FlattenRange
<1> QED
  BY <1>2 DEF Contents

LEMMA EmptyList ==
    /\ EmptyPartition \in Part /\ PartitionOK(EmptyPartition)
    /\ Contents(EmptyPartition) = <<>>
<1>1. Contents(EmptyPartition) = <<>>
  BY FlattenNone DEF Contents, EmptyPartition
<1> QED
  BY <1>1 DEF EmptyPartition, Part, PartitionOK

(* An inserted tuple joins those of the list, wherever its chunk is. *)
LEMMA InsertContents ==
    ASSUME NEW part \in Part, PartitionOK(part), NEW e \in Entry
    PROVE  /\ Insert(part, e) \in Part /\ PartitionOK(Insert(part, e))
           /\ Range(Contents(Insert(part, e))) = Range(Contents(part)) \cup {e}
           /\ IsInjective(Contents(part)) /\ e \notin Range(Contents(part))
                => IsInjective(Contents(Insert(part, e)))
<1> DEFINE chunks == part.chunk_list
           new == Insert(part, e)
           list == new.chunk_list
           Good(l) == \A c \in DOMAIN l : l[c] # <<>> /\ Len(l[c]) <= ChunkEntries
<1>1. /\ chunks \in Seq(Seq(Entry)) /\ part.total_count \in Nat /\ Good(chunks)
      /\ part.total_count = Len(Contents(part)) /\ Contents(part) = FlattenSeq(chunks)
      /\ ChunkEntries \in Nat \ {0}
  BY TableAssumption DEF Part, PartitionOK, Contents
<1>2. /\ new = [chunk_list |-> list, total_count |-> part.total_count + 1]
      /\ list = IF chunks = <<>> \/ Len(chunks[1]) = ChunkEntries
                THEN <<<<e>>>> \o chunks
                ELSE [chunks EXCEPT ![1] = Append(@, e)]
  BY DEF Insert
<1>3. <<e>> \in Seq(Entry) /\ Range(<<e>>) = {e} /\ IsInjective(<<e>>) /\ Len(<<e>>) = 1
      /\ <<e>> # <<>>
  BY DEF Range, IsInjective
<1> HIDE DEF new, list, chunks
<1> SUFFICES /\ list \in Seq(Seq(Entry)) /\ Good(list)
             /\ Len(FlattenSeq(list)) = part.total_count + 1
             /\ Range(FlattenSeq(list)) = Range(FlattenSeq(chunks)) \cup {e}
             /\ IsInjective(FlattenSeq(chunks)) /\ e \notin Range(FlattenSeq(chunks))
                  => IsInjective(FlattenSeq(list))
  <2>1. /\ new.chunk_list = list /\ new.total_count = part.total_count + 1
        /\ Contents(new) = FlattenSeq(list) /\ Contents(part) = FlattenSeq(chunks)
    BY <1>1, <1>2 DEF Contents
  <2>2. part.total_count + 1 \in Nat
    BY <1>1
  <2>3. list \in Seq(Seq(Entry)) => new \in Part
    BY <1>2, <2>2 DEF Part
  <2>4. Good(list) /\ Len(FlattenSeq(list)) = part.total_count + 1 => PartitionOK(new)
    BY <2>1 DEF PartitionOK
  <2>5. new = Insert(part, e)
    BY DEF new
  <2> QED
    BY <2>1, <2>3, <2>4, <2>5
<1>4. CASE chunks = <<>> \/ Len(chunks[1]) = ChunkEntries
  <2>1. list = <<<<e>>>> \o chunks /\ <<<<e>>>> \in Seq(Seq(Entry))
    BY <1>2, <1>3, <1>4
  <2>2. FlattenSeq(list) = <<e>> \o FlattenSeq(chunks)
    <3>1. FlattenSeq(<<<<e>>>>) = <<e>>
      BY <1>3, FlattenOne
    <3>2. FlattenSeq(list) = FlattenSeq(<<<<e>>>>) \o FlattenSeq(chunks)
      BY <1>1, <2>1, FlattenConcat
    <3> QED
      BY <3>1, <3>2
  <2>3. FlattenSeq(chunks) \in Seq(Entry)
    BY <1>1, FlattenRange
  <2>4. /\ Range(FlattenSeq(list)) = {e} \cup Range(FlattenSeq(chunks))
        /\ IsInjective(FlattenSeq(chunks)) /\ e \notin Range(FlattenSeq(chunks))
             => IsInjective(FlattenSeq(list))
    <3>1. PICK x : x = <<e>>
      OBVIOUS
    <3>2. PICK y : y = FlattenSeq(chunks)
      OBVIOUS
    <3>3. x \in Seq(Entry) /\ y \in Seq(Entry) /\ Range(x) = {e} /\ IsInjective(x)
      BY <1>3, <2>3, <3>1, <3>2
    <3>4. /\ Range(x \o y) = Range(x) \cup Range(y)
          /\ IsInjective(x) /\ IsInjective(y) /\ Range(x) \cap Range(y) = {}
               => IsInjective(x \o y)
      BY <3>3, ConcatElements
    <3>5. FlattenSeq(list) = x \o y
      BY <2>2, <3>1, <3>2
    <3>6. e \notin Range(y) => Range(x) \cap Range(y) = {}
      BY <3>3
    <3>7. Range(x \o y) = {e} \cup Range(y)
      BY <3>3, <3>4
    <3>8. IsInjective(y) /\ e \notin Range(y) => IsInjective(x \o y)
      BY <3>3, <3>4, <3>6
    <3> QED
      BY <3>2, <3>5, <3>7, <3>8
  <2>5. Len(FlattenSeq(list)) = 1 + Len(FlattenSeq(chunks))
    BY <1>3, <2>2, <2>3
  <2>6. list \in Seq(Seq(Entry)) /\ Good(list)
    <3>1. /\ list \in Seq(Seq(Entry)) /\ DOMAIN list = 1 .. 1 + Len(chunks)
          /\ list[1] = <<e>> /\ \A c \in 1 .. Len(chunks) : list[1 + c] = chunks[c]
      BY <1>1, <2>1
    <3>2. ASSUME NEW c \in DOMAIN list PROVE list[c] # <<>> /\ Len(list[c]) <= ChunkEntries
      <4>1. CASE c = 1
        <5>1. list[c] = <<e>>
          BY <3>1, <4>1
        <5>2. Len(<<e>>) <= ChunkEntries
          BY <1>1, <1>3
        <5> QED
          BY <1>3, <5>1, <5>2
      <4>2. CASE c # 1
        <5>1. c - 1 \in 1 .. Len(chunks) /\ 1 + (c - 1) = c /\ DOMAIN chunks = 1 .. Len(chunks)
          BY SMTT(30), <1>1, <3>1, <4>2
        <5>2. list[c] = chunks[c - 1]
          BY <3>1, <5>1
        <5> QED
          BY <1>1, <5>1, <5>2
      <4> QED
        BY <4>1, <4>2
    <3> QED
      BY <3>1, <3>2
  <2>7. Len(FlattenSeq(chunks)) \in Nat
    BY <2>3
  <2> QED
    BY <1>1, <2>4, <2>5, <2>6, <2>7
<1>5. CASE ~(chunks = <<>> \/ Len(chunks[1]) = ChunkEntries)
  <2> DEFINE first == chunks[1]
             rest == Tail(chunks)
             grown == Append(first, e)
  <2>1. Len(chunks) \in Nat \ {0}
    BY <1>1, <1>5, EmptySeq
  <2>2. /\ first \in Seq(Entry) /\ rest \in Seq(Seq(Entry)) /\ grown \in Seq(Entry)
        /\ <<first>> \in Seq(Seq(Entry)) /\ <<grown>> \in Seq(Seq(Entry))
        /\ Len(rest) = Len(chunks) - 1
        /\ \A c \in 1 .. Len(chunks) - 1 : rest[c] = chunks[c + 1]
    BY <1>1, <2>1
  <2>3. list = [chunks EXCEPT ![1] = grown]
    BY <1>2, <1>5
  <2>4. grown = first \o <<e>> /\ Len(grown) = Len(first) + 1
    BY <2>2, <1>3, AppendIsConcat
  <2> HIDE DEF first, rest, grown
  <2>5. chunks = <<first>> \o rest
    <3>1. chunks \in Seq(Seq(Entry)) /\ <<first>> \o rest \in Seq(Seq(Entry))
      BY <1>1, <2>2
    <3>2. Len(<<first>> \o rest) = Len(chunks)
      BY <2>1, <2>2
    <3>3. ASSUME NEW c \in 1 .. Len(chunks) PROVE chunks[c] = (<<first>> \o rest)[c]
      <4>1. CASE c = 1
        BY <2>2, <4>1 DEF first
      <4>2. CASE c # 1
        <5>1. c - 1 \in 1 .. Len(chunks) - 1 /\ (c - 1) + 1 = c
          BY <2>1, <4>2
        <5>2. (<<first>> \o rest)[c] = rest[c - 1]
          BY <2>1, <2>2, <4>2
        <5> QED
          BY <2>2, <5>1, <5>2
      <4> QED
        BY <4>1, <4>2
    <3> QED
      BY <3>1, <3>2, <3>3, SeqEqual
  <2>6. list \in Seq(Seq(Entry)) /\ Len(list) = Len(chunks)
        /\ list[1] = grown /\ \A c \in 2 .. Len(chunks) : list[c] = chunks[c]
    BY <1>1, <2>1, <2>2, <2>3
  <2>7. list = <<grown>> \o rest
    <3>1. <<grown>> \o rest \in Seq(Seq(Entry))
      BY <2>2
    <3>2. Len(<<grown>> \o rest) = Len(chunks)
      BY <2>1, <2>2
    <3>3. ASSUME NEW c \in 1 .. Len(chunks) PROVE list[c] = (<<grown>> \o rest)[c]
      BY SMTT(30), <2>1, <2>2, <2>6
    <3> QED
      BY <2>6, <3>1, <3>2, <3>3, SeqEqual
  <2>8. /\ FlattenSeq(chunks) = first \o FlattenSeq(rest)
        /\ FlattenSeq(list) = grown \o FlattenSeq(rest)
        /\ FlattenSeq(rest) \in Seq(Entry)
    <3>1. FlattenSeq(<<first>>) = first
      BY <2>2, FlattenOne
    <3>2. FlattenSeq(<<grown>>) = grown
      BY <2>2, FlattenOne
    <3>3. FlattenSeq(<<first>> \o rest) = FlattenSeq(<<first>>) \o FlattenSeq(rest)
      BY <2>2, FlattenConcat
    <3>4. FlattenSeq(<<grown>> \o rest) = FlattenSeq(<<grown>>) \o FlattenSeq(rest)
      BY <2>2, FlattenConcat
    <3>5. FlattenSeq(rest) \in Seq(Entry)
      BY <2>2, FlattenRange
    <3> QED
      BY <2>5, <2>7, <3>1, <3>2, <3>3, <3>4, <3>5
  <2>9. /\ Len(FlattenSeq(list)) = Len(grown) + Len(FlattenSeq(rest))
        /\ Len(FlattenSeq(chunks)) = Len(first) + Len(FlattenSeq(rest))
        /\ Len(first) \in Nat /\ Len(FlattenSeq(rest)) \in Nat
    BY <2>2, <2>8
  <2>10. /\ Range(FlattenSeq(list)) = Range(grown) \cup Range(FlattenSeq(rest))
         /\ Range(FlattenSeq(chunks)) = Range(first) \cup Range(FlattenSeq(rest))
         /\ IsInjective(grown) /\ IsInjective(FlattenSeq(rest))
              /\ Range(grown) \cap Range(FlattenSeq(rest)) = {}
              => IsInjective(FlattenSeq(list))
    BY <2>2, <2>8, ConcatElements
  <2>11. /\ Range(grown) = Range(first) \cup {e}
         /\ IsInjective(first) /\ e \notin Range(first) => IsInjective(grown)
    <3>1. PICK x : x = <<e>>
      OBVIOUS
    <3>2. x \in Seq(Entry) /\ Range(x) = {e} /\ IsInjective(x) /\ grown = first \o x
      BY <1>3, <2>4, <3>1
    <3>3. /\ Range(first \o x) = Range(first) \cup Range(x)
          /\ IsInjective(first) /\ IsInjective(x) /\ Range(first) \cap Range(x) = {}
               => IsInjective(first \o x)
      BY <2>2, <3>2, ConcatElements
    <3>4. e \notin Range(first) => Range(first) \cap Range(x) = {}
      BY <3>2
    <3> QED
      BY <3>2, <3>3, <3>4
  <2>12. IsInjective(FlattenSeq(chunks)) =>
           /\ IsInjective(first) /\ IsInjective(FlattenSeq(rest))
           /\ Range(first) \cap Range(FlattenSeq(rest)) = {}
    BY <2>2, <2>8, ConcatParts
  <2>13. Good(list)
    <3>1. Len(grown) <= ChunkEntries /\ grown # <<>>
      <4>1. 1 \in DOMAIN chunks
        BY <1>1, <2>1
      <4>2. Len(first) <= ChunkEntries /\ Len(first) # ChunkEntries
        BY <1>1, <1>5, <4>1 DEF first
      <4> QED
        BY <1>1, <2>2, <2>4, <2>9, <4>2, EmptySeq
    <3>2. DOMAIN list = 1 .. Len(chunks) /\ DOMAIN chunks = 1 .. Len(chunks)
      BY <1>1, <2>6
    <3>3. \A c \in 1 .. Len(chunks) : c = 1 \/ c \in 2 .. Len(chunks)
      BY <2>1
    <3> QED
      BY <1>1, <2>6, <3>1, <3>2, <3>3
  <2> QED
    <3>1. Len(FlattenSeq(list)) = part.total_count + 1
      BY <1>1, <2>4, <2>9
    <3>2. Range(FlattenSeq(list)) = Range(FlattenSeq(chunks)) \cup {e}
      BY <2>10, <2>11
    <3>3. IsInjective(FlattenSeq(chunks)) /\ e \notin Range(FlattenSeq(chunks))
            => IsInjective(FlattenSeq(list))
      BY <2>10, <2>11, <2>12
    <3> QED
      BY <2>6, <2>13, <3>1, <3>2, <3>3
<1> QED
  BY <1>4, <1>5

(* A list handed over follows what the global list held. *)
LEMMA LinkContents ==
    ASSUME NEW glob \in Part, PartitionOK(glob), NEW part \in Part, PartitionOK(part)
    PROVE  /\ Link(glob, part) \in Part /\ PartitionOK(Link(glob, part))
           /\ Contents(Link(glob, part)) = Contents(glob) \o Contents(part)
<1> DEFINE a == glob.chunk_list
           b == part.chunk_list
           Good(l) == \A c \in DOMAIN l : l[c] # <<>> /\ Len(l[c]) <= ChunkEntries
<1>1. /\ a \in Seq(Seq(Entry)) /\ b \in Seq(Seq(Entry)) /\ Good(a) /\ Good(b)
      /\ glob.total_count \in Nat /\ part.total_count \in Nat
      /\ glob.total_count = Len(Contents(glob)) /\ part.total_count = Len(Contents(part))
      /\ Contents(glob) = FlattenSeq(a) /\ Contents(part) = FlattenSeq(b)
      /\ Contents(glob) \in Seq(Entry) /\ Contents(part) \in Seq(Entry)
  BY ContentsType DEF Part, PartitionOK, Contents
<1>2. CASE b = <<>>
  <2>1. Contents(part) = <<>>
    BY <1>1, <1>2, FlattenNone
  <2>2. Contents(glob) \o <<>> = Contents(glob)
    BY <1>1, ConcatEmptySeq
  <2>3. Link(glob, part) = glob
    BY <1>2 DEF Link
  <2> QED
    BY <2>1, <2>2, <2>3
<1>3. CASE b # <<>>
  <2> DEFINE new == [chunk_list |-> a \o b, total_count |-> glob.total_count + part.total_count]
  <2>1. Link(glob, part) = new
    BY <1>3 DEF Link
  <2>2. FlattenSeq(a \o b) = FlattenSeq(a) \o FlattenSeq(b)
    BY <1>1, FlattenConcat
  <2>3. /\ a \o b \in Seq(Seq(Entry)) /\ DOMAIN (a \o b) = 1 .. Len(a) + Len(b)
        /\ \A c \in 1 .. Len(a) : (a \o b)[c] = a[c]
        /\ \A c \in 1 .. Len(b) : (a \o b)[Len(a) + c] = b[c]
        /\ Len(a) \in Nat /\ Len(b) \in Nat /\ DOMAIN a = 1 .. Len(a) /\ DOMAIN b = 1 .. Len(b)
    <3> HIDE DEF a, b
    <3>1. Len(a) \in Nat /\ Len(b) \in Nat /\ DOMAIN a = 1 .. Len(a) /\ DOMAIN b = 1 .. Len(b)
      BY <1>1
    <3> QED
      BY <1>1, <3>1, Concatenation
  <2>4. Good(a \o b)
    <3>1. ASSUME NEW c \in 1 .. Len(a) + Len(b)
          PROVE  \/ c \in 1 .. Len(a)
                 \/ c - Len(a) \in 1 .. Len(b) /\ Len(a) + (c - Len(a)) = c
      <4>1. PICK n, k : n = Len(a) /\ k = Len(b)
        OBVIOUS
      <4>2. n \in Nat /\ k \in Nat /\ c \in 1 .. n + k
        BY <2>3, <4>1
      <4>3. c \in 1 .. n \/ (c - n \in 1 .. k /\ n + (c - n) = c)
        BY <4>2
      <4> QED
        BY <4>1, <4>3
    <3> HIDE DEF a, b
    <3>2. ASSUME NEW c \in 1 .. Len(a) + Len(b)
          PROVE  (a \o b)[c] # <<>> /\ Len((a \o b)[c]) <= ChunkEntries
      <4>1. CASE c \in 1 .. Len(a)
        BY <1>1, <2>3, <4>1
      <4>2. CASE c - Len(a) \in 1 .. Len(b) /\ Len(a) + (c - Len(a)) = c
        <5>1. (a \o b)[c] = b[c - Len(a)]
          BY <2>3, <4>2
        <5> QED
          BY <1>1, <2>3, <4>2, <5>1
      <4> QED
        BY <3>1, <4>1, <4>2
    <3> QED
      BY <2>3, <3>2
  <2>5. Len(Contents(glob) \o Contents(part)) = glob.total_count + part.total_count
    BY <1>1
  <2>6. Contents(new) = Contents(glob) \o Contents(part)
    BY <1>1, <2>2 DEF Contents
  <2>7. new \in Part
    BY <1>1, <2>3 DEF Part
  <2>8. PartitionOK(new)
    BY <2>4, <2>5, <2>6 DEF PartitionOK
  <2> QED
    BY <2>1, <2>6, <2>7, <2>8
<1> QED
  BY <1>2, <1>3

(* The top bits of a slot name a partition. *)
LEMMA PartitionInRange ==
    ASSUME TuplesInv, NEW key \in Keys
    PROVE  getPartition(key) \in Partitions
<1> DEFINE q == DirSize \div NumPartitions
           d == dirHash[key]
           r == DirSize % NumPartitions
<1>1. d \in 0 .. DirSize - 1 /\ DirSize \in Nat \ {0} /\ NumPartitions \in Nat \ {0} /\ r = 0
  BY TableAssumption DEF TuplesInv, Slots
<1>2. q \in Nat /\ DirSize = NumPartitions * q + r
  BY <1>1, DivMod
<1> HIDE DEF q, d, r
<1>3. q # 0 /\ DirSize = NumPartitions * q
  <2>1. NumPartitions * 0 = 0
    BY <1>1
  <2> QED
    BY <1>1, <1>2, <2>1
<1> DEFINE m == d \div q
           x == d % q
<1>4. m \in Nat /\ x \in Nat /\ d = q * m + x
  BY <1>1, <1>2, <1>3, DivMod
<1> HIDE DEF m, x
<1>5. m < NumPartitions
  <2>1. CASE NumPartitions < m
    <3>1. q * NumPartitions \in Nat /\ q * m \in Nat
      BY <1>1, <1>2, <1>4
    <3>2. NumPartitions * q <= m * q
      BY <1>1, <1>2, <1>4, <2>1, MulStep
    <3>3. m * q = q * m
      BY <1>2, <1>4
    <3> QED
      BY <1>1, <1>3, <1>4, <3>1, <3>2, <3>3
  <2>2. CASE m = NumPartitions
    <3>1. q * m = NumPartitions * q
      BY <1>1, <1>2, <2>2
    <3> QED
      BY <1>1, <1>3, <1>4, <3>1
  <2> QED
    BY <1>1, <1>4, <2>1, <2>2
<1>6. getPartition(key) = m
  BY DEF getPartition, m, q, d
<1> QED
  BY <1>1, <1>4, <1>5, <1>6 DEF Partitions

(* A thread of the first phase takes the next pending tuple of its slice.  *)
LEMMA PendingPartition ==
    ASSUME Domains, PhaseInv, TuplesInv, SlicesInv, NEW k \in Threads, PartitionTuple(k)
    PROVE  /\ at[k] + 1 \in 1 .. count /\ Pending(at[k] + 1)
           /\ \A t \in 1 .. count : Pending(t)' <=> Pending(t) /\ t # at[k] + 1
<1>1. /\ wpc[k] = "partition" /\ at[k] < args[k].end
      /\ UNCHANGED <<mpc, mi, next, args, wpc>> /\ at' = [at EXCEPT ![k] = at[k] + 1]
  BY DEF PartitionTuple
<1>2. /\ mi \in Threads /\ NumThreads \in Nat \ {0} /\ count \in Nat
      /\ \A i \in Threads : i \in Nat /\ i \in 0 .. NumThreads - 1
      /\ DOMAIN at = Threads
  BY TableAssumption DEF Domains, Threads, TuplesInv, count
<1>3. mpc \in {"create_partition", "join_partition"}
  BY <1>1 DEF PhaseInv
<1>4. ASSUME NEW i \in Threads, wpc[i] = "partition"
      PROVE  /\ mpc = "join_partition" \/ i < mi
             /\ args[i].end = Bound(i + 1, count, NumThreads)
             /\ at[i] \in Bound(i, count, NumThreads) .. Bound(i + 1, count, NumThreads)
             /\ Bound(i, count, NumThreads) \in Nat
             /\ Bound(i + 1, count, NumThreads) \in 0 .. count
  <2>1. mpc = "join_partition" \/ i < mi
    <3>1. i \in Nat /\ mi \in Nat
      BY <1>2
    <3>2. ~ (mpc = "create_partition" /\ mi <= i)
      BY <1>4 DEF SlicesInv
    <3> QED
      BY <1>3, <3>1, <3>2
  <2>2. Phase1(i)
    BY <1>3, <2>1 DEF Phase1
  <2>3. Bound(i, count, NumThreads) \in Nat /\ Bound(i + 1, count, NumThreads) \in 0 .. count
    BY <1>2, BoundRange
  <2>4. args[i] = [start |-> Bound(i, count, NumThreads),
                   end |-> Bound(i + 1, count, NumThreads)]
    BY <2>2 DEF SlicesInv
  <2>5. at[i] \in args[i].start .. args[i].end
    BY DEF SlicesInv
  <2> QED
    BY <2>1, <2>3, <2>4, <2>5
<1>5. PICK n : n = at[k]
  OBVIOUS
<1>6. /\ n \in Nat /\ n + 1 <= Bound(k + 1, count, NumThreads)
      /\ Bound(k, count, NumThreads) <= n /\ n \in Slice(k, count, NumThreads)
      /\ n + 1 \in 1 .. count
  <2>1. PICK a, b : a = Bound(k, count, NumThreads) /\ b = Bound(k + 1, count, NumThreads)
    OBVIOUS
  <2>2. a \in Nat /\ b \in 0 .. count /\ n \in a .. b /\ n < b
    BY <1>1, <1>4, <1>5, <2>1
  <2>3. n \in Nat /\ n + 1 <= b /\ a <= n /\ n + 1 \in 1 .. count
    BY <1>2, <2>2
  <2>4. n \in Slice(k, count, NumThreads)
    BY <2>1, <2>2, <2>3 DEF Slice
  <2> QED
    BY <2>1, <2>3, <2>4
<1>7. at'[k] = n + 1 /\ \A i \in Threads : i # k => at'[i] = at[i]
  BY <1>1, <1>2, <1>5
<1>8. ~ (mpc = "create_partition" /\ n + 1 > next)
  <2> SUFFICES ASSUME mpc = "create_partition" PROVE n + 1 <= next
    BY <1>6 DEF SlicesInv
  <2>1. next = Bound(mi, count, NumThreads) /\ k < mi
    BY <1>1, <1>4 DEF SlicesInv
  <2>2. Bound(k + 1, count, NumThreads) <= Bound(mi, count, NumThreads)
    BY <1>2, <2>1, BoundMonotone
  <2>3. Bound(k + 1, count, NumThreads) \in Nat /\ Bound(mi, count, NumThreads) \in Nat
    <3>1. Bound(k + 1, count, NumThreads) \in Nat
      BY <1>1, <1>2, <1>4
    <3> QED
      BY <1>2, <2>1, <3>1 DEF SlicesInv
  <2> QED
    BY <1>6, <2>1, <2>2, <2>3
<1> DEFINE Remains(i, t) == wpc[i] = "partition" /\ at[i] < t /\ t <= args[i].end
<1>9. ASSUME NEW i \in Threads, i # k PROVE ~Remains(i, n + 1)
  <2> SUFFICES ASSUME wpc[i] = "partition", at[i] < n + 1, n + 1 <= args[i].end PROVE FALSE
    OBVIOUS
  <2>1. n \in Slice(i, count, NumThreads)
    <3>1. PICK a, b : a = Bound(i, count, NumThreads) /\ b = Bound(i + 1, count, NumThreads)
      OBVIOUS
    <3>2. a \in Nat /\ b \in 0 .. count /\ at[i] \in a .. b /\ n + 1 <= b
      BY <1>4, <3>1
    <3>3. a <= n /\ n < b
      BY <1>2, <1>6, <3>2
    <3> QED
      BY <1>6, <3>1, <3>3 DEF Slice
  <2> QED
    BY <1>2, <1>6, <1>9, <2>1, SlicesDisjoint
<1>10. \A t \in 1 .. count : Pending(t) <=>
          (mpc = "create_partition" /\ t > next) \/ \E i \in Threads : Remains(i, t)
  BY <1>3 DEF Pending
<1>11. \A t \in 1 .. count : Pending(t)' <=>
          (mpc = "create_partition" /\ t > next) \/ \E i \in Threads : Remains(i, t)'
  BY <1>1, <1>3 DEF Pending
<1>12. Remains(k, n + 1)
  <2>1. args[k].end = Bound(k + 1, count, NumThreads) /\ at[k] = n
    BY <1>1, <1>4, <1>5
  <2> QED
    BY <1>1, <1>6, <2>1
<1>13. ASSUME NEW i \in Threads, NEW t \in 1 .. count
       PROVE  Remains(i, t)' <=> Remains(i, t) /\ t # n + 1
  <2>1. CASE i = k
    <3>1. Remains(k, t)' <=> n + 1 < t /\ t <= args[k].end
      BY <1>1, <1>7
    <3>2. Remains(k, t) <=> n < t /\ t <= args[k].end
      BY <1>1, <1>5
    <3> QED
      BY <1>2, <1>6, <2>1, <3>1, <3>2
  <2>2. CASE i # k
    <3>1. Remains(i, t)' <=> Remains(i, t)
      BY <1>1, <1>7, <2>2
    <3> QED
      BY <1>9, <2>2, <3>1
  <2> QED
    BY <2>1, <2>2
<1> HIDE DEF Remains
<1>14. \A t \in 1 .. count : Pending(t)' <=> Pending(t) /\ t # n + 1
  BY <1>8, <1>10, <1>11, <1>13
<1> QED
  BY <1>5, <1>6, <1>10, <1>12, <1>14

-----------------------------------------------------------------------------
(* Where the tuples are until the chunks are freed.                        *)

Held(h, p) == Range(Contents(List(h, p)))

(* The lists are well formed. *)
ListsInv ==
    /\ DOMAIN global = Partitions
    /\ \A h \in Holders, p \in Partitions :
         List(h, p) \in Part /\ PartitionOK(List(h, p))

(* No list holds a tuple twice, nor do two; a list holds only partitioned  *)
(* tuples of its partition, and every partitioned tuple is held.           *)
HeldInv ==
    /\ \A h \in Holders, p \in Partitions : IsInjective(Contents(List(h, p)))
    /\ \A h, k \in Holders, p \in Partitions : h # k => Held(h, p) \cap Held(k, p) = {}
    /\ \A h \in Holders, p \in Partitions : \A e \in Held(h, p) :
         \E t \in 1 .. count : ~Pending(t) /\ e = temp_keys_pos[t] /\ p = getPartition(e.key)
    /\ \A t \in 1 .. count : ~Pending(t) =>
         \E h \in Holders : temp_keys_pos[t] \in Held(h, getPartition(temp_keys_pos[t].key))

WorkInv == mpc # "built" => HeldInv

(* Steps that touch no list keep where the tuples are. *)
LEMMA HeldFrame ==
    ASSUME HeldInv, UNCHANGED <<temp_keys_pos, dirHash, local, global>>,
           \A t \in 1 .. count : Pending(t)' <=> Pending(t)
    PROVE  HeldInv'
<1>1. count' = count
  BY DEF count
<1>2. \A h, p : List(h, p)' = List(h, p)
  BY DEF List
<1>3. \A h, p : Held(h, p)' = Held(h, p) /\ Contents(List(h, p))' = Contents(List(h, p))
  BY <1>2 DEF Held, Contents
<1>4. \A key : getPartition(key)' = getPartition(key)
  BY DEF getPartition
<1> QED
  BY <1>1, <1>3, <1>4 DEF HeldInv

(* Which list the insertion of a tuple changes. *)
LEMMA PartitionUpdates ==
    ASSUME Domains, PhaseInv, TuplesInv, SlicesInv, NEW k \in Threads, PartitionTuple(k),
           NEW e, e = temp_keys_pos[at[k] + 1]
    PROVE  /\ e \in Entry /\ getPartition(e.key) \in Partitions /\ k \in Holders
           /\ \A h \in Holders, p \in Partitions :
                List(h, p)' = IF h = k /\ p = getPartition(e.key)
                              THEN Insert(List(h, p), e) ELSE List(h, p)
<1>1. /\ local' = [local EXCEPT ![k][getPartition(e.key)] = Insert(@, e)] /\ global' = global
      /\ DOMAIN local = Threads /\ \A i \in Threads : DOMAIN local[i] = Partitions
  BY DEF PartitionTuple, Domains
<1>2. /\ k \in Holders /\ k # NumThreads
      /\ \A h \in Holders : h # NumThreads => h \in Threads
  BY TableAssumption DEF Holders, Threads
<1>3. e \in Entry
  <2>1. at[k] + 1 \in 1 .. Len(temp_keys_pos)
    BY PendingPartition DEF count
  <2> QED
    BY <2>1 DEF TuplesInv
<1>4. getPartition(e.key) \in Partitions
  BY <1>3, PartitionInRange DEF Entry
<1>5. ASSUME NEW i \in Threads, NEW p \in Partitions
      PROVE  local'[i][p] = IF i = k /\ p = getPartition(e.key)
                            THEN Insert(local[i][p], e) ELSE local[i][p]
  BY <1>1, <1>4
<1>6. ASSUME NEW h \in Holders, NEW p \in Partitions
      PROVE  List(h, p)' = IF h = k /\ p = getPartition(e.key)
                           THEN Insert(List(h, p), e) ELSE List(h, p)
  <2>1. CASE h = NumThreads
    BY <1>1, <1>2, <2>1 DEF List
  <2>2. CASE h # NumThreads
    BY <1>2, <1>5, <2>2 DEF List
  <2> QED
    BY <2>1, <2>2
<1> QED
  BY <1>2, <1>3, <1>4, <1>6

(* Which lists a merge step changes. *)
LEMMA MergeUpdates ==
    ASSUME Domains, PhaseInv, MergeInv, ListsInv, NEW k \in Threads, MergeList(k),
           NEW q, q = at[k], NEW j, j = from[k]
    PROVE  /\ q \in Partitions /\ j \in Holders /\ j # NumThreads /\ NumThreads \in Holders
           /\ List(NumThreads, q)' = Link(List(NumThreads, q), List(j, q))
           /\ List(j, q)' = EmptyPartition
           /\ \A h \in Holders, p \in Partitions :
                p # q \/ (h # j /\ h # NumThreads) => List(h, p)' = List(h, p)
           /\ DOMAIN global' = Partitions
<1>1. /\ wpc[k] = "merge" /\ at[k] < args[k].end
      /\ global' = [global EXCEPT ![q] = Link(global[q], local[j][q])]
      /\ local' = [local EXCEPT ![j][q] = EmptyPartition]
  BY DEF MergeList
<1>2. MergeOf(k)
  BY <1>1 DEF PhaseInv, MergeInv
<1>3. args[k].end \in Nat /\ args[k].end <= NumPartitions
  BY <1>2, MergeBoundsRange DEF MergeOf
<1>4. q \in Partitions /\ j \in Threads
  BY <1>1, <1>2, <1>3, TableAssumption DEF MergeOf, Partitions
<1>5. /\ j \in Holders /\ j # NumThreads /\ NumThreads \in Holders
      /\ \A h \in Holders : h # NumThreads => h \in Threads
  BY <1>4, TableAssumption DEF Holders, Threads
<1>6. /\ DOMAIN local = Threads /\ \A i \in Threads : DOMAIN local[i] = Partitions
      /\ DOMAIN global = Partitions
  BY DEF Domains, ListsInv
<1>7. ASSUME NEW i \in Threads, NEW p \in Partitions
      PROVE  local'[i][p] = IF i = j /\ p = q THEN EmptyPartition ELSE local[i][p]
  BY <1>1, <1>4, <1>6
<1>8. ASSUME NEW p \in Partitions
      PROVE  global'[p] = IF p = q THEN Link(global[q], local[j][q]) ELSE global[p]
  BY <1>1, <1>4, <1>6
<1>9. ASSUME NEW h \in Holders, NEW p \in Partitions, p # q \/ (h # j /\ h # NumThreads)
      PROVE  List(h, p)' = List(h, p)
  <2>1. CASE h = NumThreads
    BY <1>8, <1>9, <2>1 DEF List
  <2>2. CASE h # NumThreads
    BY <1>5, <1>7, <1>9, <2>2 DEF List
  <2> QED
    BY <2>1, <2>2
<1>10. List(NumThreads, q)' = Link(List(NumThreads, q), List(j, q))
  BY <1>4, <1>5, <1>8 DEF List
<1>11. List(j, q)' = EmptyPartition
  BY <1>4, <1>5, <1>7 DEF List
<1> QED
  BY <1>1, <1>4, <1>5, <1>6, <1>9, <1>10, <1>11

LEMMA ListsInit == Init => ListsInv /\ WorkInv
<1> SUFFICES ASSUME Init PROVE ListsInv /\ HeldInv
  BY DEF WorkInv
<1>1. DOMAIN global = Partitions
  BY DEF Init
<1>2. ASSUME NEW h \in Holders, NEW p \in Partitions PROVE List(h, p) = EmptyPartition
  <2>1. h # NumThreads => h \in Threads
    BY TableAssumption DEF Holders, Threads
  <2> QED
    BY <2>1 DEF Init, List
<1>3. ListsInv
  BY <1>1, <1>2, EmptyList DEF ListsInv
<1>4. \A h \in Holders, p \in Partitions : Held(h, p) = {} /\ IsInjective(Contents(List(h, p)))
  BY <1>2, EmptyList DEF Held, Range, IsInjective
<1>5. \A t \in 1 .. count : Pending(t)
  BY DEF Init, Pending
<1> QED
  BY <1>3, <1>4, <1>5 DEF HeldInv

(* Every step but the merge of a list and the insertion of a tuple leaves  *)
(* the lists alone, or frees them all.                                     *)
LEMMA OtherSteps ==
    ASSUME [Next]_vars, \A k \in Threads : ~PartitionTuple(k) /\ ~MergeList(k)
    PROVE  UNCHANGED <<local, global>> \/ FillAndFree
BY DEF Next, vars, Built, Caller, Worker, build, StartParallel, CreatePartitionThread,
       JoinPartitionThread, CreateMergeThread, JoinMergeThread, CountAndPrefix, Scatter,
       WorkerReturn

LEMMA ListsStep ==
    Domains /\ PhaseInv /\ MergeInv /\ TuplesInv /\ SlicesInv /\ ListsInv /\ [Next]_vars
      => ListsInv'
<1> SUFFICES ASSUME Domains, PhaseInv, MergeInv, TuplesInv, SlicesInv, ListsInv, [Next]_vars
             PROVE  ListsInv'
  OBVIOUS
<1>1. ASSUME NEW k \in Threads, PartitionTuple(k) PROVE ListsInv'
  <2>1. PICK e : e = temp_keys_pos[at[k] + 1]
    OBVIOUS
  <2>2. /\ e \in Entry
        /\ \A h \in Holders, p \in Partitions :
                List(h, p)' = IF h = k /\ p = getPartition(e.key)
                              THEN Insert(List(h, p), e) ELSE List(h, p)
    BY <1>1, <2>1, PartitionUpdates
  <2>3. DOMAIN global' = Partitions
    BY <1>1 DEF PartitionTuple, ListsInv
  <2>4. ASSUME NEW h \in Holders, NEW p \in Partitions
        PROVE  List(h, p)' \in Part /\ PartitionOK(List(h, p)')
    BY <2>2, InsertContents DEF ListsInv
  <2> QED
    BY <2>3, <2>4 DEF ListsInv, PartitionOK, Contents
<1>2. ASSUME NEW k \in Threads, MergeList(k) PROVE ListsInv'
  <2>1. PICK q, j : q = at[k] /\ j = from[k]
    OBVIOUS
  <2>2. /\ q \in Partitions /\ j \in Holders /\ j # NumThreads /\ NumThreads \in Holders
        /\ List(NumThreads, q)' = Link(List(NumThreads, q), List(j, q))
        /\ List(j, q)' = EmptyPartition
        /\ \A h \in Holders, p \in Partitions :
             p # q \/ (h # j /\ h # NumThreads) => List(h, p)' = List(h, p)
        /\ DOMAIN global' = Partitions
    BY <1>2, <2>1, MergeUpdates
  <2>3. \A h \in Holders, p \in Partitions :
          List(h, p) \in Part /\ PartitionOK(List(h, p))
    BY DEF ListsInv
  <2>4. ASSUME NEW h \in Holders, NEW p \in Partitions
        PROVE  List(h, p)' \in Part /\ PartitionOK(List(h, p)')
    <3>1. CASE p = q /\ h = NumThreads
      BY <2>2, <2>3, <3>1, LinkContents
    <3>2. CASE p = q /\ h = j
      BY <2>2, <3>2, EmptyList
    <3>3. CASE p # q \/ (h # j /\ h # NumThreads)
      BY <2>2, <2>3, <3>3
    <3> QED
      BY <3>1, <3>2, <3>3
  <2> QED
    BY <2>2, <2>4 DEF ListsInv, PartitionOK, Contents
<1>3. CASE UNCHANGED <<local, global>>
  BY <1>3 DEF ListsInv, List, PartitionOK, Contents
<1>4. CASE FillAndFree
  <2>1. ASSUME NEW h \in Holders, NEW p \in Partitions PROVE List(h, p)' = EmptyPartition
    <3>1. h # NumThreads => h \in Threads
      BY TableAssumption DEF Holders, Threads
    <3> QED
      BY <1>4, <3>1 DEF FillAndFree, List
  <2>2. DOMAIN global' = Partitions
    BY <1>4 DEF FillAndFree
  <2> QED
    BY <2>1, <2>2, EmptyList DEF ListsInv, PartitionOK, Contents
<1> QED
  BY <1>1, <1>2, <1>3, <1>4, OtherSteps

(* Two tuples of the input differ in their position. *)
LEMMA TuplesDiffer ==
    ASSUME TuplesInv, NEW t \in 1 .. count, NEW u \in 1 .. count,
           temp_keys_pos[t] = temp_keys_pos[u]
    PROVE  t = u
<1>1. temp_keys_pos[t].key_pos = t - 1 /\ temp_keys_pos[u].key_pos = u - 1
  BY DEF TuplesInv
<1> QED
  BY <1>1

(* An inserted tuple was nowhere and is then in its thread's list. *)
LEMMA HeldPartition ==
    ASSUME Domains, PhaseInv, TuplesInv, SlicesInv, ListsInv, HeldInv,
           NEW k \in Threads, PartitionTuple(k)
    PROVE  HeldInv'
<1>1. PICK n, e : n = at[k] + 1 /\ e = temp_keys_pos[n]
  OBVIOUS
<1>2. PICK q : q = getPartition(e.key)
  OBVIOUS
<1>3. /\ n \in 1 .. count /\ Pending(n)
      /\ \A t \in 1 .. count : Pending(t)' <=> Pending(t) /\ t # n
  BY <1>1, PendingPartition
<1>4. /\ e \in Entry /\ q \in Partitions /\ k \in Holders
      /\ \A h \in Holders, p \in Partitions :
           List(h, p)' = IF h = k /\ p = q THEN Insert(List(h, p), e) ELSE List(h, p)
  BY <1>1, <1>2, PartitionUpdates
<1>5. UNCHANGED <<temp_keys_pos, dirHash>> /\ count' = count
  BY DEF PartitionTuple, count
<1>6. \A key : getPartition(key)' = getPartition(key)
  BY <1>5 DEF getPartition
<1>7. ASSUME NEW h \in Holders, NEW p \in Partitions PROVE e \notin Held(h, p)
  <2> SUFFICES ASSUME e \in Held(h, p) PROVE FALSE
    OBVIOUS
  <2>1. PICK t \in 1 .. count : ~Pending(t) /\ e = temp_keys_pos[t]
    BY DEF HeldInv
  <2>2. t = n
    BY <1>1, <1>3, <2>1, TuplesDiffer
  <2> QED
    BY <1>3, <2>1, <2>2
<1>8. List(k, q) \in Part /\ PartitionOK(List(k, q))
  BY <1>4 DEF ListsInv
<1>9. PICK new : new = Insert(List(k, q), e)
  OBVIOUS
<1>10. /\ Range(Contents(new)) = Held(k, q) \cup {e}
       /\ IsInjective(Contents(new))
  BY <1>4, <1>7, <1>8, <1>9, InsertContents DEF Held, HeldInv
<1>11. /\ List(k, q)' = new
       /\ \A h \in Holders, p \in Partitions : h # k \/ p # q => List(h, p)' = List(h, p)
  BY <1>4, <1>9
<1>12. /\ Held(k, q)' = Held(k, q) \cup {e} /\ IsInjective(Contents(List(k, q)))'
       /\ \A h \in Holders, p \in Partitions : h # k \/ p # q =>
            Held(h, p)' = Held(h, p) /\ Contents(List(h, p))' = Contents(List(h, p))
  BY <1>10, <1>11 DEF Held, Contents
<1>13. \A h \in Holders, p \in Partitions : Held(h, p) \subseteq Held(h, p)'
  BY <1>12
<1>14. \A h \in Holders, p \in Partitions : IsInjective(Contents(List(h, p)))'
  <2> SUFFICES ASSUME NEW h \in Holders, NEW p \in Partitions
               PROVE  IsInjective(Contents(List(h, p)))'
    OBVIOUS
  <2>1. CASE h = k /\ p = q
    BY <1>12, <2>1
  <2>2. CASE h # k \/ p # q
    BY <1>12, <2>2 DEF HeldInv
  <2> QED
    BY <2>1, <2>2
<1>15. \A h, j \in Holders, p \in Partitions : h # j => Held(h, p)' \cap Held(j, p)' = {}
  <2> SUFFICES ASSUME NEW h \in Holders, NEW j \in Holders, NEW p \in Partitions, h # j
               PROVE  Held(h, p)' \cap Held(j, p)' = {}
    OBVIOUS
  <2>1. Held(h, p) \cap Held(j, p) = {} /\ e \notin Held(h, p) /\ e \notin Held(j, p)
    BY <1>7 DEF HeldInv
  <2>2. CASE p # q \/ (h # k /\ j # k)
    BY <1>12, <2>1, <2>2
  <2>3. CASE p = q /\ h = k
    BY <1>12, <2>1, <2>3
  <2>4. CASE p = q /\ j = k
    BY <1>12, <2>1, <2>4
  <2> QED
    BY <2>2, <2>3, <2>4
<1>16. ASSUME NEW h \in Holders, NEW p \in Partitions, NEW f \in Held(h, p)'
       PROVE  \E t \in 1 .. count : /\ Pending(t)' = FALSE /\ f = temp_keys_pos[t]
                                    /\ p = getPartition(f.key)
  <2>1. CASE f \in Held(h, p)
    <3>1. PICK t \in 1 .. count : ~Pending(t) /\ f = temp_keys_pos[t] /\ p = getPartition(f.key)
      BY <2>1 DEF HeldInv
    <3> QED
      BY <1>3, <3>1
  <2>2. CASE f \notin Held(h, p)
    <3>1. h = k /\ p = q /\ f = e
      BY <1>12, <1>16, <2>2
    <3> QED
      BY <1>1, <1>2, <1>3, <3>1
  <2> QED
    BY <2>1, <2>2
<1>17. ASSUME NEW t \in 1 .. count, ~Pending(t)'
       PROVE  \E h \in Holders : temp_keys_pos[t] \in Held(h, getPartition(temp_keys_pos[t].key))'
  <2>1. CASE t = n
    <3>1. temp_keys_pos[t] = e /\ getPartition(temp_keys_pos[t].key) = q
      BY <1>1, <1>2, <2>1
    <3>2. getPartition(temp_keys_pos[t].key)' = q
      BY <1>2, <1>5, <1>6, <3>1
    <3>3. e \in Held(k, q)'
      BY <1>12
    <3> QED
      BY <1>4, <1>5, <1>6, <3>1, <3>2, <3>3
  <2>2. CASE t # n
    <3>1. PICK f, p : f = temp_keys_pos[t] /\ p = getPartition(f.key)
      OBVIOUS
    <3>2. PICK h \in Holders : f \in Held(h, p)
      BY <1>3, <1>17, <2>2, <3>1 DEF HeldInv
    <3>3. f \in Entry
      BY <3>1 DEF TuplesInv, count
    <3>4. p \in Partitions
      BY <3>1, <3>3, PartitionInRange DEF Entry
    <3>5. f \in Held(h, p)'
      BY <1>13, <3>2, <3>4
    <3>6. temp_keys_pos[t]' = f /\ getPartition(temp_keys_pos[t].key)' = p
      BY <1>5, <1>6, <3>1
    <3> QED
      BY <3>1, <3>5, <3>6
  <2> QED
    BY <2>1, <2>2
<1>18. (\A h \in Holders, p \in Partitions : \A f \in Held(h, p) :
           \E t \in 1 .. count : ~Pending(t) /\ f = temp_keys_pos[t] /\ p = getPartition(f.key))'
  BY ZenonT(60), <1>5, <1>6, <1>16
<1>19. (\A t \in 1 .. count : ~Pending(t) =>
          \E h \in Holders : temp_keys_pos[t] \in Held(h, getPartition(temp_keys_pos[t].key)))'
  BY <1>5, <1>17
<1> QED
  BY <1>14, <1>15, <1>18, <1>19 DEF HeldInv

(* A merge moves what a list holds to the global list of its partition. *)
LEMMA HeldMerge ==
    ASSUME Domains, PhaseInv, MergeInv, TuplesInv, ListsInv, HeldInv, NEW k \in Threads,
           MergeList(k),
           \A t \in 1 .. count : Pending(t)' <=> Pending(t)
    PROVE  HeldInv'
<1>1. PICK q, j, N : q = at[k] /\ j = from[k] /\ N = NumThreads
  OBVIOUS
<1>2. /\ q \in Partitions /\ j \in Holders /\ j # N /\ N \in Holders
      /\ List(N, q)' = Link(List(N, q), List(j, q))
      /\ List(j, q)' = EmptyPartition
      /\ \A h \in Holders, p \in Partitions :
           p # q \/ (h # j /\ h # N) => List(h, p)' = List(h, p)
  BY <1>1, MergeUpdates
<1>3. UNCHANGED <<temp_keys_pos, dirHash>> /\ count' = count
  BY DEF MergeList, count
<1>4. \A key : getPartition(key)' = getPartition(key)
  BY <1>3 DEF getPartition
<1>5. PICK a, b : a = List(N, q) /\ b = List(j, q)
  OBVIOUS
<1>6. a \in Part /\ PartitionOK(a) /\ b \in Part /\ PartitionOK(b)
  BY <1>2, <1>5 DEF ListsInv
<1>7. PICK x, y : x = Contents(a) /\ y = Contents(b)
  OBVIOUS
<1>8. x \in Seq(Entry) /\ y \in Seq(Entry)
  BY <1>6, <1>7, ContentsType
<1>9. /\ IsInjective(x) /\ IsInjective(y) /\ Range(x) \cap Range(y) = {}
      /\ Held(N, q) = Range(x) /\ Held(j, q) = Range(y)
  BY <1>2, <1>5, <1>7 DEF HeldInv, Held
<1>10. Range(x \o y) = Range(x) \cup Range(y) /\ IsInjective(x \o y)
  BY <1>8, <1>9, ConcatElements
<1>11. Contents(Link(a, b)) = x \o y
  BY <1>6, <1>7, LinkContents
<1>12. /\ Held(N, q)' = Held(N, q) \cup Held(j, q) /\ IsInjective(Contents(List(N, q)))'
  BY <1>2, <1>5, <1>9, <1>10, <1>11 DEF Held, Contents
<1>13. Held(j, q)' = {} /\ IsInjective(Contents(List(j, q)))'
  BY <1>2, EmptyList DEF Held, Contents, Range, IsInjective
<1>14. \A h \in Holders, p \in Partitions : p # q \/ (h # j /\ h # N) =>
         Held(h, p)' = Held(h, p) /\ Contents(List(h, p))' = Contents(List(h, p))
  BY <1>2 DEF Held, Contents
<1>15. (\A h \in Holders, p \in Partitions : IsInjective(Contents(List(h, p))))'
  <2> SUFFICES ASSUME NEW h \in Holders, NEW p \in Partitions
               PROVE  IsInjective(Contents(List(h, p)))'
    OBVIOUS
  <2>1. CASE p = q /\ h = N
    BY <1>12, <2>1
  <2>2. CASE p = q /\ h = j
    BY <1>13, <2>2
  <2>3. CASE p # q \/ (h # j /\ h # N)
    BY <1>14, <2>3 DEF HeldInv
  <2> QED
    BY <2>1, <2>2, <2>3
<1>16. (\A h, i \in Holders, p \in Partitions : h # i => Held(h, p) \cap Held(i, p) = {})'
  <2> SUFFICES ASSUME NEW h \in Holders, NEW i \in Holders, NEW p \in Partitions, h # i
               PROVE  Held(h, p)' \cap Held(i, p)' = {}
    OBVIOUS
  <2>1. \A l, m \in Holders : l # m => Held(l, p) \cap Held(m, p) = {}
    BY DEF HeldInv
  <2>2. CASE p # q
    BY <1>14, <2>1, <2>2
  <2>3. CASE p = q /\ (h = j \/ i = j)
    BY <1>13, <2>3
  <2>4. CASE p = q /\ h # j /\ i # j
    <3>1. ASSUME NEW l \in Holders, l # j
          PROVE  Held(l, q)' = Held(l, q) \cup (IF l = N THEN Held(j, q) ELSE {})
      <4>1. CASE l = N
        BY <1>12, <4>1
      <4>2. CASE l # N
        BY <1>2, <1>14, <3>1, <4>2
      <4> QED
        BY <4>1, <4>2
    <3>2. /\ Held(h, q)' = Held(h, q) \cup (IF h = N THEN Held(j, q) ELSE {})
          /\ Held(i, q)' = Held(i, q) \cup (IF i = N THEN Held(j, q) ELSE {})
      BY <2>4, <3>1
    <3>3. /\ Held(h, q) \cap Held(i, q) = {} /\ Held(h, q) \cap Held(j, q) = {}
          /\ Held(i, q) \cap Held(j, q) = {}
      BY <1>2, <2>1, <2>4
    <3> QED
      BY <2>4, <3>2, <3>3
  <2> QED
    BY <2>2, <2>3, <2>4
<1>17. ASSUME NEW h \in Holders, NEW p \in Partitions, NEW f \in Held(h, p)'
       PROVE  \E t \in 1 .. count : ~Pending(t) /\ f = temp_keys_pos[t] /\ p = getPartition(f.key)
  <2>1. \E i \in Holders : f \in Held(i, p)
    <3>1. CASE p = q /\ h = N
      BY <1>2, <1>12, <1>17, <3>1
    <3>2. CASE p = q /\ h = j
      BY <1>13, <1>17, <3>2
    <3>3. CASE p # q \/ (h # j /\ h # N)
      BY <1>14, <1>17, <3>3
    <3> QED
      BY <3>1, <3>2, <3>3
  <2> QED
    BY <2>1 DEF HeldInv
<1>18. (\A h \in Holders, p \in Partitions : \A f \in Held(h, p) :
           \E t \in 1 .. count : ~Pending(t) /\ f = temp_keys_pos[t] /\ p = getPartition(f.key))'
  BY <1>3, <1>4, <1>17
<1>19. ASSUME NEW t \in 1 .. count, ~Pending(t)
       PROVE  \E h \in Holders : temp_keys_pos[t] \in Held(h, getPartition(temp_keys_pos[t].key))'
  <2>1. PICK f, p : f = temp_keys_pos[t] /\ p = getPartition(f.key)
    OBVIOUS
  <2>2. PICK h \in Holders : f \in Held(h, p)
    BY <1>19, <2>1 DEF HeldInv
  <2>3. temp_keys_pos[t]' = f /\ getPartition(temp_keys_pos[t].key)' = p
    BY <1>3, <1>4, <2>1
  <2>4. \E i \in Holders : f \in Held(i, p)'
    <3>1. CASE p = q /\ (h = N \/ h = j)
      BY <1>2, <1>12, <2>2, <3>1
    <3>2. CASE p # q \/ (h # j /\ h # N)
      <4>1. p = q \/ p # q
        OBVIOUS
      <4>2. p \in Partitions => f \in Held(h, p)'
        BY <1>14, <2>2, <3>2
      <4>3. p \in Partitions
        <5>1. f \in Entry
          BY <2>1 DEF TuplesInv, count
        <5> QED
          BY <2>1, <5>1, PartitionInRange DEF Entry
      <4> QED
        BY <4>2, <4>3
    <3> QED
      BY <3>1, <3>2
  <2> QED
    BY <2>1, <2>3, <2>4
<1>20. (\A t \in 1 .. count : ~Pending(t) =>
          \E h \in Holders : temp_keys_pos[t] \in Held(h, getPartition(temp_keys_pos[t].key)))'
  BY <1>3, <1>19
<1> QED
  BY <1>15, <1>16, <1>18, <1>20 DEF HeldInv

LEMMA WorkStep ==
    Domains /\ PhaseInv /\ MergeInv /\ TuplesInv /\ SlicesInv /\ ListsInv /\ WorkInv
      /\ [Next]_vars => WorkInv'
<1> SUFFICES ASSUME Domains, PhaseInv, MergeInv, TuplesInv, SlicesInv, ListsInv, WorkInv,
                    [Next]_vars, mpc' # "built"
             PROVE  HeldInv'
  BY DEF WorkInv
<1>1. ASSUME NEW k \in Threads, PartitionTuple(k) PROVE HeldInv'
  <2>1. HeldInv
    BY <1>1 DEF PartitionTuple, WorkInv
  <2> QED
    BY <1>1, <2>1, HeldPartition
<1>2. ASSUME \A k \in Threads : ~PartitionTuple(k) PROVE HeldInv'
  <2>1. \A t \in 1 .. count : Pending(t)' <=> Pending(t)
    BY <1>2, PendingSame
  <2>2. CASE UNCHANGED <<local, global>>
    <3>1. mpc # "built"
      BY DEF Next, vars, Built, Caller, Worker, build, StartParallel,
             CreatePartitionThread, JoinPartitionThread, CreateMergeThread,
             JoinMergeThread, CountAndPrefix, Scatter, FillAndFree, PartitionTuple,
             WorkerReturn, MergeList
    <3>2. HeldInv
      BY <3>1 DEF WorkInv
    <3> QED
      BY SMTT(30), <2>1, <2>2, <3>2, HeldFrame, InputUnchanged
  <2>3. CASE FillAndFree
    BY <2>3 DEF FillAndFree
  <2>4. ASSUME NEW k \in Threads, MergeList(k) PROVE HeldInv'
    <3>1. HeldInv
      BY <2>4 DEF MergeList, WorkInv
    <3> QED
      BY <2>1, <2>4, <3>1, HeldMerge
  <2> QED
    BY <1>2, <2>2, <2>3, <2>4, OtherSteps
<1> QED
  BY <1>1, <1>2

PlacesInv == PInv /\ TuplesInv /\ SlicesInv /\ ListsInv /\ WorkInv

THEOREM TuplesAreHeld == Spec => []PlacesInv
<1>1. Init => PlacesInv
  BY PhaseInit, TuplesInit, SlicesInit, ListsInit DEF PlacesInv
<1>2. PlacesInv /\ [Next]_vars => PlacesInv'
  BY DomainsStep, PhaseStep, MergeStep, TuplesStep, SlicesStep, ListsStep, WorkStep
     DEF PlacesInv, PInv
<1> QED
  BY <1>1, <1>2, PTL DEF Spec

LEMMA InPlaces ==
    ASSUME NEW e, NEW x
    PROVE  x \in Places(e) <=>
             \E h \in Holders, p \in Partitions : \E i \in DOMAIN Contents(List(h, p)) :
               x = <<h, p, i>> /\ Contents(List(h, p))[i] = e
<1> DEFINE At(h, p) == {k \in DOMAIN Contents(List(h, p)) : Contents(List(h, p))[k] = e}
           PlacesIn(h, p) == {<<h, p, i>> : i \in At(h, p)}
<1>1. Places(e) = UNION {PlacesIn(h, p) : h \in Holders, p \in Partitions}
  BY DEF Places
<1>2. \A h, p : x \in PlacesIn(h, p) <=> \E i \in DOMAIN Contents(List(h, p)) :
                                           x = <<h, p, i>> /\ Contents(List(h, p))[i] = e
  OBVIOUS
<1> HIDE DEF PlacesIn
<1>3. x \in Places(e) <=> \E h \in Holders, p \in Partitions : x \in PlacesIn(h, p)
  BY <1>1
<1> QED
  BY <1>2, <1>3

(* From the first insertion until the chunks are freed every tuple is      *)
(* pending or at one place of one list, in the partition of its hash: the  *)
(* threads neither lose a tuple nor link one twice.                        *)
THEOREM TuplesInOnePlace == Spec => []OnePlace
<1>1. PlacesInv => OnePlace
  <2> SUFFICES ASSUME PlacesInv, mpc # "built", NEW t \in 1 .. count
               PROVE  IF Pending(t) THEN Places(temp_keys_pos[t]) = {}
                      ELSE \E x \in Places(temp_keys_pos[t]) :
                             /\ Places(temp_keys_pos[t]) = {x}
                             /\ x[2] = getPartition(temp_keys_pos[t].key)
    BY DEF OnePlace
  <2>1. TuplesInv /\ ListsInv /\ HeldInv
    BY DEF PlacesInv, WorkInv
  <2>2. PICK e, q : e = temp_keys_pos[t] /\ q = getPartition(e.key)
    OBVIOUS
  <2>3. ASSUME NEW h \in Holders, NEW p \in Partitions, e \in Held(h, p)
        PROVE  ~Pending(t) /\ p = q
    <3>1. PICK u \in 1 .. count : ~Pending(u) /\ e = temp_keys_pos[u] /\ p = q
      BY <2>1, <2>2, <2>3 DEF HeldInv
    <3>2. u = t
      BY <2>1, <2>2, <3>1, TuplesDiffer
    <3> QED
      BY <3>1, <3>2
  <2>4. \A x : x \in Places(e) <=>
          \E h \in Holders, p \in Partitions : \E i \in DOMAIN Contents(List(h, p)) :
            x = <<h, p, i>> /\ Contents(List(h, p))[i] = e
    BY InPlaces
  <2>5. \A h \in Holders, p \in Partitions : \A i \in DOMAIN Contents(List(h, p)) :
          Contents(List(h, p))[i] = e => e \in Held(h, p)
    BY DEF Held, Range
  <2>6. CASE Pending(t)
    BY <2>2, <2>3, <2>4, <2>5, <2>6
  <2>7. CASE ~Pending(t)
    <3>1. PICK h \in Holders : e \in Held(h, q)
      BY <2>1, <2>2, <2>7 DEF HeldInv
    <3>2. q \in Partitions
      <4>1. e \in Entry
        BY <2>1, <2>2 DEF TuplesInv, count
      <4> QED
        BY <2>1, <2>2, <4>1, PartitionInRange DEF Entry
    <3>3. PICK i \in DOMAIN Contents(List(h, q)) : Contents(List(h, q))[i] = e
      BY <3>1 DEF Held, Range
    <3>4. <<h, q, i>> \in Places(e)
      BY <2>4, <3>2, <3>3
    <3>5. ASSUME NEW x \in Places(e) PROVE x = <<h, q, i>>
      <4>1. PICK k \in Holders, p \in Partitions : \E l \in DOMAIN Contents(List(k, p)) :
              x = <<k, p, l>> /\ Contents(List(k, p))[l] = e
        BY <2>4
      <4>2. PICK l \in DOMAIN Contents(List(k, p)) :
              x = <<k, p, l>> /\ Contents(List(k, p))[l] = e
        BY <4>1
      <4>3. e \in Held(k, p) /\ p = q
        BY <2>3, <2>5, <4>2
      <4>4. k = h
        BY <2>1, <3>1, <3>2, <4>3 DEF HeldInv
      <4>5. IsInjective(Contents(List(h, q)))
        BY <2>1, <3>2 DEF HeldInv
      <4>6. l = i
        BY <3>3, <4>3, <4>4, <4>5, <4>2 DEF IsInjective
      <4> QED
        BY <4>3, <4>4, <4>6, <4>2
    <3>6. Places(e) = {<<h, q, i>>} /\ <<h, q, i>>[2] = q
      BY <3>4, <3>5
    <3> QED
      BY <2>2, <2>7, <3>4, <3>6
  <2> QED
    BY <2>6, <2>7
<1> QED
  BY TuplesAreHeld, <1>1, PTL

-----------------------------------------------------------------------------
(* The third phase: the walk over the global lists.                        *)

Reading == mpc \in {"count", "scatter", "fill"}

(* The caller walks over every tuple of the input once. *)
LEMMA WalkIsInput ==
    ASSUME PlacesInv, Reading
    PROVE  /\ Walk \in Seq(Entry) /\ IsInjective(Walk)
           /\ Range(Walk) = Range(temp_keys_pos) /\ Len(Walk) = count
<1> DEFINE seqs == [p \in 1 .. NumPartitions |-> Contents(global[p - 1])]
<1>1. TuplesInv /\ ListsInv /\ HeldInv /\ MergedBeforeRead
  BY AllMerged DEF PlacesInv, WorkInv, Reading
<1>2. /\ NumPartitions \in Nat /\ NumThreads \in Holders
      /\ \A h \in Holders : h # NumThreads => h \in Threads
      /\ \A p : p \in Partitions <=> p + 1 \in 1 .. NumPartitions /\ p \in Nat
      /\ \A m \in 1 .. NumPartitions : m - 1 \in Partitions /\ (m - 1) + 1 = m
  BY TableAssumption DEF Holders, Threads, Partitions
<1>3. ASSUME NEW h \in Holders, NEW p \in Partitions, h # NumThreads PROVE Held(h, p) = {}
  <2>1. List(h, p) = EmptyPartition
    BY <1>1, <1>2, <1>3 DEF List, MergedBeforeRead, Reading
  <2> QED
    BY <2>1, EmptyList DEF Held, Range
<1>4. \A t \in 1 .. count : ~Pending(t)
  BY <1>1 DEF Pending, MergedBeforeRead, Reading
<1>5. ASSUME NEW p \in Partitions
      PROVE  /\ Contents(global[p]) \in Seq(Entry) /\ IsInjective(Contents(global[p]))
             /\ Range(Contents(global[p])) = Held(NumThreads, p)
  <2>1. List(NumThreads, p) = global[p] /\ global[p] \in Part
    BY <1>1, <1>2 DEF ListsInv, List
  <2> QED
    BY <1>1, <1>2, <2>1, ContentsType DEF HeldInv, Held
<1>6. /\ seqs \in Seq(Seq(Entry)) /\ Len(seqs) = NumPartitions
      /\ \A m \in 1 .. Len(seqs) : /\ seqs[m] = Contents(global[m - 1])
                                   /\ m - 1 \in Partitions
  <2>1. \A m \in 1 .. NumPartitions : Contents(global[m - 1]) \in Seq(Entry)
    BY <1>2, <1>5
  <2> QED
    BY <1>2, <2>1
<1>7. Walk = FlattenSeq(seqs)
  BY DEF Walk
<1> HIDE DEF seqs
<1>8. Walk \in Seq(Entry) /\ Range(Walk) = UNION {Range(seqs[m]) : m \in 1 .. Len(seqs)}
  BY <1>6, <1>7, FlattenRange
<1>9. \A m \in 1 .. Len(seqs) : /\ IsInjective(seqs[m])
                                /\ Range(seqs[m]) = Held(NumThreads, m - 1)
  BY <1>5, <1>6
<1>10. ASSUME NEW p \in Partitions, NEW q \in Partitions, NEW e,
              e \in Held(NumThreads, p), e \in Held(NumThreads, q)
       PROVE  p = q
  BY <1>1, <1>2, <1>10 DEF HeldInv
<1>11. \A m, k \in 1 .. Len(seqs) : m # k => Range(seqs[m]) \cap Range(seqs[k]) = {}
  <2> SUFFICES ASSUME NEW m \in 1 .. Len(seqs), NEW k \in 1 .. Len(seqs),
                      NEW e, e \in Range(seqs[m]), e \in Range(seqs[k])
               PROVE  m = k
    OBVIOUS
  <2>1. m - 1 = k - 1
    BY <1>6, <1>9, <1>10
  <2> QED
    BY <1>6, <2>1
<1>12. IsInjective(Walk)
  BY <1>6, <1>7, <1>9, <1>11, FlattenInjective
<1>13. Range(Walk) = Range(temp_keys_pos)
  <2>1. ASSUME NEW e \in Range(Walk) PROVE e \in Range(temp_keys_pos)
    <3>1. PICK m \in 1 .. Len(seqs) : e \in Held(NumThreads, m - 1)
      BY <1>8, <1>9
    <3>2. \E t \in 1 .. count : e = temp_keys_pos[t]
      BY <1>1, <1>2, <1>6, <3>1 DEF HeldInv
    <3> QED
      BY <1>1, <3>2 DEF Range, TuplesInv, count
  <2>2. ASSUME NEW e \in Range(temp_keys_pos) PROVE e \in Range(Walk)
    <3>1. PICK t \in 1 .. count : e = temp_keys_pos[t]
      BY <1>1 DEF Range, TuplesInv, count
    <3>2. PICK q : q = getPartition(e.key)
      OBVIOUS
    <3>3. PICK h \in Holders : e \in Held(h, q)
      BY <1>1, <1>4, <3>1, <3>2 DEF HeldInv
    <3>4. q \in Partitions
      <4>1. e \in Entry
        BY <1>1, <3>1 DEF TuplesInv, count
      <4> QED
        BY <1>1, <3>2, <4>1, PartitionInRange DEF Entry
    <3>5. h = NumThreads
      BY <1>3, <3>3, <3>4
    <3>6. q + 1 \in 1 .. Len(seqs) /\ (q + 1) - 1 = q
      BY <1>2, <1>6, <3>4
    <3>7. e \in Range(seqs[q + 1])
      BY <1>9, <3>3, <3>5, <3>6
    <3> QED
      BY <1>8, <3>6, <3>7
  <2> QED
    BY <2>1, <2>2
<1>14. temp_keys_pos \in Seq(Entry) /\ IsInjective(temp_keys_pos)
  <2>1. temp_keys_pos \in Seq(Entry) /\ DOMAIN temp_keys_pos = 1 .. count
    BY <1>1 DEF TuplesInv, count
  <2> QED
    BY <1>1, <2>1, TuplesDiffer DEF IsInjective
<1>15. Len(Walk) = count
  BY <1>8, <1>12, <1>13, <1>14, EqualLengths DEF count
<1> QED
  BY <1>8, <1>12, <1>13, <1>15

-----------------------------------------------------------------------------
(* Counting, prefix sums and scatter are a counting sort by slot.          *)

SlotOf == [i \in 1 .. Len(Walk) |-> dirHashId(Walk[i])]

(* The entries and counts after k entries of the walk, as placed has them. *)
IsPlaced(g) ==
    g = [k \in 0 .. Len(Walk) |->
            IF k = 0 THEN [to |-> entries, counts |-> [s \in Slots |-> 0]]
            ELSE LET old == g[k - 1]
                     s   == dirHashId(Walk[k])
                 IN  [to     |-> [old.to EXCEPT ![directory[s].pointer + old.counts[s] + 1] = Walk[k]],
                      counts |-> [old.counts EXCEPT ![s] = @ + 1]]]

LEMMA PlacedIs ==
    ASSUME NEW g, IsPlaced(g)
    PROVE  IsPlaced(placed)
<1>1. placed = CHOOSE f : IsPlaced(f)
  BY DEF placed, IsPlaced
<1> QED
  BY <1>1

(* The slots have been counted and the counts summed up. *)
Counted ==
    /\ Walk \in Seq(Entry) /\ dirHash \in [Keys -> Slots]
    /\ entries = [i \in 1 .. Len(Walk) |-> NoEntry]
    /\ \A s \in Slots : directory[s].pointer = Cardinality(Lower(SlotOf, Len(Walk), s))

(* The scatter puts every entry of the walk at its place. *)
LEMMA ScatterPlaces ==
    ASSUME Counted, NEW to, to = placed[Len(Walk)].to
    PROVE  /\ DOMAIN to = 1 .. Len(Walk) /\ to \in Seq(Entry)
           /\ \A i \in 1 .. Len(Walk) : to[Place(SlotOf, Len(Walk), i)] = Walk[i]
<1> DEFINE n == Len(Walk)
           h == SlotOf
           P(i) == Place(h, n, i)
<1>1. /\ n \in Nat /\ \A i \in 1 .. n : Walk[i] \in Entry /\ h[i] = dirHashId(Walk[i])
      /\ \A i \in 1 .. n : h[i] \in Slots
      /\ h \in [1 .. n -> Int] /\ \A s \in Slots : s \in Int
  <2>1. n \in Nat /\ \A i \in 1 .. n : Walk[i] \in Entry /\ h[i] = dirHashId(Walk[i])
    BY DEF SlotOf, Counted
  <2>2. \A i \in 1 .. n : dirHashId(Walk[i]) \in Slots
    BY <2>1 DEF dirHashId, Entry, Counted
  <2>3. \A s \in Slots : s \in Int
    BY TableAssumption DEF Slots
  <2>4. h \in [1 .. n -> Int]
    BY <2>1, <2>2, <2>3 DEF SlotOf
  <2> QED
    BY <2>1, <2>2, <2>3, <2>4
<1>2. /\ entries = [i \in 1 .. n |-> NoEntry]
      /\ \A s \in Slots : directory[s].pointer = Cardinality(Lower(h, n, s))
      /\ to = placed[n].to
  BY DEF Counted
<1> HIDE DEF h
<1>3. /\ \A i \in 1 .. n : P(i) \in 1 .. n
      /\ \A i, j \in 1 .. n : P(i) = P(j) => i = j
  BY <1>1, CountingSort
<1> DEFINE f == [i \in 1 .. n |-> P(i)]
<1>4. \A x \in 1 .. n : \E i \in 1 .. n : P(i) = x
  <2>1. f \in [1 .. n -> 1 .. n] /\ \A i \in 1 .. n : f[i] = P(i)
    BY <1>3
  <2> HIDE DEF f, P
  <2>2. \A i, j \in 1 .. n : f[i] = f[j] => i = j
    BY <1>3, <2>1
  <2>3. \A x \in 1 .. n : \E i \in 1 .. n : f[i] = x
    BY <1>1, <2>1, <2>2, OntoItself
  <2> QED
    BY <2>1, <2>3
<1> HIDE DEF P
<1> DEFINE inv == [x \in 1 .. n |-> CHOOSE i \in 1 .. n : P(i) = x]
<1>5. /\ \A x \in 1 .. n : inv[x] \in 1 .. n /\ P(inv[x]) = x
      /\ \A i \in 1 .. n : inv[P(i)] = i
  BY <1>3, <1>4
<1> HIDE DEF inv
<1> DEFINE To(k) == [x \in 1 .. n |-> IF inv[x] <= k THEN Walk[inv[x]] ELSE NoEntry]
           Counts(k) == [s \in Slots |-> Cardinality(Equal(h, k, s))]
           G == [k \in 0 .. n |-> [to |-> To(k), counts |-> Counts(k)]]
           Start == [to |-> entries, counts |-> [s \in Slots |-> 0]]
           Put(old, k) ==
             [to     |-> [old.to EXCEPT ![directory[dirHashId(Walk[k])].pointer
                                          + old.counts[dirHashId(Walk[k])] + 1] = Walk[k]],
              counts |-> [old.counts EXCEPT ![dirHashId(Walk[k])] = @ + 1]]
<1>6. Start = [to |-> To(0), counts |-> Counts(0)]
  <2>1. \A x \in 1 .. n : ~ (inv[x] <= 0)
    BY <1>1, <1>5
  <2>2. To(0) = entries
    BY <1>2, <2>1
  <2>3. Counts(0) = [s \in Slots |-> 0]
    BY EqualNone
  <2> QED
    BY <2>2, <2>3
<1>7. ASSUME NEW k \in 1 .. n
      PROVE  Put([to |-> To(k - 1), counts |-> Counts(k - 1)], k) = [to |-> To(k), counts |-> Counts(k)]
  <2> DEFINE t == To(k - 1)
             c == Counts(k - 1)
             s == h[k]
  <2>1. s \in Slots /\ s = dirHashId(Walk[k]) /\ k \in Nat
    BY <1>1
  <2>2. directory[s].pointer + c[s] + 1 = P(k)
    BY <1>2, <2>1 DEF P, Place
  <2>3. [t EXCEPT ![P(k)] = Walk[k]] = To(k)
    <3>1. ASSUME NEW x \in 1 .. n
          PROVE  (IF x = P(k) THEN Walk[k] ELSE t[x]) = IF inv[x] <= k THEN Walk[inv[x]] ELSE NoEntry
      <4>1. CASE x = P(k)
        BY <1>5, <2>1, <4>1
      <4>2. CASE x # P(k)
        <5>1. inv[x] # k /\ inv[x] \in Nat
          BY <1>1, <1>5, <4>2
        <5>2. inv[x] <= k <=> inv[x] <= k - 1
          BY <2>1, <5>1
        <5> QED
          BY <4>2, <5>2
      <4> QED
        BY <4>1, <4>2
    <3>2. DOMAIN t = 1 .. n /\ P(k) \in 1 .. n
      BY <1>3
    <3> HIDE DEF t
    <3> QED
      BY <3>1, <3>2
  <2>4. [c EXCEPT ![s] = @ + 1] = Counts(k)
    <3>1. ASSUME NEW u \in Slots
          PROVE  (IF u = s THEN c[u] + 1 ELSE c[u]) = Cardinality(Equal(h, k, u))
      <4>1. c[u] = Cardinality(Equal(h, k - 1, u)) /\ h[k] = s
        OBVIOUS
      <4> HIDE DEF c, s
      <4>2. /\ Cardinality(Equal(h, k - 1, u)) \in Nat
            /\ Cardinality(Equal(h, k, u)) =
                 IF h[k] = u THEN Cardinality(Equal(h, k - 1, u)) + 1
                 ELSE Cardinality(Equal(h, k - 1, u))
        <5>1. PICK j : j = k - 1
          OBVIOUS
        <5>2. n \in Nat
          BY <1>1
        <5> HIDE DEF n
        <5>3. /\ Cardinality(Equal(h, j, u)) \in Nat
              /\ Cardinality(Equal(h, k, u)) =
                   IF h[k] = u THEN Cardinality(Equal(h, j, u)) + 1
                   ELSE Cardinality(Equal(h, j, u))
          BY <5>1, <5>2, EqualGrows
        <5> QED
          BY <5>1, <5>3
      <4> QED
        BY <4>1, <4>2
    <3>2. DOMAIN c = Slots
      OBVIOUS
    <3> HIDE DEF c, s
    <3> QED
      BY <2>1, <3>1, <3>2
  <2>5. Put([to |-> t, counts |-> c], k) =
          [to |-> [t EXCEPT ![directory[s].pointer + c[s] + 1] = Walk[k]],
           counts |-> [c EXCEPT ![s] = @ + 1]]
    <3> HIDE DEF t, c, s
    <3> QED
      BY <2>1
  <2> HIDE DEF t, c, s
  <2>6. Put([to |-> t, counts |-> c], k) = [to |-> To(k), counts |-> Counts(k)]
    BY <2>2, <2>3, <2>4, <2>5
  <2> QED
    BY <2>6 DEF t, c
<1> DEFINE Goes(g) == g = [k \in 0 .. n |-> IF k = 0 THEN Start ELSE Put(g[k - 1], k)]
<1>8. \A g : IsPlaced(g) <=> Goes(g)
  BY DEF IsPlaced
<1> HIDE DEF To, Counts, Start, Put
<1>9. Goes(G)
  <2>1. ASSUME NEW k \in 0 .. n PROVE G[k] = IF k = 0 THEN Start ELSE Put(G[k - 1], k)
    <3>1. CASE k = 0
      BY <1>6, <3>1
    <3>2. CASE k # 0
      <4>1. k \in 1 .. n /\ k - 1 \in 0 .. n
        BY <1>1, <3>2
      <4> QED
        BY <1>7, <3>2, <4>1
    <3> QED
      BY <3>1, <3>2
  <2>2. G = [k \in 0 .. n |-> G[k]]
    OBVIOUS
  <2> HIDE DEF G
  <2> QED
    BY <2>1, <2>2
<1>10. Goes(placed)
  <2> HIDE DEF Goes
  <2> QED
    BY <1>8, <1>9, PlacedIs
<1> DEFINE S == {k \in 0 .. n : placed[k] = G[k]}
<1>11. \A k \in 0 .. n : k \in S
  <2>1. 0 \in S
    BY <1>1, <1>6, <1>10
  <2>2. ASSUME NEW k \in 0 .. n - 1, k \in S PROVE k + 1 \in S
    <3>1. k + 1 \in 1 .. n /\ k + 1 \in 0 .. n /\ k \in 0 .. n /\ k + 1 # 0 /\ (k + 1) - 1 = k
      BY <1>1
    <3>2. placed[k + 1] = Put(placed[k], k + 1)
      BY <1>10, <3>1
    <3>3. G[k + 1] = Put(G[k], k + 1)
      BY <1>9, <3>1
    <3> QED
      BY <2>2, <3>1, <3>2, <3>3
  <2> HIDE DEF S
  <2> QED
    BY <1>1, <2>1, <2>2, UpTo
<1>12. to = To(n)
  <2>1. n \in 0 .. n
    BY <1>1
  <2>2. placed[n] = G[n]
    BY <1>11, <2>1
  <2>3. G[n] = [to |-> To(n), counts |-> Counts(n)]
    BY <2>1
  <2> HIDE DEF G, n
  <2> QED
    BY <1>2, <2>2, <2>3
<1>13. DOMAIN to = 1 .. n /\ \A x \in 1 .. n : to[x] = Walk[inv[x]] /\ to[x] \in Entry
  BY <1>1, <1>5, <1>12 DEF To
<1>14. to \in Seq(Entry)
  <2>1. to = [x \in 1 .. n |-> to[x]]
    BY <1>12 DEF To
  <2> QED
    BY <1>1, <1>13, <2>1
<1>15. \A i \in 1 .. n : to[P(i)] = Walk[i]
  BY <1>3, <1>5, <1>13
<1> QED
  BY <1>13, <1>14, <1>15 DEF P, h

-----------------------------------------------------------------------------
(* The directory and the entries it points into.                           *)

(* The entries are the input, below a slot's pointer are just the entries  *)
(* of lower slots, and a slot's filter has the bits of its entries.        *)
EntriesOK ==
    /\ entries \in Seq(Entry) /\ Len(entries) = count
    /\ IsInjective(entries) /\ Range(entries) = Range(temp_keys_pos)

PointersOK ==
    \A s \in Slots : \A i \in 1 .. count :
        i <= directory[s].pointer <=> dirHashId(entries[i]) < s

BloomsOK ==
    \A i \in 1 .. count :
        BloomBits(entries[i].key) \subseteq directory[dirHashId(entries[i])].bloom

TableDone == EntriesOK /\ PointersOK /\ BloomsOK

SlotTypes(dir) ==
    \A s \in Slots : dir[s].pointer \in 0 .. count /\ dir[s].bloom \subseteq 0 .. 15

TableInv ==
    /\ SlotTypes(directory)
    /\ entries \in Seq(Entry \cup {NoEntry})
    /\ mpc = "scatter" => Counted /\ \A s \in Slots : directory[s].bloom = bloomFilter(InSlot(s))
    /\ mpc \in {"fill", "built"} => TableDone

(* A filter has sixteen bits, and the bits of every key it was made of. *)
LEMMA BloomRange ==
    ASSUME NEW es, es \subseteq Entry
    PROVE  /\ bloomFilter(es) \subseteq 0 .. 15
           /\ \A e \in es : BloomBits(e.key) \subseteq bloomFilter(es)
<1>1. ASSUME NEW key \in Int PROVE BloomBits(key) \subseteq 0 .. 15
  <2>1. \A x \in Int : x % 16 \in 0 .. 15
    OBVIOUS
  <2>2. /\ key \div 1 \in Int /\ key \div 16 \in Int
        /\ key \div 256 \in Int /\ key \div 4096 \in Int
    OBVIOUS
  <2> QED
    BY <2>1, <2>2 DEF BloomBits
<1>2. \A e \in es : e.key \in Int
  BY TableAssumption DEF Entry
<1> QED
  BY <1>1, <1>2 DEF bloomFilter

(* Filling the empty tail of a directory keeps its types. *)
LEMMA FillEmptyTypes ==
    ASSUME TuplesInv, NEW dir, SlotTypes(dir)
    PROVE  SlotTypes(FillEmpty(dir))
<1> SUFFICES ASSUME NEW s \in Slots
             PROVE  /\ FillEmpty(dir)[s].pointer \in 0 .. count
                    /\ FillEmpty(dir)[s].bloom \subseteq 0 .. 15
  BY DEF SlotTypes
<1> DEFINE later == {q \in Slots : q >= s /\ dir[q].pointer # count}
<1>1. FillEmpty(dir)[s] = IF later = {} THEN [pointer |-> count, bloom |-> {}] ELSE dir[Min(later)]
  BY DEF FillEmpty
<1>2. later \in SUBSET Nat /\ later \subseteq Slots
  BY TableAssumption DEF Slots
<1>3. count \in Nat
  BY DEF TuplesInv, count
<1> HIDE DEF later
<1>4. CASE later = {}
  BY <1>1, <1>3, <1>4
<1>5. CASE later # {}
  <2>1. Min(later) \in Slots
    BY <1>2, <1>5, MinOfSet
  <2> QED
    BY <1>1, <1>5, <2>1 DEF SlotTypes
<1> QED
  BY <1>4, <1>5

(* Steps that touch neither directory nor entries. *)
LEMMA QuietSteps ==
    ASSUME [Next]_vars, ~build, ~CountAndPrefix, ~Scatter, ~FillAndFree
    PROVE  /\ UNCHANGED <<directory, entries>>
           /\ mpc' \in {"scatter", "fill", "built"} => mpc' = mpc
BY DEF Next, vars, Built, Caller, Worker, StartParallel, CreatePartitionThread,
       JoinPartitionThread, CreateMergeThread, JoinMergeThread, NextThread,
       PartitionTuple, WorkerReturn, MergeList

LEMMA TableInit == Init => TableInv
<1> SUFFICES ASSUME Init PROVE TableInv
  OBVIOUS
<1>1. count \in Nat
  BY TuplesInit DEF TuplesInv, count
<1>2. SlotTypes(directory)
  BY <1>1 DEF Init, SlotTypes
<1>3. entries \in Seq(Entry \cup {NoEntry})
  BY DEF Init
<1>4. mpc = "start"
  BY DEF Init
<1> QED
  BY <1>2, <1>3, <1>4 DEF TableInv

(* The pointers after the prefix sums. *)
LEMMA CountStep ==
    ASSUME PlacesInv, TableInv, CountAndPrefix
    PROVE  TableInv'
<1>1. /\ UNCHANGED <<temp_keys_pos, dirHash, global>> /\ mpc = "count" /\ mpc' = "scatter"
      /\ directory' = [s \in Slots |->
           [pointer |-> Cardinality({i \in DOMAIN Walk : dirHashId(Walk[i]) < s}),
            bloom   |-> bloomFilter(InSlot(s))]]
      /\ entries' = [i \in 1 .. count |-> NoEntry]
  BY DEF CountAndPrefix
<1>2. /\ Walk' = Walk /\ count' = count
      /\ \A e : dirHashId(e)' = dirHashId(e)
  BY <1>1 DEF Walk, Contents, count, dirHashId
<1>3. SlotOf' = SlotOf /\ \A s : InSlot(s)' = InSlot(s) /\ bloomFilter(InSlot(s))' = bloomFilter(InSlot(s))
  BY <1>1, <1>2 DEF SlotOf, InSlot, dirHashId, bloomFilter, BloomBits
<1>4. /\ Walk \in Seq(Entry) /\ Len(Walk) = count /\ count \in Nat
      /\ dirHash \in [Keys -> Slots]
  BY <1>1, WalkIsInput DEF PlacesInv, TuplesInv, Reading, count
<1>5. \A s \in Slots : {i \in DOMAIN Walk : dirHashId(Walk[i]) < s} = Lower(SlotOf, Len(Walk), s)
  BY <1>4 DEF SlotOf, Lower
<1>6. \A s \in Slots : /\ directory'[s].pointer = Cardinality(Lower(SlotOf, Len(Walk), s))
                       /\ directory'[s].bloom = bloomFilter(InSlot(s))
  BY <1>1, <1>5
<1>7. SlotOf \in [1 .. Len(Walk) -> Int]
  <2>1. \A i \in 1 .. Len(Walk) : dirHashId(Walk[i]) \in Slots
    <3>1. \A i \in 1 .. Len(Walk) : Walk[i] \in Entry
      BY <1>4
    <3> QED
      BY <1>4, <3>1 DEF dirHashId, Entry
  <2>2. \A s \in Slots : s \in Int
    BY TableAssumption DEF Slots
  <2> QED
    BY <2>1, <2>2 DEF SlotOf
<1>8. \A s \in Slots : Cardinality(Lower(SlotOf, Len(Walk), s)) \in 0 .. count
  <2>1. \A s \in Slots : s \in Int
    BY TableAssumption DEF Slots
  <2>2. \A s \in Int : Cardinality(Lower(SlotOf, Len(Walk), s)) \in 0 .. Len(Walk)
    BY <1>4, <1>7, CountingSort
  <2> QED
    BY <1>4, <2>1, <2>2
<1>9. \A s \in Slots : bloomFilter(InSlot(s)) \subseteq 0 .. 15
  <2>1. \A s \in Slots : InSlot(s) \subseteq Entry
    BY <1>4 DEF InSlot, Range
  <2> QED
    BY <2>1, BloomRange
<1>10. SlotTypes(directory)'
  BY <1>2, <1>6, <1>8, <1>9 DEF SlotTypes
<1>11. (entries \in Seq(Entry \cup {NoEntry}))'
  BY <1>1, <1>4
<1>12. Counted'
  BY <1>1, <1>2, <1>3, <1>4, <1>6 DEF Counted
<1> QED
  BY <1>1, <1>3, <1>6, <1>10, <1>11, <1>12 DEF TableInv

(* The slot of an entry is one of the directory's. *)
LEMMA SlotRange ==
    ASSUME dirHash \in [Keys -> Slots], NEW e \in Entry
    PROVE  dirHashId(e) \in Slots /\ dirHashId(e) \in Nat
<1>1. e.key \in Keys
  BY DEF Entry
<1>2. dirHash[e.key] \in Slots
  BY <1>1
<1> QED
  BY <1>2, TableAssumption DEF dirHashId, Slots

(* The entries are sorted into the ranges that the pointers bound. *)
LEMMA ScatterStep ==
    ASSUME PlacesInv, TableInv, Scatter
    PROVE  TableInv'
<1>1. /\ UNCHANGED <<temp_keys_pos, dirHash, directory>> /\ mpc = "scatter" /\ mpc' = "fill"
      /\ entries' = placed[Len(Walk)].to
  BY DEF Scatter
<1>2. count' = count /\ \A e : dirHashId(e)' = dirHashId(e)
  BY <1>1 DEF count, dirHashId
<1>3. PICK to, n, h : to = placed[Len(Walk)].to /\ n = Len(Walk) /\ h = SlotOf
  OBVIOUS
<1>4. Counted /\ \A s \in Slots : directory[s].bloom = bloomFilter(InSlot(s))
  BY <1>1 DEF TableInv
<1>5. /\ DOMAIN to = 1 .. n /\ to \in Seq(Entry)
      /\ \A i \in 1 .. n : to[Place(h, n, i)] = Walk[i]
  BY <1>3, <1>4, ScatterPlaces
<1>6. /\ Walk \in Seq(Entry) /\ IsInjective(Walk) /\ Range(Walk) = Range(temp_keys_pos)
      /\ n = count
  BY <1>1, <1>3, WalkIsInput DEF Reading
<1>7. /\ n \in Nat /\ DOMAIN Walk = 1 .. n /\ Len(to) = n
      /\ \A i \in 1 .. n : Walk[i] \in Entry /\ h[i] = dirHashId(Walk[i])
  <2>1. n \in Nat /\ DOMAIN Walk = 1 .. n /\ \A i \in 1 .. n : Walk[i] \in Entry
    <3>1. PICK w : w = Walk
      OBVIOUS
    <3>2. w \in Seq(Entry) /\ n = Len(w)
      BY <1>3, <1>6, <3>1
    <3>3. n \in Nat /\ DOMAIN w = 1 .. n /\ \A i \in 1 .. n : w[i] \in Entry
      BY <3>2
    <3> QED
      BY <3>1, <3>3
  <2>2. Len(to) = n
    BY <1>5, <2>1
  <2>3. \A i \in 1 .. n : h[i] = dirHashId(Walk[i])
    BY <1>3 DEF SlotOf
  <2> QED
    BY <2>1, <2>2, <2>3
<1>8. /\ \A i \in 1 .. n : h[i] \in Slots
      /\ \A s \in Slots : s \in Int
  <2>1. dirHash \in [Keys -> Slots]
    BY <1>4 DEF Counted
  <2>2. \A s \in Slots : s \in Int
    BY TableAssumption DEF Slots
  <2> QED
    BY <1>7, <2>1, <2>2, SlotRange
<1>9. h \in [1 .. n -> Int]
  <2>1. h = [i \in 1 .. n |-> h[i]]
    BY <1>3 DEF SlotOf
  <2> QED
    BY <1>8, <2>1
<1>10. /\ \A i \in 1 .. n : Place(h, n, i) \in 1 .. n
       /\ \A i, j \in 1 .. n : Place(h, n, i) = Place(h, n, j) => i = j
       /\ \A s \in Int : \A i \in 1 .. n :
            Place(h, n, i) <= Cardinality(Lower(h, n, s)) <=> h[i] < s
  BY <1>7, <1>9, CountingSort
<1>11. ASSUME NEW x \in 1 .. n PROVE \E i \in 1 .. n : Place(h, n, i) = x
  <2> DEFINE f == [i \in 1 .. n |-> Place(h, n, i)]
  <2>1. f \in [1 .. n -> 1 .. n] /\ \A i \in 1 .. n : f[i] = Place(h, n, i)
    BY <1>10
  <2> HIDE DEF f
  <2>2. \A i, j \in 1 .. n : f[i] = f[j] => i = j
    BY <1>10, <2>1
  <2>3. \E i \in 1 .. n : f[i] = x
    BY ZenonT(60), <1>7, <2>1, <2>2, OntoItself
  <2> QED
    BY <2>1, <2>3
<1>12. \A x \in 1 .. n : \E i \in 1 .. n : x = Place(h, n, i) /\ to[x] = Walk[i]
  BY <1>5, <1>11
<1>13. IsInjective(to)
  <2> SUFFICES ASSUME NEW x \in 1 .. n, NEW y \in 1 .. n, to[x] = to[y] PROVE x = y
    BY <1>5 DEF IsInjective
  <2>1. PICK i \in 1 .. n : x = Place(h, n, i) /\ to[x] = Walk[i]
    BY <1>12
  <2>2. PICK j \in 1 .. n : y = Place(h, n, j) /\ to[y] = Walk[j]
    BY <1>12
  <2>3. i = j
    BY <1>6, <1>7, <2>1, <2>2 DEF IsInjective
  <2> QED
    BY <2>1, <2>2, <2>3
<1>14. Range(to) = Range(Walk)
  <2>1. ASSUME NEW i \in 1 .. n PROVE Walk[i] \in Range(to)
    BY <1>5, <1>10 DEF Range
  <2>2. ASSUME NEW x \in 1 .. n PROVE to[x] \in Range(Walk)
    BY <1>7, <1>12 DEF Range
  <2> QED
    BY <1>5, <1>7, <2>1, <2>2 DEF Range
<1>15. ASSUME NEW s \in Slots, NEW x \in 1 .. n
       PROVE  x <= directory[s].pointer <=> dirHashId(to[x]) < s
  <2>1. PICK i \in 1 .. n : x = Place(h, n, i) /\ to[x] = Walk[i]
    BY <1>12
  <2>2. directory[s].pointer = Cardinality(Lower(h, n, s))
    BY <1>3, <1>4 DEF Counted
  <2> QED
    BY <1>7, <1>8, <1>10, <2>1, <2>2
<1>16. ASSUME NEW x \in 1 .. n
       PROVE  BloomBits(to[x].key) \subseteq directory[dirHashId(to[x])].bloom
  <2>1. PICK i \in 1 .. n : to[x] = Walk[i]
    BY <1>12
  <2>2. dirHashId(Walk[i]) \in Slots /\ Walk[i] \in InSlot(dirHashId(Walk[i]))
    BY <1>7, <1>8 DEF InSlot, Range
  <2>3. InSlot(dirHashId(Walk[i])) \subseteq Entry
    BY <1>6 DEF InSlot, Range
  <2>4. BloomBits(Walk[i].key) \subseteq bloomFilter(InSlot(dirHashId(Walk[i])))
    BY <2>2, <2>3, BloomRange
  <2> QED
    BY <1>4, <2>1, <2>2, <2>4
<1>17. entries' = to
  BY <1>1, <1>3
<1>18. EntriesOK'
  BY <1>1, <1>2, <1>5, <1>6, <1>7, <1>13, <1>14, <1>17 DEF EntriesOK
<1>19. PointersOK'
  BY <1>1, <1>2, <1>6, <1>15, <1>17 DEF PointersOK, dirHashId
<1>20. BloomsOK'
  <2>1. \A x \in 1 .. count : BloomBits(to[x].key) \subseteq directory[dirHashId(to[x])].bloom
    BY <1>6, <1>16
  <2>2. \A x : BloomBits(x)' = BloomBits(x)
    BY DEF BloomBits
  <2>3. \A x \in 1 .. count :
          BloomBits(to[x].key)' \subseteq directory'[dirHashId(to[x])'].bloom
    BY <1>1, <1>2, <2>1, <2>2
  <2> QED
    BY <1>2, <1>17, <2>3 DEF BloomsOK, dirHashId, BloomBits
<1>21. SlotTypes(directory)'
  BY <1>1, <1>2 DEF TableInv, SlotTypes
<1>22. (entries \in Seq(Entry \cup {NoEntry}))'
  BY <1>5, <1>17
<1> QED
  BY <1>1, <1>18, <1>19, <1>20, <1>21, <1>22 DEF TableInv, TableDone

(* Only slots behind the last entry point at the end: filling the empty    *)
(* tail changes no pointer and no filter of an entry.                      *)
LEMMA FillStep ==
    ASSUME TuplesInv, TableInv, FillAndFree
    PROVE  TableInv'
<1>1. /\ UNCHANGED <<temp_keys_pos, dirHash, entries>> /\ mpc = "fill" /\ mpc' = "built"
      /\ directory' = FillEmpty(directory)
  BY DEF FillAndFree
<1>2. count' = count /\ \A e : dirHashId(e)' = dirHashId(e)
  BY <1>1 DEF count, dirHashId
<1>3. TableDone /\ SlotTypes(directory)
  BY <1>1 DEF TableInv
<1>4. count \in Nat /\ \A s \in Slots : directory[s].pointer \in 0 .. count
  BY <1>3 DEF TuplesInv, count, SlotTypes
<1>5. /\ \A i \in 1 .. count : entries[i] \in Entry /\ dirHashId(entries[i]) \in Slots
      /\ \A s \in Slots : s \in Nat
  <2>1. \A i \in 1 .. count : entries[i] \in Entry
    BY <1>3 DEF TableDone, EntriesOK
  <2> QED
    BY <2>1, SlotRange, TableAssumption DEF TuplesInv, Slots
<1>6. ASSUME NEW s \in Slots
      PROVE  /\ directory'[s].pointer = directory[s].pointer
             /\ directory[s].pointer # count => directory'[s] = directory[s]
  <2> DEFINE later == {q \in Slots : q >= s /\ directory[q].pointer # count}
  <2>1. directory'[s] = IF later = {} THEN [pointer |-> count, bloom |-> {}]
                        ELSE directory[Min(later)]
    BY <1>1 DEF FillEmpty
  <2>2. later \in SUBSET Nat /\ later \subseteq Slots
    BY <1>5
  <2>3. s \in later <=> directory[s].pointer # count
    BY <1>5
  <2>4. CASE later = {}
    BY <2>1, <2>3, <2>4
  <2>5. CASE later # {}
    <3>1. PICK m : m = Min(later)
      OBVIOUS
    <3>2. m \in later /\ \A q \in later : m <= q
      <4> HIDE DEF later
      <4> QED
        BY <2>2, <2>5, <3>1, MinOfSet
    <3>3. m \in Slots /\ m >= s /\ directory[m].pointer # count
      BY <3>2
    <3>4. directory'[s] = directory[m]
      BY <2>1, <2>5, <3>1
    <3>5. CASE s \in later
      <4>1. m = s
        BY <1>5, <3>2, <3>3, <3>5
      <4> QED
        BY <3>4, <4>1
    <3>6. CASE s \notin later
      <4>1. directory[s].pointer = count
        BY <2>3, <3>6
      <4>2. CASE count = 0
        BY <1>4, <3>3, <4>2
      <4>3. CASE count # 0
        <5>1. count \in 1 .. count /\ count <= directory[s].pointer
          BY <1>4, <4>1, <4>3
        <5>2. dirHashId(entries[count]) < s
          BY <1>3, <5>1 DEF TableDone, PointersOK
        <5>3. dirHashId(entries[count]) < m
          BY <1>5, <3>3, <5>1, <5>2
        <5>4. count <= directory[m].pointer
          BY <1>3, <3>3, <5>1, <5>3 DEF TableDone, PointersOK
        <5> QED
          BY <1>4, <3>3, <5>4
      <4> QED
        BY <4>2, <4>3
    <3> QED
      BY <3>5, <3>6
  <2> QED
    BY <2>4, <2>5
<1>7. EntriesOK'
  BY <1>1, <1>2, <1>3 DEF TableDone, EntriesOK
<1>8. PointersOK'
  BY <1>1, <1>2, <1>3, <1>6 DEF TableDone, PointersOK, dirHashId
<1>9. ASSUME NEW i \in 1 .. count
      PROVE  BloomBits(entries[i].key) \subseteq directory'[dirHashId(entries[i])].bloom
  <2>1. PICK s : s = dirHashId(entries[i])
    OBVIOUS
  <2>2. s \in Slots /\ s \in Nat
    BY <1>5, <2>1
  <2>3. ~ (i <= directory[s].pointer)
    BY <1>3, <2>1, <2>2 DEF TableDone, PointersOK
  <2>4. directory[s].pointer # count
    BY <1>4, <2>3
  <2> QED
    BY <1>3, <1>6, <2>1, <2>2, <2>4 DEF TableDone, BloomsOK
<1>10. BloomsOK'
  BY <1>1, <1>2, <1>9 DEF BloomsOK, dirHashId, BloomBits
<1>11. SlotTypes(FillEmpty(directory))
  BY <1>3, FillEmptyTypes
<1>12. SlotTypes(directory)'
  BY <1>1, <1>2, <1>11 DEF SlotTypes
<1> QED
  BY <1>1, <1>7, <1>8, <1>10, <1>12 DEF TableInv, TableDone

(* The sequential build sorts by slot and lets each slot point to its      *)
(* first entry, or to the next slot's if it has none.                      *)
LEMMA BuildStep ==
    ASSUME PlacesInv, build
    PROVE  TableInv'
<1>1. TuplesInv
  BY DEF PlacesInv
<1>2. UNCHANGED <<temp_keys_pos, dirHash>> /\ mpc' = "built"
  BY DEF build
<1>3. count' = count /\ \A e : dirHashId(e)' = dirHashId(e)
  BY <1>2 DEF count, dirHashId
<1> DEFINE InRange(l, s) == {i \in 1 .. count : dirHashId(l[i]) = s}
           DirOf(l) == [s \in Slots |->
                   IF InRange(l, s) = {} THEN [pointer |-> count, bloom |-> {}]
                   ELSE [pointer |-> Min(InRange(l, s)) - 1,
                         bloom |-> bloomFilter({l[i] : i \in InRange(l, s)})]]
<1>4. PICK order \in Bijection(1 .. count, 1 .. count) :
        /\ SortedBySlot([i \in 1 .. count |-> temp_keys_pos[order[i]]])
        /\ entries' = [i \in 1 .. count |-> temp_keys_pos[order[i]]]
        /\ directory' = FillEmpty(DirOf([i \in 1 .. count |-> temp_keys_pos[order[i]]]))
  BY DEF build
<1>5. PICK l : l = [i \in 1 .. count |-> temp_keys_pos[order[i]]]
  OBVIOUS
<1>6. PICK n : n = count
  OBVIOUS
<1>7. SortedBySlot(l) /\ entries' = l /\ directory' = FillEmpty(DirOf(l))
  BY <1>4, <1>5
<1>8. /\ order \in [1 .. n -> 1 .. n] /\ \A i, j \in 1 .. n : order[i] = order[j] => i = j
      /\ \A t \in 1 .. n : \E i \in 1 .. n : order[i] = t
  BY <1>6 DEF Bijection, Injection, Surjection, IsInjective
<1>9. /\ n \in Nat /\ DOMAIN temp_keys_pos = 1 .. n /\ Len(temp_keys_pos) = n
      /\ \A t \in 1 .. n : temp_keys_pos[t] \in Entry
  BY <1>1, <1>6 DEF TuplesInv, count
<1>10. DOMAIN l = 1 .. n /\ \A i \in 1 .. n : l[i] = temp_keys_pos[order[i]] /\ l[i] \in Entry
  BY <1>5, <1>6, <1>8, <1>9
<1>11. l \in Seq(Entry) /\ Len(l) = n
  <2>1. l = [i \in 1 .. n |-> l[i]]
    BY <1>5, <1>6
  <2> QED
    BY <1>9, <1>10, <2>1
<1>12. IsInjective(l)
  <2> SUFFICES ASSUME NEW i \in 1 .. n, NEW j \in 1 .. n, l[i] = l[j] PROVE i = j
    BY <1>10 DEF IsInjective
  <2>1. order[i] = order[j]
    <3>1. PICK t, u : t = order[i] /\ u = order[j]
      OBVIOUS
    <3>2. t \in 1 .. count /\ u \in 1 .. count /\ temp_keys_pos[t] = temp_keys_pos[u]
      BY <1>6, <1>8, <1>10, <3>1
    <3>3. t = u
      BY <1>1, <3>2, TuplesDiffer
    <3> QED
      BY <3>1, <3>3
  <2> QED
    BY <1>8, <2>1
<1>13. Range(l) = Range(temp_keys_pos)
  <2>1. ASSUME NEW i \in 1 .. n PROVE l[i] \in Range(temp_keys_pos)
    BY <1>8, <1>9, <1>10 DEF Range
  <2>2. ASSUME NEW t \in 1 .. n PROVE temp_keys_pos[t] \in Range(l)
    BY SMTT(30), <1>8, <1>10 DEF Range
  <2> QED
    BY <1>9, <1>10, <2>1, <2>2 DEF Range
<1>14. /\ \A i \in 1 .. n : dirHashId(l[i]) \in Slots /\ dirHashId(l[i]) \in Nat
       /\ \A s \in Slots : s \in Nat
  BY <1>1, <1>10, SlotRange, TableAssumption DEF TuplesInv, Slots
<1>15. \A i, j \in 1 .. n : i < j => dirHashId(l[i]) <= dirHashId(l[j])
  BY <1>7, <1>10 DEF SortedBySlot
<1>16. PICK dir, R, F, B :
         /\ dir = DirOf(l)
         /\ R = [s \in Slots |-> InRange(l, s)]
         /\ F = [s \in Slots |-> Min(InRange(l, s))]
         /\ B = [s \in Slots |-> bloomFilter({l[i] : i \in InRange(l, s)})]
  OBVIOUS
<1>17. directory' = FillEmpty(dir)
  BY <1>7, <1>16
<1>18. ASSUME NEW s \in Slots
       PROVE  /\ R[s] = InRange(l, s) /\ F[s] = Min(InRange(l, s))
              /\ B[s] = bloomFilter({l[i] : i \in InRange(l, s)})
  BY <1>16
<1>19. ASSUME NEW s \in Slots, NEW i
       PROVE  i \in R[s] <=> i \in 1 .. n /\ dirHashId(l[i]) = s
  BY <1>6, <1>18
<1>20. ASSUME NEW s \in Slots, R[s] = {}
       PROVE  dir[s] = [pointer |-> n, bloom |-> {}]
  BY <1>6, <1>16, <1>18, <1>20
<1>21. ASSUME NEW s \in Slots, R[s] # {}
       PROVE  dir[s] = [pointer |-> F[s] - 1, bloom |-> B[s]]
  <2>1. dir[s] = IF InRange(l, s) = {} THEN [pointer |-> n, bloom |-> {}]
                 ELSE [pointer |-> Min(InRange(l, s)) - 1,
                       bloom |-> bloomFilter({l[i] : i \in InRange(l, s)})]
    BY <1>6, <1>16
  <2> HIDE DEF InRange
  <2> QED
    BY <1>18, <1>21, <2>1
<1> HIDE DEF InRange, DirOf
<1>22. ASSUME NEW s \in Slots, R[s] # {}
       PROVE  F[s] \in R[s] /\ F[s] \in 1 .. n /\ \A i \in R[s] : F[s] <= i
  <2>1. PICK r : r = R[s]
    OBVIOUS
  <2>2. \A i : i \in r => i \in 1 .. n
    BY <1>19, <2>1
  <2>3. r \in SUBSET Nat /\ r # {}
    BY <1>9, <1>22, <2>1, <2>2
  <2>4. F[s] = Min(r)
    BY <1>18, <2>1
  <2>5. F[s] \in r /\ \A i \in r : F[s] <= i
    BY <2>3, <2>4, MinOfSet
  <2> QED
    BY <2>1, <2>2, <2>5
<1>23. ASSUME NEW s \in Slots
       PROVE  B[s] \subseteq 0 .. 15 /\ \A i \in R[s] : BloomBits(l[i].key) \subseteq B[s]
  <2>1. PICK r, es : r = R[s] /\ es = {l[i] : i \in r}
    OBVIOUS
  <2>2. \A i : i \in r => i \in 1 .. n
    BY <1>19, <2>1
  <2>3. es \subseteq Entry /\ \A i \in r : l[i] \in es
    BY <1>10, <2>1, <2>2
  <2>4. B[s] = bloomFilter(es)
    BY <1>18, <2>1
  <2> QED
    BY <2>1, <2>3, <2>4, BloomRange
<1>24. ASSUME NEW s \in Slots
       PROVE  /\ R[s] = {} <=> dir[s].pointer = n
              /\ dir[s].pointer \in 0 .. n /\ dir[s].bloom \subseteq 0 .. 15
  <2>1. CASE R[s] = {}
    <3>1. dir[s].pointer = n /\ dir[s].bloom = {}
      BY <1>20, <2>1
    <3> QED
      BY <1>9, <2>1, <3>1
  <2>2. CASE R[s] # {}
    <3>1. PICK f, b : f = F[s] - 1 /\ b = B[s]
      OBVIOUS
    <3>2. dir[s] = [pointer |-> f, bloom |-> b]
      BY <1>21, <2>2, <3>1
    <3>3. dir[s].pointer = f /\ dir[s].bloom = b
      BY <3>2
    <3>4. F[s] \in 1 .. n /\ B[s] \subseteq 0 .. 15
      BY <1>22, <1>23, <2>2
    <3> QED
      BY <1>9, <2>2, <3>1, <3>3, <3>4
  <2> QED
    BY <2>1, <2>2
<1>25. ASSUME NEW s \in Slots
       PROVE  /\ \A i \in 1 .. n : i <= directory'[s].pointer <=> dirHashId(l[i]) < s
              /\ R[s] # {} => directory'[s] = dir[s]
  <2> DEFINE later == {q \in Slots : q >= s /\ dir[q].pointer # n}
  <2>1. directory'[s] = IF later = {} THEN [pointer |-> n, bloom |-> {}] ELSE dir[Min(later)]
    BY <1>6, <1>17 DEF FillEmpty
  <2>2. later \in SUBSET Nat
    BY <1>14
  <2>3. \A q : q \in later <=> q \in Slots /\ q >= s /\ R[q] # {}
    BY <1>24
  <2>4. s \in Nat /\ s >= s
    BY <1>14
  <2>5. PICK m : m = Min(later)
    OBVIOUS
  <2>6. ASSUME NEW i \in 1 .. n
        PROVE  /\ dirHashId(l[i]) \in Slots /\ dirHashId(l[i]) \in Nat
               /\ i \in R[dirHashId(l[i])]
    BY <1>14, <1>19
  <2> HIDE DEF later
  <2>7. CASE later = {}
    <3>1. ASSUME NEW i \in 1 .. n PROVE dirHashId(l[i]) < s
      BY <2>3, <2>4, <2>6, <2>7
    <3>2. directory'[s].pointer = n
      BY <2>1, <2>7
    <3>3. R[s] = {}
      BY <2>3, <2>4, <2>7
    <3> QED
      BY <1>9, <3>1, <3>2, <3>3
  <2>8. CASE later # {}
    <3>1. m \in later /\ \A q \in later : m <= q
      BY <2>2, <2>5, <2>8, MinOfSet
    <3>2. m \in Slots /\ m >= s /\ R[m] # {} /\ m \in Nat
      BY <1>14, <2>3, <3>1
    <3>3. PICK f : f = F[m]
      OBVIOUS
    <3>4. /\ directory'[s] = dir[m] /\ dir[m].pointer = f - 1 /\ f \in 1 .. n
          /\ dirHashId(l[f]) = m
      <4>1. directory'[s] = dir[m]
        BY <2>1, <2>5, <2>8
      <4>2. dir[m] = [pointer |-> f - 1, bloom |-> B[m]]
        BY <1>21, <3>2, <3>3
      <4>3. f \in R[m]
        BY <1>22, <3>2, <3>3
      <4> QED
        BY <1>19, <3>2, <4>1, <4>2, <4>3
    <3>5. ASSUME NEW i \in 1 .. n PROVE i <= f - 1 <=> dirHashId(l[i]) < s
      <4>1. PICK d : d = dirHashId(l[i])
        OBVIOUS
      <4>2. d \in Slots /\ d \in Nat /\ i \in R[d]
        BY <2>6, <4>1
      <4>3. d >= s => m <= d
        BY <2>3, <3>1, <4>2
      <4>4. d = m => f <= i
        BY <1>22, <3>2, <3>3, <4>2
      <4>5. i < f => d <= m
        BY <1>15, <3>4, <4>1
      <4>6. f < i => m <= d
        BY <1>15, <3>4, <4>1
      <4>7. i = f => d = m
        BY <3>4, <4>1
      <4> QED
        BY <1>9, <2>4, <3>2, <3>4, <4>1, <4>2, <4>3, <4>4, <4>5, <4>6, <4>7
    <3>6. R[s] # {} => m = s
      <4>1. R[s] # {} => s \in later
        BY <2>3, <2>4
      <4> QED
        BY <2>4, <3>1, <3>2, <4>1
    <3> QED
      BY <3>4, <3>5, <3>6
  <2> QED
    BY <2>7, <2>8
<1>26. ASSUME NEW i \in 1 .. n
       PROVE  BloomBits(l[i].key) \subseteq directory'[dirHashId(l[i])].bloom
  <2>1. PICK s : s = dirHashId(l[i])
    OBVIOUS
  <2>2. s \in Slots /\ i \in R[s]
    BY <1>14, <1>19, <2>1
  <2>3. directory'[s] = dir[s] /\ dir[s] = [pointer |-> F[s] - 1, bloom |-> B[s]]
    BY <1>25, <1>21, <2>2
  <2>4. directory'[s].bloom = B[s]
    BY <2>3
  <2> QED
    BY <1>23, <2>1, <2>2, <2>4
<1>27. EntriesOK'
  BY <1>2, <1>3, <1>6, <1>7, <1>11, <1>12, <1>13 DEF EntriesOK
<1>28. PointersOK'
  BY <1>2, <1>3, <1>6, <1>7, <1>25 DEF PointersOK, dirHashId
<1>29. BloomsOK'
  <2>1. ASSUME NEW i \in 1 .. count
        PROVE  (BloomBits(entries[i].key) \subseteq directory[dirHashId(entries[i])].bloom)'
    <3>1. PICK e : e = l[i]
      OBVIOUS
    <3>2. entries'[i] = e
      BY <1>7, <3>1
    <3>3. BloomBits(e.key) \subseteq directory'[dirHashId(e)].bloom
      BY <1>6, <1>26, <3>1
    <3>4. (BloomBits(entries[i].key))' = BloomBits(e.key)
      BY <3>2 DEF BloomBits
    <3>5. (directory[dirHashId(entries[i])].bloom)' = directory'[dirHashId(e)].bloom
      BY <1>2, <3>2 DEF dirHashId
    <3> QED
      BY <3>3, <3>4, <3>5
  <2> QED
    BY <1>3, <2>1 DEF BloomsOK
<1>30. SlotTypes(FillEmpty(dir))
  <2>1. SlotTypes(dir)
    BY <1>6, <1>24 DEF SlotTypes
  <2> QED
    BY <1>1, <2>1, FillEmptyTypes
<1>31. SlotTypes(directory)'
  BY <1>3, <1>17, <1>30 DEF SlotTypes
<1>32. (entries \in Seq(Entry \cup {NoEntry}))'
  BY <1>7, <1>11
<1> QED
  BY <1>2, <1>27, <1>28, <1>29, <1>31, <1>32 DEF TableInv, TableDone

(* Every step keeps the table as far as it is made. *)
LEMMA TableStep == PlacesInv /\ TableInv /\ [Next]_vars => TableInv'
<1> SUFFICES ASSUME PlacesInv, TableInv, [Next]_vars PROVE TableInv'
  OBVIOUS
<1>1. CASE build
  BY <1>1, BuildStep
<1>2. CASE CountAndPrefix
  BY <1>2, CountStep
<1>3. CASE Scatter
  BY <1>3, ScatterStep
<1>4. CASE FillAndFree
  BY <1>4, FillStep DEF PlacesInv
<1>5. CASE ~build /\ ~CountAndPrefix /\ ~Scatter /\ ~FillAndFree
  <2>1. /\ UNCHANGED <<temp_keys_pos, dirHash, directory, entries>>
        /\ mpc' \in {"scatter", "fill", "built"} => mpc' = mpc
    BY <1>5, QuietSteps, InputUnchanged
  <2>2. count' = count /\ \A e : dirHashId(e)' = dirHashId(e)
    BY <2>1 DEF count, dirHashId
  <2>3. SlotTypes(directory)'
    BY <2>1, <2>2 DEF TableInv, SlotTypes
  <2>4. (entries \in Seq(Entry \cup {NoEntry}))'
    BY <2>1 DEF TableInv
  <2>5. ASSUME mpc' = "scatter"
        PROVE  Counted' /\ \A s \in Slots : directory'[s].bloom = bloomFilter(InSlot(s))'
    <3>1. mpc = "scatter"
      BY <2>1, <2>5
    <3>2. \A k \in Threads : ~PartitionTuple(k) /\ ~MergeList(k)
      BY <3>1 DEF PlacesInv, PInv, PhaseInv, PartitionTuple, MergeList
    <3>3. UNCHANGED <<local, global>>
      BY <1>5, <3>2, OtherSteps
    <3>4. Walk' = Walk
      BY <3>3 DEF Walk, Contents
    <3>5. SlotOf' = SlotOf /\ \A s : InSlot(s)' = InSlot(s)
      BY <2>2, <3>4 DEF SlotOf, InSlot
    <3>6. Counted /\ \A s \in Slots : directory[s].bloom = bloomFilter(InSlot(s))
      BY <3>1 DEF TableInv
    <3>7. Counted'
      BY <2>1, <3>4, <3>5, <3>6 DEF Counted
    <3>8. \A s : bloomFilter(InSlot(s))' = bloomFilter(InSlot(s))
      BY <3>5 DEF bloomFilter, BloomBits
    <3> QED
      BY <2>1, <3>6, <3>7, <3>8
  <2>6. ASSUME mpc' \in {"fill", "built"} PROVE TableDone'
    <3>1. EntriesOK /\ PointersOK /\ BloomsOK
      BY <2>1, <2>6 DEF TableInv, TableDone
    <3>2. EntriesOK'
      BY <2>1, <2>2, <3>1 DEF EntriesOK
    <3>3. PointersOK'
      BY <2>1, <2>2, <3>1 DEF PointersOK
    <3>4. BloomsOK'
      BY <2>1, <2>2, <3>1 DEF BloomsOK, BloomBits
    <3> QED
      BY <3>2, <3>3, <3>4 DEF TableDone
  <2> QED
    BY <2>3, <2>4, <2>5, <2>6 DEF TableInv
<1> QED
  BY <1>1, <1>2, <1>3, <1>4, <1>5

(* The inductive invariant of both builds: where the tuples are, and as    *)
(* how much of the table is made, that it is right.                        *)
BuildInv == PlacesInv /\ TableInv

THEOREM TableIsRight == Spec => []BuildInv
<1>1. Init => BuildInv
  BY PhaseInit, TuplesInit, SlicesInit, ListsInit, TableInit DEF BuildInv, PlacesInv
<1>2. PlacesInv /\ [Next]_vars => PlacesInv'
  BY DomainsStep, PhaseStep, MergeStep, TuplesStep, SlicesStep, ListsStep, WorkStep
     DEF PlacesInv, PInv
<1>3. BuildInv /\ [Next]_vars => BuildInv'
  BY <1>2, TableStep DEF BuildInv
<1> QED
  BY <1>1, <1>3, PTL DEF Spec

(* The types, the chunks within capacity and the counts that agree with    *)
(* the lists, in every state.                                              *)
THEOREM BuildTypes == Spec => []TypeOK
<1>1. BuildInv => TypeOK
  <2> SUFFICES ASSUME BuildInv PROVE TypeOK
    OBVIOUS
  <2>1. /\ Domains /\ TuplesInv /\ SlicesInv /\ ListsInv /\ TableInv
    BY DEF BuildInv, PlacesInv, PInv
  <2>2. ASSUME NEW p \in Partitions
        PROVE  /\ PartitionOK(global[p])
               /\ \A i \in Threads : PartitionOK(local[i][p])
    <3>1. NumThreads \in Holders /\ List(NumThreads, p) = global[p]
      BY TableAssumption DEF Holders, List
    <3>2. ASSUME NEW i \in Threads
          PROVE  i \in Holders /\ List(i, p) = local[i][p]
      BY TableAssumption DEF Holders, List, Threads
    <3> QED
      BY <2>1, <3>1, <3>2 DEF ListsInv
  <2>3. /\ temp_keys_pos \in Seq(Entry) /\ count <= MaxCount
        /\ dirHash \in [Keys -> Slots]
    BY <2>1 DEF TuplesInv
  <2>4. /\ mpc \in {"start", "create_partition", "join_partition", "create_merge",
                    "join_merge", "count", "scatter", "fill", "built"}
        /\ mi \in Threads /\ next \in 0 .. count
    BY <2>1 DEF SlicesInv, Domains
  <2>5. \A i \in Threads :
          /\ wpc[i] \in {"none", "partition", "merge", "done"}
          /\ at[i] \in args[i].start .. args[i].end
          /\ from[i] \in Threads
    BY <2>1 DEF SlicesInv
  <2>6. /\ \A s \in Slots : directory[s].pointer \in 0 .. count
                            /\ directory[s].bloom \subseteq 0 .. 15
        /\ entries \in Seq(Entry \cup {NoEntry})
    BY <2>1 DEF TableInv, SlotTypes
  <2> QED
    BY <2>2, <2>3, <2>4, <2>5, <2>6 DEF TypeOK
<1> QED
  BY <1>1, TableIsRight, PTL

-----------------------------------------------------------------------------
(* What the finished table promises.                                       *)

(* Where the entries of slot s end. *)
SlotEnd(s) == IF s = DirSize - 1 THEN count ELSE directory[s + 1].pointer

LEMMA SlotRanges ==
    ASSUME BuildInv, mpc = "built", NEW s \in Slots
    PROVE  /\ directory[s].pointer \in 0 .. count /\ SlotEnd(s) \in 0 .. count
           /\ directory[s].pointer <= SlotEnd(s)
           /\ \A i \in 1 .. count :
                /\ entries[i] \in Entry
                /\ directory[s].pointer < i /\ i <= SlotEnd(s) <=> dirHashId(entries[i]) = s
<1>1. TuplesInv /\ EntriesOK /\ PointersOK /\ SlotTypes(directory)
  BY DEF BuildInv, PlacesInv, TableInv, TableDone
<1>2. count \in Nat /\ \A q \in Slots : directory[q].pointer \in 0 .. count
  BY <1>1 DEF TuplesInv, SlotTypes, count
<1>3. ASSUME NEW i \in 1 .. count
      PROVE  /\ entries[i] \in Entry
             /\ dirHashId(entries[i]) \in Slots /\ dirHashId(entries[i]) \in Nat
  <2>1. entries[i] \in Entry
    BY <1>1, <1>2 DEF EntriesOK
  <2> QED
    BY <1>1, <2>1, SlotRange DEF TuplesInv
<1>4. ASSUME NEW q \in Slots, NEW i \in 1 .. count
      PROVE  i <= directory[q].pointer <=> dirHashId(entries[i]) < q
  BY <1>1 DEF PointersOK
<1>5. s \in Nat /\ s <= DirSize - 1 /\ DirSize \in Nat
  BY TableAssumption DEF Slots
<1>6. CASE s = DirSize - 1
  <2>1. SlotEnd(s) = count
    BY <1>6 DEF SlotEnd
  <2>2. ASSUME NEW i \in 1 .. count
        PROVE  directory[s].pointer < i <=> dirHashId(entries[i]) = s
    <3>1. PICK d : d = dirHashId(entries[i])
      OBVIOUS
    <3>2. d \in Nat /\ d <= DirSize - 1
      BY <1>3, <1>5, <3>1 DEF Slots
    <3>3. i <= directory[s].pointer <=> d < s
      BY <1>4, <3>1
    <3> QED
      BY <1>2, <1>5, <1>6, <3>1, <3>2, <3>3
  <2> QED
    BY <1>2, <1>3, <2>1, <2>2
<1>7. CASE s # DirSize - 1
  <2>1. PICK q : q = s + 1
    OBVIOUS
  <2>2. q \in Slots /\ SlotEnd(s) = directory[q].pointer
    BY <1>5, <1>7, <2>1 DEF SlotEnd, Slots
  <2>3. directory[s].pointer <= directory[q].pointer
    <3>1. PICK i : i = directory[s].pointer
      OBVIOUS
    <3>2. i \in 0 .. count /\ directory[q].pointer \in 0 .. count
      BY <1>2, <2>2, <3>1
    <3>3. CASE i \in 1 .. count
      <4>1. dirHashId(entries[i]) < s
        BY <1>2, <1>4, <3>1, <3>3
      <4>2. dirHashId(entries[i]) < q
        BY <1>3, <1>5, <2>1, <3>3, <4>1
      <4> QED
        BY <1>4, <2>2, <3>1, <3>3, <4>2
    <3>4. CASE i = 0
      BY <3>1, <3>2, <3>4
    <3> QED
      BY <1>2, <3>2, <3>3, <3>4
  <2>4. ASSUME NEW i \in 1 .. count
        PROVE  directory[s].pointer < i /\ i <= directory[q].pointer
                 <=> dirHashId(entries[i]) = s
    <3>1. PICK d : d = dirHashId(entries[i])
      OBVIOUS
    <3>2. d \in Nat
      BY <1>3, <3>1
    <3>3. /\ i <= directory[s].pointer <=> d < s
          /\ i <= directory[q].pointer <=> d < q
      BY <1>4, <2>2, <3>1
    <3> QED
      BY <1>2, <1>5, <2>1, <2>2, <3>1, <3>2, <3>3
  <2> QED
    BY <1>2, <1>3, <2>2, <2>3, <2>4
<1> QED
  BY <1>6, <1>7

(* Between a slot's pointer and the next one lie exactly its entries.      *)
THEOREM DirectoryIsRight == Spec => []DirectoryRanges
<1>1. BuildInv => DirectoryRanges
  <2> SUFFICES ASSUME BuildInv, mpc = "built", NEW s \in Slots
               PROVE  /\ directory[s].pointer <= SlotEnd(s)
                      /\ \A i \in 1 .. count :
                           directory[s].pointer < i /\ i <= SlotEnd(s)
                             <=> entries[i].key \in Keys /\ dirHashId(entries[i]) = s
    BY DEF DirectoryRanges, SlotEnd
  <2>1. \A i \in 1 .. count : entries[i].key \in Keys
    BY SlotRanges DEF Entry
  <2> QED
    BY <2>1, SlotRanges
<1> QED
  BY <1>1, TableIsRight, PTL

(* A probe of the finished table finds every tuple with the key, once. *)
LEMMA ProbeFinds ==
    ASSUME BuildInv, mpc = "built", NEW key \in Keys
    PROVE  /\ IsInjective(probe(key))
           /\ Range(probe(key)) = {temp_keys_pos[t].key_pos :
                                     t \in {u \in 1 .. count : temp_keys_pos[u].key = key}}
<1>1. TuplesInv /\ EntriesOK /\ BloomsOK
  BY DEF BuildInv, PlacesInv, TableInv, TableDone
<1>2. PICK s, n : s = dirHash[key] /\ n = count
  OBVIOUS
<1>3. PICK first, last : first = directory[s].pointer /\ last = SlotEnd(s)
  OBVIOUS
<1>4. s \in Slots
  BY <1>1, <1>2 DEF TuplesInv
<1>5. /\ n \in Nat /\ first \in 0 .. n /\ last \in 0 .. n /\ first <= last
      /\ \A i \in 1 .. n : entries[i] \in Entry
      /\ \A i \in 1 .. n : first < i /\ i <= last <=> dirHashId(entries[i]) = s
  BY SMTT(30), <1>1, <1>2, <1>3, <1>4, SlotRanges DEF TuplesInv, count
<1>6. /\ Len(entries) = n /\ DOMAIN entries = 1 .. n /\ DOMAIN temp_keys_pos = 1 .. n
      /\ \A i, j \in 1 .. n : entries[i] = entries[j] => i = j
      /\ \A i \in 1 .. n : \E t \in 1 .. n : entries[i] = temp_keys_pos[t]
      /\ \A t \in 1 .. n : \E i \in 1 .. n : entries[i] = temp_keys_pos[t]
      /\ \A t \in 1 .. n : temp_keys_pos[t].key_pos = t - 1
  <2>1. /\ Len(entries) = n /\ DOMAIN entries = 1 .. n /\ DOMAIN temp_keys_pos = 1 .. n
    BY <1>1, <1>2 DEF EntriesOK, TuplesInv, count
  <2>2. \A i, j \in 1 .. n : entries[i] = entries[j] => i = j
    BY <1>1, <2>1 DEF EntriesOK, IsInjective
  <2>3. Range(entries) = Range(temp_keys_pos)
    BY <1>1 DEF EntriesOK
  <2>4. \A t \in 1 .. n : temp_keys_pos[t].key_pos = t - 1
    BY <1>1, <1>2 DEF TuplesInv
  <2>5. \A i \in 1 .. n : \E t \in 1 .. n : entries[i] = temp_keys_pos[t]
    <3> SUFFICES ASSUME NEW i \in 1 .. n PROVE \E t \in 1 .. n : entries[i] = temp_keys_pos[t]
      OBVIOUS
    <3>1. entries[i] \in Range(entries)
      BY <2>1 DEF Range
    <3>2. entries[i] \in Range(temp_keys_pos)
      BY <2>3, <3>1
    <3> QED
      BY <2>1, <3>2 DEF Range
  <2>6. \A t \in 1 .. n : \E i \in 1 .. n : entries[i] = temp_keys_pos[t]
    <3> SUFFICES ASSUME NEW t \in 1 .. n PROVE \E i \in 1 .. n : entries[i] = temp_keys_pos[t]
      OBVIOUS
    <3>1. temp_keys_pos[t] \in Range(temp_keys_pos)
      BY <2>1 DEF Range
    <3>2. temp_keys_pos[t] \in Range(entries)
      BY <2>3, <3>1
    <3> QED
      BY <2>1, <3>2 DEF Range
  <2> QED
    BY <2>1, <2>2, <2>4, <2>5, <2>6
<1>7. ASSUME NEW i \in 1 .. n, entries[i].key = key
      PROVE  /\ first < i /\ i <= last
             /\ BloomBits(key) \subseteq directory[s].bloom
  <2>1. dirHashId(entries[i]) = s
    BY <1>2, <1>7 DEF dirHashId
  <2>2. BloomBits(entries[i].key) \subseteq directory[dirHashId(entries[i])].bloom
    BY <1>1, <1>2 DEF BloomsOK
  <2> QED
    BY <1>5, <1>7, <2>1, <2>2
<1>8. PICK found : found = {temp_keys_pos[t].key_pos :
                              t \in {u \in 1 .. count : temp_keys_pos[u].key = key}}
  OBVIOUS
<1>9. \A x : x \in found <=> \E i \in 1 .. n : entries[i].key = key /\ x = entries[i].key_pos
  <2>1. \A x : x \in found <=> \E t \in 1 .. n : temp_keys_pos[t].key = key /\ x = temp_keys_pos[t].key_pos
    BY <1>2, <1>8
  <2>2. ASSUME NEW t \in 1 .. n, temp_keys_pos[t].key = key
        PROVE  \E i \in 1 .. n : entries[i].key = key /\ temp_keys_pos[t].key_pos = entries[i].key_pos
    <3>1. PICK i \in 1 .. n : entries[i] = temp_keys_pos[t]
      BY <1>6
    <3> QED
      BY <2>2, <3>1
  <2>3. ASSUME NEW i \in 1 .. n, entries[i].key = key
        PROVE  \E t \in 1 .. n : temp_keys_pos[t].key = key /\ temp_keys_pos[t].key_pos = entries[i].key_pos
    <3>1. PICK t \in 1 .. n : entries[i] = temp_keys_pos[t]
      BY <1>6
    <3> QED
      BY <2>3, <3>1
  <2> QED
    BY <2>1, <2>2, <2>3
<1>10. CASE first >= n \/ ~(BloomBits(key) \subseteq directory[s].bloom)
  <2>1. probe(key) = <<>>
    BY <1>2, <1>3, <1>6, <1>10 DEF probe
  <2>2. \A i \in 1 .. n : entries[i].key # key
    BY <1>5, <1>7, <1>10
  <2>3. found = {}
    BY <1>9, <2>2
  <2>4. IsInjective(<<>>) /\ Range(<<>>) = {}
    BY DEF IsInjective, Range
  <2> QED
    BY <1>8, <2>1, <2>3, <2>4
<1>11. CASE ~(first >= n) /\ BloomBits(key) \subseteq directory[s].bloom
  <2> DEFINE E(i) == entries[first + i]
             parts == [i \in 1 .. last - first |->
                         LET e == E(i) IN IF e.key = key THEN <<e.key_pos>> ELSE <<>>]
  <2>1. probe(key) = FlattenSeq(parts)
    BY <1>2, <1>3, <1>6, <1>11 DEF probe, SlotEnd
  <2>2. PICK m : m = last - first
    OBVIOUS
  <2>3. m \in Nat /\ \A i \in 1 .. m : first + i \in 1 .. n
    BY <1>5, <2>2
  <2>4. ASSUME NEW i \in 1 .. m
        PROVE  parts[i] = IF E(i).key = key THEN <<E(i).key_pos>> ELSE <<>>
    BY <2>2
  <2>5. ASSUME NEW i \in 1 .. m PROVE E(i) \in Entry /\ E(i).key_pos \in Nat
    <3>1. E(i) \in Entry
      BY <1>5, <2>3
    <3>2. MaxCount \in Nat
      BY TableAssumption
    <3> QED
      BY <3>1, <3>2 DEF Entry
  <2>6. DOMAIN parts = 1 .. m
    BY <2>2
  <2>7. \A i \in 1 .. m : first + i \in 1 .. n /\ E(i) = entries[first + i]
    BY <2>3
  <2>8. \A i \in 1 .. n : first < i /\ i <= last => \E k \in 1 .. m : E(k) = entries[i]
    <3> SUFFICES ASSUME NEW i \in 1 .. n, first < i, i <= last
                 PROVE  \E k \in 1 .. m : E(k) = entries[i]
      OBVIOUS
    <3>1. i - first \in 1 .. m /\ first + (i - first) = i
      BY <1>5, <2>2
    <3> QED
      BY <3>1
  <2>9. parts = [i \in 1 .. m |-> parts[i]]
    BY <2>2
  <2> HIDE DEF parts
  <2>10. ASSUME NEW i \in 1 .. m
         PROVE  /\ parts[i] \in Seq(Nat) /\ IsInjective(parts[i])
                /\ \A x : x \in Range(parts[i]) <=> E(i).key = key /\ x = E(i).key_pos
    <3>1. PICK e : e = E(i)
      OBVIOUS
    <3>2. parts[i] = IF e.key = key THEN <<e.key_pos>> ELSE <<>>
      BY <2>4, <3>1
    <3>3. e.key_pos \in Nat
      BY <2>5, <3>1
    <3>4. CASE e.key = key
      <4>1. PICK x : x = e.key_pos
        OBVIOUS
      <4>2. parts[i] = <<x>> /\ x \in Nat
        BY <3>2, <3>3, <3>4, <4>1
      <4>3. DOMAIN <<x>> = {1} /\ <<x>>[1] = x /\ <<x>> \in Seq(Nat)
        BY <4>2
      <4> QED
        BY <3>1, <3>4, <4>1, <4>2, <4>3 DEF IsInjective, Range
    <3>5. CASE e.key # key
      <4>1. parts[i] = <<>>
        BY <3>2, <3>5
      <4>2. <<>> \in Seq(Nat) /\ IsInjective(<<>>) /\ Range(<<>>) = {}
        BY DEF IsInjective, Range
      <4> QED
        BY <3>1, <3>5, <4>1, <4>2
    <3> QED
      BY <3>4, <3>5
  <2>11. parts \in Seq(Seq(Nat)) /\ Len(parts) = m
    <3>1. \A i \in 1 .. m : parts[i] \in Seq(Nat)
      BY <2>10
    <3> QED
      BY <2>3, <2>9, <3>1
  <2>12. ASSUME NEW i \in 1 .. m, NEW j \in 1 .. m, i # j
         PROVE  Range(parts[i]) \cap Range(parts[j]) = {}
    <3> SUFFICES ASSUME NEW x, x \in Range(parts[i]), x \in Range(parts[j]) PROVE FALSE
      OBVIOUS
    <3>1. E(i).key_pos = E(j).key_pos
      BY <2>10
    <3>2. PICK t \in 1 .. n : entries[first + i] = temp_keys_pos[t]
      BY <1>6, <2>7
    <3>3. PICK u \in 1 .. n : entries[first + j] = temp_keys_pos[u]
      BY <1>6, <2>7
    <3>4. t - 1 = u - 1
      BY <1>6, <3>1, <3>2, <3>3
    <3>5. t = u
      BY <1>5, <3>4
    <3>6. PICK a, b : a = first + i /\ b = first + j
      OBVIOUS
    <3>7. a \in 1 .. n /\ b \in 1 .. n /\ entries[a] = entries[b]
      BY <2>3, <3>2, <3>3, <3>5, <3>6
    <3>8. a = b
      BY <1>6, <3>7
    <3> QED
      BY <1>5, <2>12, <3>6, <3>8
  <2>13. IsInjective(FlattenSeq(parts))
    <3>1. \A k \in 1 .. Len(parts) : IsInjective(parts[k])
      BY <2>10, <2>11
    <3>2. \A i, j \in 1 .. Len(parts) : i # j => Range(parts[i]) \cap Range(parts[j]) = {}
      BY <2>11, <2>12
    <3> QED
      BY <2>11, <3>1, <3>2, FlattenInjective
  <2>14. Range(FlattenSeq(parts)) = found
    <3>1. Range(FlattenSeq(parts)) = UNION {Range(parts[k]) : k \in 1 .. m}
      BY <2>11, FlattenRange
    <3>2. ASSUME NEW x, x \in found PROVE \E k \in 1 .. m : x \in Range(parts[k])
      <4>1. PICK i \in 1 .. n : entries[i].key = key /\ x = entries[i].key_pos
        BY <1>9, <3>2
      <4>2. PICK k \in 1 .. m : E(k) = entries[i]
        BY <1>7, <2>8, <4>1
      <4> QED
        BY <2>10, <4>1, <4>2
    <3>3. ASSUME NEW k \in 1 .. m, NEW x \in Range(parts[k]) PROVE x \in found
      BY <1>9, <2>7, <2>10
    <3> QED
      BY <3>1, <3>2, <3>3
  <2> QED
    BY <1>8, <2>1, <2>13, <2>14
<1> QED
  BY <1>5, <1>10, <1>11

(* Whichever way it was built, whatever collides and whichever slots the   *)
(* hash picks: a probe returns the positions of the tuples with the key,   *)
(* each once.                                                              *)
THEOREM ProbeIsCorrect == Spec => []ProbeCorrect
<1>1. BuildInv => ProbeCorrect
  BY ProbeFinds DEF ProbeCorrect
<1> QED
  BY <1>1, TableIsRight, PTL
=============================================================================
