------------------------- MODULE UnchainedHashTable -------------------------
(***************************************************************************)
(* The join's hash table (Uhashtable.h, Uhashtable.cpp): a directory of    *)
(* DirSize slots, each a pointer into one array of entries and a 16-bit    *)
(* Bloom filter; the entries of a slot lie between its pointer and the     *)
(* next slot's.  build() makes it sequentially.  build_parallel() makes it *)
(* in three phases: threads partition slices of the input into chunk lists *)
(* of their own, threads merge the lists partition by partition, and the   *)
(* caller fills directory and entries.  A bit set is the set of its bits.  *)
(***************************************************************************)
EXTENDS Integers, SequencesExt, FiniteSetsExt

CONSTANTS NumThreads,      \* NUM_THREADS (16)
          NumPartitions,   \* NUM_PARTITIONS (16)
          DirSize,         \* DIRECTORY_SIZE (2^16)
          ChunkEntries,    \* ENTRIES_PER_CHUNK (16384)
          Keys,            \* build and probe keys
          Placements,      \* the slots that CRC32 may give the keys
          MaxCount         \* bound on the tuples inserted

(* merge_args has NUM_PARTITIONS elements and one is used per thread; a    *)
(* partition is the top bits of a slot.                                    *)
ASSUME TableAssumption ==
    /\ NumThreads \in Nat \ {0} /\ NumPartitions \in Nat \ {0}
    /\ DirSize \in Nat \ {0} /\ ChunkEntries \in Nat \ {0}
    /\ NumThreads <= NumPartitions
    /\ DirSize % NumPartitions = 0
    /\ Keys \subseteq Int
    /\ Placements \subseteq [Keys -> 0 .. DirSize - 1]
    /\ MaxCount \in Nat

Threads    == 0 .. NumThreads - 1
Partitions == 0 .. NumPartitions - 1
Slots      == 0 .. DirSize - 1

VARIABLES
    temp_keys_pos,   \* the inserted tuples
    dirHash,         \* dirHash[key]: the slot that CRC32 gives key
    mpc, mi, next,   \* the caller: where it is, its loop index i, and start
    args,            \* args[i], merge_args[i]: the loop bounds of thread i
    wpc, at, from,   \* thread i: what it runs, its loop variables i and j
    local,           \* thread_data[i].partitions[p]
    global,          \* global_partitions[p]
    directory, entries

vars == <<temp_keys_pos, dirHash, mpc, mi, next, args, wpc, at, from,
          local, global, directory, entries>>

count == Len(temp_keys_pos)

NoEntry == [key |-> 0, key_pos |-> 0]

(* Chunks are listed head first; only the head has room. *)
EmptyPartition == [chunk_list |-> <<>>, total_count |-> 0]

Contents(part) == FlattenSeq(part.chunk_list)

Init ==
    /\ \E n \in 0 .. MaxCount : \E k \in [1 .. n -> Keys] :
         temp_keys_pos = [i \in 1 .. n |-> [key |-> k[i], key_pos |-> i - 1]]
    /\ dirHash \in Placements
    /\ mpc = "start" /\ mi = 0 /\ next = 0
    /\ args = [i \in Threads |-> [start |-> 0, end |-> 0]]
    /\ wpc = [i \in Threads |-> "none"]
    /\ at = [i \in Threads |-> 0]
    /\ from = [i \in Threads |-> 0]
    /\ local = [i \in Threads |-> [p \in Partitions |-> EmptyPartition]]
    /\ global = [p \in Partitions |-> EmptyPartition]
    /\ directory = [s \in Slots |-> [pointer |-> 0, bloom |-> {}]]
    /\ entries = <<>>

-----------------------------------------------------------------------------
(* Hashing.                                                                *)

dirHashId(e) == dirHash[e.key]

(* The top bits of the same hash choose the partition. *)
getPartition(key) == dirHash[key] \div (DirSize \div NumPartitions)

(* The four lowest nibbles of the key, as bit numbers of the filter. *)
BloomBits(key) == {(key \div d) % 16 : d \in {1, 16, 256, 4096}}

(* Operators named operator_Fault are faulty variants that show that the   *)
(* properties notice a plausible mistake.                                  *)
bloomFilter_LastOnly(es) ==
    UNION {BloomBits(e.key) : e \in {f \in es : \A g \in es : g.key_pos <= f.key_pos}}

(* The bits of all entries of a slot. *)
bloomFilter(es) == UNION {BloomBits(e.key) : e \in es}

(* Slots that point at the end take over the entry of the next slot that   *)
(* does not, Bloom filter included.                                        *)
FillEmpty(dir) ==
    [s \in Slots |->
        LET later == {q \in Slots : q >= s /\ dir[q].pointer # count}
        IN  IF later = {} THEN [pointer |-> count, bloom |-> {}]
            ELSE dir[Min(later)]]

-----------------------------------------------------------------------------
(* build(): std::sort is not stable, so any order within a slot may come.  *)

SortedBySlot(s) ==
    \A i, j \in DOMAIN s : i < j => dirHashId(s[i]) <= dirHashId(s[j])

build ==
    /\ mpc = "start"
    /\ \E order \in Bijection(1 .. count, 1 .. count) :
         LET sorted == [i \in 1 .. count |-> temp_keys_pos[order[i]]]
             range(s) == {i \in 1 .. count : dirHashId(sorted[i]) = s}
         IN  /\ SortedBySlot(sorted)
             /\ entries' = sorted
             /\ directory' = FillEmpty([s \in Slots |->
                   IF range(s) = {} THEN [pointer |-> count, bloom |-> {}]
                   ELSE [pointer |-> Min(range(s)) - 1,
                         bloom |-> bloomFilter({sorted[i] : i \in range(s)})]])
    /\ mpc' = "built"
    /\ UNCHANGED <<temp_keys_pos, dirHash, mi, next, args, wpc, at, from,
                   local, global>>

-----------------------------------------------------------------------------
(* build_parallel(), phase 1: create the partition threads, then join.     *)

StartParallel ==
    /\ mpc = "start"
    /\ mpc' = "create_partition"
    /\ UNCHANGED <<temp_keys_pos, dirHash, mi, next, args, wpc, at, from,
                   local, global, directory, entries>>

(* for (i = 0; i < NUM_THREADS; i++) *)
NextThread(again, after) ==
    IF mi + 1 < NumThreads
    THEN mi' = mi + 1 /\ mpc' = again
    ELSE mi' = 0 /\ mpc' = after

Launch(what, bounds) ==
    /\ args' = [args EXCEPT ![mi] = bounds]
    /\ wpc' = [wpc EXCEPT ![mi] = what]
    /\ at' = [at EXCEPT ![mi] = bounds.start]
    /\ from' = [from EXCEPT ![mi] = 0]

(* The slices are cut by a running start. *)
ThreadCount(i) ==
    count \div NumThreads + (IF i < count % NumThreads THEN 1 ELSE 0)

CreatePartitionThread ==
    /\ mpc = "create_partition"
    /\ Launch("partition", [start |-> next, end |-> next + ThreadCount(mi)])
    /\ next' = next + ThreadCount(mi)
    /\ NextThread("create_partition", "join_partition")
    /\ UNCHANGED <<temp_keys_pos, dirHash, local, global, directory, entries>>

(* One iteration of partition_worker: insert at the head chunk, behind a   *)
(* new head when it is full.                                               *)
Insert(part, e) ==
    LET chunks == part.chunk_list
    IN  [chunk_list  |-> IF chunks = <<>> \/ Len(chunks[1]) = ChunkEntries
                         THEN <<<<e>>>> \o chunks
                         ELSE [chunks EXCEPT ![1] = Append(@, e)],
         total_count |-> part.total_count + 1]

PartitionTuple(i) ==
    /\ wpc[i] = "partition" /\ at[i] < args[i].end
    /\ LET e == temp_keys_pos[at[i] + 1]
       IN  local' = [local EXCEPT ![i][getPartition(e.key)] = Insert(@, e)]
    /\ at' = [at EXCEPT ![i] = @ + 1]
    /\ UNCHANGED <<temp_keys_pos, dirHash, mpc, mi, next, args, wpc, from,
                   global, directory, entries>>

WorkerReturn(i) ==
    /\ wpc[i] \in {"partition", "merge"} /\ ~(at[i] < args[i].end)
    /\ wpc' = [wpc EXCEPT ![i] = "done"]
    /\ UNCHANGED <<temp_keys_pos, dirHash, mpc, mi, next, args, at, from,
                   local, global, directory, entries>>

JoinPartitionThread ==
    /\ mpc = "join_partition" /\ wpc[mi] = "done"
    /\ NextThread("join_partition", "create_merge")
    /\ UNCHANGED <<temp_keys_pos, dirHash, next, args, wpc, at, from,
                   local, global, directory, entries>>

-----------------------------------------------------------------------------
(* Phase 2: thread i merges the partitions of a slice of its own.          *)

MergeBounds_Overlap(i) ==
    LET per_thread == NumPartitions \div NumThreads
        remainder  == NumPartitions % NumThreads
    IN  IF i < remainder
        THEN [start |-> i * (per_thread + 1), end |-> (i + 1) * (per_thread + 1)]
        ELSE [start |-> i * per_thread, end |-> (i + 1) * per_thread]

MergeBounds(i) ==
    LET per_thread == NumPartitions \div NumThreads
        remainder  == NumPartitions % NumThreads
    IN  IF i < remainder
        THEN [start |-> i * (per_thread + 1), end |-> (i + 1) * (per_thread + 1)]
        ELSE [start |-> i * per_thread + remainder,
              end |-> (i + 1) * per_thread + remainder]

CreateMergeThread ==
    /\ mpc = "create_merge"
    /\ Launch("merge", MergeBounds(mi))
    /\ NextThread("create_merge", "join_merge")
    /\ UNCHANGED <<temp_keys_pos, dirHash, next, local, global, directory,
                   entries>>

Link_KeepsCount(glob, part) ==
    IF part.chunk_list = <<>> THEN glob
    ELSE [glob EXCEPT !.chunk_list = @ \o part.chunk_list]

(* Append the list of thread j to the global list and take it over. *)
Link(glob, part) ==
    IF part.chunk_list = <<>> THEN glob
    ELSE [chunk_list  |-> glob.chunk_list \o part.chunk_list,
          total_count |-> glob.total_count + part.total_count]

MergeList_NoReset(i) ==
    /\ wpc[i] = "merge" /\ at[i] < args[i].end
    /\ LET p == at[i]
           j == from[i]
       IN  /\ global' = [global EXCEPT ![p] = Link(@, local[j][p])]
           /\ IF j + 1 < NumThreads
              THEN from' = [from EXCEPT ![i] = j + 1] /\ UNCHANGED at
              ELSE from' = [from EXCEPT ![i] = 0] /\ at' = [at EXCEPT ![i] = p + 1]
    /\ UNCHANGED <<temp_keys_pos, dirHash, mpc, mi, next, args, wpc, local,
                   directory, entries>>

MergeList_SameThread(i) ==
    /\ wpc[i] = "merge" /\ at[i] < args[i].end
    /\ LET p == at[i]
           j == from[i]
       IN  /\ global' = [global EXCEPT ![p] = Link(@, local[j][p])]
           /\ local' = [local EXCEPT ![j][p] = EmptyPartition]
    /\ UNCHANGED <<temp_keys_pos, dirHash, mpc, mi, next, args, wpc, at, from,
                   directory, entries>>

MergeList(i) ==
    /\ wpc[i] = "merge" /\ at[i] < args[i].end
    /\ LET p == at[i]
           j == from[i]
       IN  /\ global' = [global EXCEPT ![p] = Link(@, local[j][p])]
           /\ local' = [local EXCEPT ![j][p] = EmptyPartition]
           /\ IF j + 1 < NumThreads
              THEN from' = [from EXCEPT ![i] = j + 1] /\ UNCHANGED at
              ELSE from' = [from EXCEPT ![i] = 0] /\ at' = [at EXCEPT ![i] = p + 1]
    /\ UNCHANGED <<temp_keys_pos, dirHash, mpc, mi, next, args, wpc,
                   directory, entries>>

JoinMergeThread_NoWait ==
    /\ mpc = "join_merge"
    /\ NextThread("join_merge", "count")
    /\ UNCHANGED <<temp_keys_pos, dirHash, next, args, wpc, at, from,
                   local, global, directory, entries>>

JoinMergeThread ==
    /\ mpc = "join_merge" /\ wpc[mi] = "done"
    /\ NextThread("join_merge", "count")
    /\ UNCHANGED <<temp_keys_pos, dirHash, next, args, wpc, at, from,
                   local, global, directory, entries>>

-----------------------------------------------------------------------------
(* Phase 3, by the caller alone.                                           *)

(* The entries in the order both passes walk the chunk lists. *)
Walk == FlattenSeq([p \in 1 .. NumPartitions |-> Contents(global[p - 1])])

InSlot(s) == {e \in Range(Walk) : dirHashId(e) = s}

CountAndPrefix_Inclusive ==
    /\ mpc = "count"
    /\ directory' = [s \in Slots |->
          [pointer |-> Cardinality({i \in DOMAIN Walk : dirHashId(Walk[i]) <= s}),
           bloom   |-> bloomFilter(InSlot(s))]]
    /\ entries' = [i \in 1 .. count |-> NoEntry]
    /\ mpc' = "scatter"
    /\ UNCHANGED <<temp_keys_pos, dirHash, mi, next, args, wpc, at, from,
                   local, global>>

(* Count each slot and collect its Bloom bits, then turn the counts into   *)
(* pointers.                                                               *)
CountAndPrefix ==
    /\ mpc = "count"
    /\ directory' = [s \in Slots |->
          [pointer |-> Cardinality({i \in DOMAIN Walk : dirHashId(Walk[i]) < s}),
           bloom   |-> bloomFilter(InSlot(s))]]
    /\ entries' = [i \in 1 .. count |-> NoEntry]
    /\ mpc' = "scatter"
    /\ UNCHANGED <<temp_keys_pos, dirHash, mi, next, args, wpc, at, from,
                   local, global>>

(* The entries and the counts after k entries of the walk: each goes       *)
(* behind those of its slot already written.                               *)
placed[k \in 0 .. Len(Walk)] ==
    IF k = 0 THEN [to |-> entries, counts |-> [s \in Slots |-> 0]]
    ELSE LET old == placed[k - 1]
             s   == dirHashId(Walk[k])
         IN  [to     |-> [old.to EXCEPT ![directory[s].pointer + old.counts[s] + 1] = Walk[k]],
              counts |-> [old.counts EXCEPT ![s] = @ + 1]]

Scatter ==
    /\ mpc = "scatter"
    /\ entries' = placed[Len(Walk)].to
    /\ mpc' = "fill"
    /\ UNCHANGED <<temp_keys_pos, dirHash, mi, next, args, wpc, at, from,
                   local, global, directory>>

(* Fill the empty tail of the directory and delete the chunks. *)
FillAndFree ==
    /\ mpc = "fill"
    /\ directory' = FillEmpty(directory)
    /\ global' = [p \in Partitions |-> EmptyPartition]
    /\ local' = [i \in Threads |-> [p \in Partitions |-> EmptyPartition]]
    /\ mpc' = "built"
    /\ UNCHANGED <<temp_keys_pos, dirHash, mi, next, args, wpc, at, from,
                   entries>>

-----------------------------------------------------------------------------
(* probe(): the positions it appends to out, in order. *)

probe(key) ==
    LET s     == dirHash[key]
        entry == directory[s]
        end   == IF s = DirSize - 1 THEN Len(entries)
                 ELSE directory[s + 1].pointer
    IN  IF entry.pointer >= Len(entries) \/ ~(BloomBits(key) \subseteq entry.bloom)
        THEN <<>>
        ELSE FlattenSeq([i \in 1 .. end - entry.pointer |->
                 LET e == entries[entry.pointer + i]
                 IN  IF e.key = key THEN <<e.key_pos>> ELSE <<>>])

-----------------------------------------------------------------------------
Caller ==
    \/ build \/ StartParallel \/ CreatePartitionThread \/ JoinPartitionThread
    \/ CreateMergeThread \/ JoinMergeThread
    \/ CountAndPrefix \/ Scatter \/ FillAndFree

Worker(i) == PartitionTuple(i) \/ WorkerReturn(i) \/ MergeList(i)

(* The table is only probed from now on. *)
Built == mpc = "built" /\ UNCHANGED vars

Next == Caller \/ (\E i \in Threads : Worker(i)) \/ Built

Spec == Init /\ [][Next]_vars

(* pthreads run until they return, and so does the caller. *)
FairSpec ==
    /\ Spec
    /\ WF_vars(Caller)
    /\ \A i \in Threads : WF_vars(Worker(i))

-----------------------------------------------------------------------------
(* What the table has to get right.                                        *)

Entry == [key : Keys, key_pos : 0 .. MaxCount - 1]

PartitionOK(part) ==
    /\ part.total_count = Len(Contents(part))
    /\ \A c \in DOMAIN part.chunk_list :
         part.chunk_list[c] # <<>> /\ Len(part.chunk_list[c]) <= ChunkEntries

(* Types; the chunks of every list are non-empty and within capacity, and  *)
(* total_count agrees with the list also while lists are handed over.      *)
TypeOK ==
    /\ temp_keys_pos \in Seq(Entry) /\ count <= MaxCount
    /\ dirHash \in [Keys -> Slots]
    /\ mpc \in {"start", "create_partition", "join_partition", "create_merge",
                "join_merge", "count", "scatter", "fill", "built"}
    /\ mi \in Threads /\ next \in 0 .. count
    /\ \A i \in Threads :
         /\ wpc[i] \in {"none", "partition", "merge", "done"}
         /\ at[i] \in args[i].start .. args[i].end
         /\ from[i] \in Threads
         /\ \A p \in Partitions : PartitionOK(local[i][p])
    /\ \A p \in Partitions : PartitionOK(global[p])
    /\ \A s \in Slots : directory[s].pointer \in 0 .. count
                        /\ directory[s].bloom \subseteq 0 .. 15
    /\ entries \in Seq(Entry \cup {NoEntry})

(* The lists of the threads and, as number NumThreads, the global ones. *)
Holders == 0 .. NumThreads

List(h, p) == IF h = NumThreads THEN global[p] ELSE local[h][p]

(* Where tuple e lies: the list and the place in it. *)
Places(e) ==
    UNION {{<<h, p, i>> : i \in {k \in DOMAIN Contents(List(h, p)) : Contents(List(h, p))[k] = e}} :
           h \in Holders, p \in Partitions}

(* The t-th tuple has not been partitioned yet. *)
Pending(t) ==
    \/ mpc = "start"
    \/ mpc = "create_partition" /\ t > next
    \/ \E i \in Threads : wpc[i] = "partition" /\ at[i] < t /\ t <= args[i].end

(* Until the chunks are freed every tuple is in exactly one place: not yet *)
(* partitioned, or once in one list, in the partition of its hash.  Two    *)
(* lists sharing a chunk would free it twice, an unlinked one loses rows.  *)
OnePlace ==
    mpc # "built" =>
        \A t \in 1 .. count :
            LET places == Places(temp_keys_pos[t])
            IN  IF Pending(t) THEN places = {}
                ELSE \E x \in places :
                         places = {x} /\ x[2] = getPartition(temp_keys_pos[t].key)

(* When the caller reads the global lists, the threads have left nothing   *)
(* behind and it is the only one to touch them.                            *)
MergedBeforeRead ==
    mpc \in {"count", "scatter", "fill"} =>
        \A i \in Threads :
            /\ wpc[i] = "done"
            /\ \A p \in Partitions : local[i][p] = EmptyPartition

(* No two threads ever work on lists of the same partition in phase 2, nor *)
(* does one merge what another is still partitioning.                      *)
Merging(i, p) == wpc[i] = "merge" /\ at[i] = p /\ p < args[i].end

NoSharedList ==
    \A i, j \in Threads, p \in Partitions : i # j /\ Merging(i, p) =>
        wpc[j] # "partition" /\ ~Merging(j, p)

(* The directory's pointers ascend, and between the pointers of a slot and *)
(* the next one lie exactly the entries that hash to it.                   *)
DirectoryRanges ==
    mpc = "built" =>
        \A s \in Slots :
            LET upto == IF s = DirSize - 1 THEN count ELSE directory[s + 1].pointer
            IN  /\ directory[s].pointer <= upto
                /\ \A i \in 1 .. count :
                     directory[s].pointer < i /\ i <= upto
                         <=> entries[i].key \in Keys /\ dirHashId(entries[i]) = s

(* Whichever way it was built, and whatever collides, a probe returns the  *)
(* position of every tuple with the key, once.                             *)
ProbeCorrect ==
    mpc = "built" =>
        \A key \in Keys :
            LET out == probe(key)
            IN  /\ IsInjective(out)
                /\ Range(out) = {temp_keys_pos[t].key_pos :
                                   t \in {u \in 1 .. count :
                                            temp_keys_pos[u].key = key}}

(* A build that was started ends: no thread waits for another for ever. *)
BuildEnds == mpc = "create_partition" ~> mpc = "built"
=============================================================================
