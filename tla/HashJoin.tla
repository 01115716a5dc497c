------------------------------ MODULE HashJoin ------------------------------
(***************************************************************************)
(* One join of execute.cpp: JoinAlgorithm::run as execute_hash_join calls  *)
(* it.  The caller collects the build column into the hash table, starts   *)
(* NumThreads probe threads that claim pages of the probe column from one  *)
(* atomic counter and append matches to result columns of their own, joins *)
(* them and moves their pages into the result.                             *)
(*                                                                         *)
(* A table is the page layout that all its columns share, each cell the    *)
(* join key of that row, Null, or Wrong for a value that is no INT32.      *)
(* What is appended to a result column is named by the column and the row  *)
(* it is copied from.  The hash table is what UnchainedHashTable checks it *)
(* to be: a probe returns every position of the key once, in some order.   *)
(***************************************************************************)
EXTENDS JoinPages

CONSTANTS Null, Wrong,   \* cells that are no INT32 key
          Inputs,        \* pairs of page layouts, left and right
          LeftCols,      \* left.size()
          OutputAttrs    \* the output_attrs a plan may ask for: column
                         \* numbers, those of the right input from LeftCols

(* Pages that hold no more than there is room for. *)
IsTable(t) ==
    /\ t \in Seq(Range(t))
    /\ \A p \in DOMAIN t : t[p] \in Seq(Range(t[p])) /\ Len(t[p]) <= PageSlots

ASSUME JoinAssumption ==
    /\ LeftCols \in Nat
    /\ \A pair \in Inputs : IsTable(pair[1]) /\ IsTable(pair[2])
    /\ OutputAttrs \subseteq Seq(Nat)

VARIABLES left, right, build_left, build_type, output_attrs,  \* the join
          temp_keys_pos,          \* what collect_build inserted
          mpc, mi,                \* the caller and its loop index i
          page_counter,           \* the atomic
          wpc, page, slot,        \* probe thread i, its locals p and s
          thread_results,         \* thread_results[i][c]: pages of column c
          results                 \* results[c]: pages of column c

join == <<left, right, build_left, build_type, output_attrs>>
vars == <<join, temp_keys_pos, mpc, mi, page_counter, wpc, page, slot,
          thread_results, results>>

build_table == IF build_left THEN left ELSE right
probe_table == IF build_left THEN right ELSE left

Columns  == DOMAIN output_attrs
NoPages  == [c \in Columns |-> <<>>]
IsKey(v) == v \notin {Null, Wrong}

Init ==
    /\ \E pair \in Inputs : left = pair[1] /\ right = pair[2]
    /\ build_left \in BOOLEAN
    /\ build_type \in {"INT32", "other"}
    /\ output_attrs \in OutputAttrs
    /\ temp_keys_pos = <<>>
    /\ mpc = "start" /\ mi = 0
    /\ page_counter = 0
    /\ wpc = [i \in Threads |-> "none"]
    /\ page = [i \in Threads |-> 0]
    /\ slot = [i \in Threads |-> 0]
    /\ thread_results = [i \in Threads |-> NoPages]
    /\ results = NoPages

-----------------------------------------------------------------------------
(* Only a build column of type INT32 instantiates a join that does         *)
(* anything: any other leaves the results empty.                           *)
SkipJoin ==
    /\ mpc = "start" /\ build_type # "INT32"
    /\ mpc' = "done"
    /\ UNCHANGED <<join, temp_keys_pos, mi, page_counter, wpc, page, slot,
                   thread_results, results>>

(* Operators named operator_Fault are faulty variants that show that the   *)
(* properties notice a plausible mistake.                                  *)
PageKeys_DensePositions(t, p) ==
    LET keys == SelectSeq(t[p], IsKey)
    IN  [s \in DOMAIN keys |->
            [key |-> keys[s], pos |-> (p - 1) * PageSlots + (s - 1)]]

(* collect_build: the keys of the build column, with their positions. *)
PageKeys(t, p) ==
    FlattenSeq([s \in 1 .. Len(t[p]) |->
        IF IsKey(t[p][s])
        THEN <<[key |-> t[p][s], pos |-> (p - 1) * PageSlots + (s - 1)]>>
        ELSE <<>>])

CollectBuild ==
    /\ mpc = "start" /\ build_type = "INT32"
    /\ \A p \in DOMAIN build_table : Wrong \notin Range(build_table[p])
    /\ temp_keys_pos' =
         FlattenSeq([p \in 1 .. Len(build_table) |-> PageKeys(build_table, p)])
    /\ mpc' = "create"
    /\ UNCHANGED <<join, mi, page_counter, wpc, page, slot, thread_results,
                   results>>

CollectThrows ==
    /\ mpc = "start" /\ build_type = "INT32"
    /\ \E p \in DOMAIN build_table : Wrong \in Range(build_table[p])
    /\ mpc' = "thrown"
    /\ UNCHANGED <<join, temp_keys_pos, mi, page_counter, wpc, page, slot,
                   thread_results, results>>

(* for (i = 0; i < NUM_THREADS; i++) *)
NextThread(again, after) ==
    IF mi + 1 < NumThreads
    THEN mi' = mi + 1 /\ mpc' = again
    ELSE mi' = 0 /\ mpc' = after

CreateProbeThread ==
    /\ mpc = "create"
    /\ wpc' = [wpc EXCEPT ![mi] = "claim"]
    /\ NextThread("create", "join")
    /\ UNCHANGED <<join, temp_keys_pos, page_counter, page, slot,
                   thread_results, results>>

JoinProbeThread ==
    /\ mpc = "join" /\ wpc[mi] = "returned"
    /\ NextThread("join", "merge")
    /\ UNCHANGED <<join, temp_keys_pos, page_counter, wpc, page, slot,
                   thread_results, results>>

MergePages_FirstColumn ==
    /\ mpc = "merge"
    /\ results' = [results EXCEPT ![1] = @ \o thread_results[mi][1]]
    /\ thread_results' = [thread_results EXCEPT ![mi] = NoPages]
    /\ NextThread("merge", "done")
    /\ UNCHANGED <<join, temp_keys_pos, page_counter, wpc, page, slot>>

(* Move the pages of thread mi into the result, column by column. *)
MergePages ==
    /\ mpc = "merge"
    /\ results' = [c \in Columns |-> results[c] \o thread_results[mi][c]]
    /\ thread_results' = [thread_results EXCEPT ![mi] = NoPages]
    /\ NextThread("merge", "done")
    /\ UNCHANGED <<join, temp_keys_pos, page_counter, wpc, page, slot>>

-----------------------------------------------------------------------------
(* probe_worker.  The program runs as long as no thread has terminated it. *)

Running == mpc \in {"create", "join"}

ClaimPage_LostUpdate(i) ==
    /\ Running /\ wpc[i] = "claim"
    /\ page_counter' \in {page_counter, page_counter + 1}
    /\ IF page_counter < Len(probe_table)
       THEN /\ page' = [page EXCEPT ![i] = page_counter]
            /\ slot' = [slot EXCEPT ![i] = 0]
            /\ wpc' = [wpc EXCEPT ![i] = "probe"]
       ELSE /\ wpc' = [wpc EXCEPT ![i] = "returned"]
            /\ UNCHANGED <<page, slot>>
    /\ UNCHANGED <<join, temp_keys_pos, mpc, mi, thread_results, results>>

ClaimPage(i) ==
    /\ Running /\ wpc[i] = "claim"
    /\ page_counter' = page_counter + 1
    /\ IF page_counter < Len(probe_table)
       THEN /\ page' = [page EXCEPT ![i] = page_counter]
            /\ slot' = [slot EXCEPT ![i] = 0]
            /\ wpc' = [wpc EXCEPT ![i] = "probe"]
       ELSE /\ wpc' = [wpc EXCEPT ![i] = "returned"]
            /\ UNCHANGED <<page, slot>>
    /\ UNCHANGED <<join, temp_keys_pos, mpc, mi, thread_results, results>>

cell(i) == probe_table[page[i] + 1][slot[i] + 1]

AtCell_SkipsLast(i) ==
    Running /\ wpc[i] = "probe" /\ slot[i] + 1 < Len(probe_table[page[i] + 1])

AtCell(i) == Running /\ wpc[i] = "probe" /\ slot[i] < Len(probe_table[page[i] + 1])

Matches(key) == {e.pos : e \in {f \in Range(temp_keys_pos) : f.key = key}}

Copied_LeftBuilt(i, c, build_pos) ==
    LET col == output_attrs[c]
    IN  IF col < LeftCols
        THEN [col |-> col, page |-> build_pos \div PageSlots,
              slot |-> build_pos % PageSlots]
        ELSE [col |-> col, page |-> page[i], slot |-> slot[i]]

(* What a match appends to column c: the build row comes from the position *)
(* split by BOXES, the probe row is the current cell.                      *)
Copied(i, c, build_pos) ==
    LET col == output_attrs[c]
    IN  IF (col < LeftCols) = build_left
        THEN [col |-> col, page |-> build_pos \div PageSlots,
              slot |-> build_pos % PageSlots]
        ELSE [col |-> col, page |-> page[i], slot |-> slot[i]]

ProbeKey(i) ==
    /\ AtCell(i) /\ IsKey(cell(i))
    /\ \E matches \in SetToSeqs(Matches(cell(i))) :
         thread_results' = [thread_results EXCEPT ![i] =
             [c \in Columns |->
                append_all(@[c], [m \in DOMAIN matches |-> Copied(i, c, matches[m])],
                           PageSlots)]]
    /\ slot' = [slot EXCEPT ![i] = @ + 1]
    /\ UNCHANGED <<join, temp_keys_pos, mpc, mi, page_counter, wpc, page,
                   results>>

SkipNull(i) ==
    /\ AtCell(i) /\ cell(i) = Null
    /\ slot' = [slot EXCEPT ![i] = @ + 1]
    /\ UNCHANGED <<join, temp_keys_pos, mpc, mi, page_counter, wpc, page,
                   thread_results, results>>

(* The exception leaves the thread's start routine: std::terminate. *)
ProbeThrows(i) ==
    /\ AtCell(i) /\ cell(i) = Wrong
    /\ mpc' = "terminated"
    /\ UNCHANGED <<join, temp_keys_pos, mi, page_counter, wpc, page, slot,
                   thread_results, results>>

PageEnd_Spins(i) ==
    /\ Running /\ wpc[i] = "probe" /\ ~AtCell(i)
    /\ UNCHANGED vars

PageEnd(i) ==
    /\ Running /\ wpc[i] = "probe" /\ ~AtCell(i)
    /\ wpc' = [wpc EXCEPT ![i] = "claim"]
    /\ UNCHANGED <<join, temp_keys_pos, mpc, mi, page_counter, page, slot,
                   thread_results, results>>

-----------------------------------------------------------------------------
Caller == \/ SkipJoin \/ CollectBuild \/ CollectThrows
          \/ CreateProbeThread \/ JoinProbeThread \/ MergePages

Prober(i) ==
    ClaimPage(i) \/ ProbeKey(i) \/ SkipNull(i) \/ ProbeThrows(i) \/ PageEnd(i)

(* run() has returned or thrown, or the process is gone. *)
Over == mpc \in {"done", "thrown", "terminated"} /\ UNCHANGED vars

Next == Caller \/ (\E i \in Threads : Prober(i)) \/ Over

Spec == Init /\ [][Next]_vars

FairSpec ==
    /\ Spec
    /\ WF_vars(Caller)
    /\ \A i \in Threads : WF_vars(Prober(i))

-----------------------------------------------------------------------------
(* What the join has to get right.                                         *)

(* The counter hands every page to one thread: no two threads are on the   *)
(* same page, and none is on a page the counter has not passed.            *)
PageClaimedOnce ==
    \A i \in Threads : wpc[i] = "probe" =>
        /\ page[i] < page_counter
        /\ \A j \in Threads \ {i} : wpc[j] = "probe" => page[i] # page[j]

(* The columns of one result have the same pages with the same counts, so  *)
(* that a position computed on the join column of the next join addresses  *)
(* the same row in every other column, partial pages included.  No page    *)
(* is empty or holds more than BUF_SIZE values.                            *)
ColumnsAligned ==
    \A c, d \in Columns :
        /\ PagesWithin(results[c], PageSlots)
        /\ \A i \in Threads : PagesWithin(thread_results[i][c], PageSlots)
        /\ Shape(results[c]) = Shape(results[d])
        /\ \A i \in Threads :
             Shape(thread_results[i][c]) = Shape(thread_results[i][d])

(* The row that aligned columns hold at box b. *)
RowAt(cols, b) == [c \in Columns |-> cols[c][b[1]][b[2]]]

Rows(cols) == {RowAt(cols, b) : b \in Boxes(cols[1])}

RowTimes(cols, row) == Cardinality({b \in Boxes(cols[1]) : RowAt(cols, b) = row})

(* The rows of an input, counted from zero like the code does. *)
Cells(t) == {at \in (0 .. Len(t) - 1) \X (0 .. PageSlots - 1) :
               at[2] < Len(t[at[1] + 1])}

KeyAt(t, at) == t[at[1] + 1][at[2] + 1]

(* The output row of a left and a right row. *)
Combined(l, r) ==
    [c \in Columns |->
        LET at == IF output_attrs[c] < LeftCols THEN l ELSE r
        IN  [col |-> output_attrs[c], page |-> at[1], slot |-> at[2]]]

Joins(l, r) == IsKey(KeyAt(left, l)) /\ KeyAt(left, l) = KeyAt(right, r)

(* The rows of the two inputs that the join puts together. *)
Joined == {pair \in Cells(left) \X Cells(right) : Joins(pair[1], pair[2])}

(* How many of some pairs have this output row: more than one only when    *)
(* the output leaves out a side.                                           *)
Makes(pairs, row) == Cardinality({pair \in pairs : Combined(pair[1], pair[2]) = row})

(* The finished join is the relational inner join: each pair of rows with  *)
(* equal keys once, whichever side is built and however pages are claimed, *)
(* and nothing else.                                                       *)
JoinCorrect ==
    mpc = "done" /\ build_type = "INT32" /\ output_attrs # <<>> =>
        /\ \A l \in Cells(left), r \in Cells(right) :
             RowTimes(results, Combined(l, r)) = Makes(Joined, Combined(l, r))
        /\ Rows(results) \subseteq
             {Combined(l, r) : l \in Cells(left), r \in Cells(right)}

PositionAt(pos) == <<pos \div PageSlots, pos % PageSlots>>

(* What a finished join leaves is one of the outcomes that the execution   *)
(* of a plan reckons with: the pages of all columns go back to one claim   *)
(* of the probe pages and one order of the matches.                        *)
LeavesOutcome ==
    mpc = "done" /\ build_type = "INT32" =>
        \E pages \in JoinOutcomes(build_table, probe_table,
                                  (UNION {Range(p) : p \in Range(probe_table)}) \ {Null, Wrong}) :
            \A c \in Columns :
                results[c] = [p \in DOMAIN pages |-> [s \in DOMAIN pages[p] |->
                    LET b == PositionAt(pages[p][s][1])
                        q == PositionAt(pages[p][s][2])
                    IN  (IF build_left THEN Combined(b, q) ELSE Combined(q, b))[c]]]

(* The probe row at has been dealt with: its page is claimed and whoever   *)
(* works on that page is past its slot.                                    *)
Probed(at) ==
    /\ at[1] < page_counter
    /\ \A i \in Threads : wpc[i] = "probe" /\ page[i] = at[1] => at[2] < slot[i]

(* The rows that the join has found so far. *)
Found == {pair \in Joined : Probed(IF build_left THEN pair[2] ELSE pair[1])}

(* Who holds pages of the result: the threads and, as number NumThreads,   *)
(* the caller, with what it has merged.                                    *)
Holders == 0 .. NumThreads

Pages(h) == IF h = NumThreads THEN results ELSE thread_results[h]

(* Where they hold a row: the holder and the box. *)
Held == UNION {{h} \X Boxes(Pages(h)[1]) : h \in Holders}

RowHeld(at) == RowAt(Pages(at[1]), at[2])

(* At every moment of the probe and of the merge, the pages of all threads *)
(* together hold the matches of exactly the probe rows dealt with so far:  *)
(* none is lost or repeated by a claim, a page boundary or the merge.      *)
NothingLost ==
    mpc \in {"create", "join", "merge", "done"} /\ build_type = "INT32"
    /\ output_attrs # <<>> =>
        \A l \in Cells(left), r \in Cells(right) :
            LET row == Combined(l, r)
            IN  Cardinality({at \in Held : RowHeld(at) = row}) = Makes(Found, row)

(* Every join ends, in one of its three ways. *)
JoinEnds == mpc = "start" ~> mpc \in {"done", "thrown", "terminated"}
=============================================================================
