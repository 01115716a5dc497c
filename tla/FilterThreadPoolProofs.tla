----------------------- MODULE FilterThreadPoolProofs -----------------------
(***************************************************************************)
(* Proofs about FilterThreadPool, for every number of workers, tasks,      *)
(* functions and spurious wakeups.                                         *)
(***************************************************************************)
EXTENDS FilterThreadPool, Lemmas

(***************************************************************************)
(* Slices.  begin_idx cuts 0 .. tasks - 1 into NumThreads slices.          *)
(***************************************************************************)

(* The bounds of run_loop are those of the module Slices. *)
LEMMA BeginIdxIsBound ==
    ASSUME NEW n, NEW i
    PROVE  begin_idx(i, n) = Bound(i, n, NumThreads)
BY DEF begin_idx, Bound, SmallerOf, Lesser

(* Both bounds of a slice lie in 0 .. n. *)
LEMMA BeginIdxRange ==
    ASSUME NEW n \in Nat, NEW i \in Threads
    PROVE  /\ begin_idx(i, n) \in 0 .. n
           /\ begin_idx(i + 1, n) \in 0 .. n
           /\ begin_idx(i, n) <= begin_idx(i + 1, n)
BY PoolAssumption, BeginIdxIsBound, BoundRange DEF Threads

TaskSlice(i, n) == {k \in Nat : begin_idx(i, n) <= k /\ k < begin_idx(i + 1, n)}

(* No task is in the slices of two threads. *)
LEMMA TasksDisjoint ==
    ASSUME NEW n \in Nat, NEW i \in Threads, NEW j \in Threads, i # j,
           NEW k \in TaskSlice(i, n)
    PROVE  k \notin TaskSlice(j, n)
<1>1. TaskSlice(i, n) = Slice(i, n, NumThreads) /\ TaskSlice(j, n) = Slice(j, n, NumThreads)
  BY BeginIdxIsBound DEF TaskSlice, Slice
<1> QED
  BY <1>1, PoolAssumption, SlicesDisjoint DEF Threads

(* Every task is in the slice of some thread. *)
LEMMA TasksCover ==
    ASSUME NEW n \in Nat, NEW k \in 0 .. n - 1
    PROVE  \E i \in Threads : k \in TaskSlice(i, n)
<1>1. PICK i \in 0 .. NumThreads - 1 : k \in Slice(i, n, NumThreads)
  BY PoolAssumption, SlicesCover
<1>2. TaskSlice(i, n) = Slice(i, n, NumThreads)
  BY BeginIdxIsBound DEF TaskSlice, Slice
<1> QED
  BY <1>1, <1>2 DEF Threads

(***************************************************************************)
(* Type correctness.                                                       *)
(***************************************************************************)

(* The caller's loops keep their index in range. *)
LEMMA NextThreadType ==
    ASSUME NEW again, NEW after, mi \in Threads, NextThread(again, after)
    PROVE  mi' \in Threads /\ mpc' \in {again, after}
BY PoolAssumption DEF NextThread, Threads

(* Counting one more call leaves a table of counts one. *)
LEMMA CountType ==
    ASSUME NEW S, NEW g \in [S -> Nat], NEW x
    PROVE  [g EXCEPT ![x] = @ + 1] \in [S -> Nat]
<1>1. CASE x \in S
  BY <1>1
<1>2. CASE x \notin S
  <2>1. [g EXCEPT ![x] = @ + 1] = [y \in S |-> g[y]]
    BY <1>2
  <2> QED
    BY <2>1
<1> QED
  BY <1>1, <1>2

(* TypeOK is inductive by itself: a slice stays below num_tasks. *)
LEMMA TypeStep == TypeOK /\ [Next]_vars => TypeOK'
<1> SUFFICES ASSUME TypeOK, [Next]_vars PROVE TypeOK'
  OBVIOUS
<1> USE PoolAssumption DEF TypeOK, Threads, flags
<1>1. CASE UNCHANGED vars
  BY <1>1 DEF vars
<1>2. ASSUME NEW i \in Threads, Worker(i) PROVE TypeOK'
  <2>1. CASE WorkerLock(i)
    BY <2>1 DEF WorkerLock, goto, WorkerPC
  <2>2. CASE WorkerBreak(i) \/ WorkerStart(i)
    BY <2>2 DEF WorkerBreak, WorkerStart, goto, WorkerPC
  <2>3. CASE WorkerSleep(i)
    BY <2>3 DEF WorkerSleep, goto, WorkerPC
  <2>4. CASE WorkerBegin(i)
    <3>1. begin_idx(i, num_tasks) \in 0 .. MaxTasks
      <4>1. num_tasks \in Nat /\ num_tasks <= MaxTasks
        OBVIOUS
      <4>2. begin_idx(i, num_tasks) \in 0 .. num_tasks
        BY <4>1, BeginIdxRange
      <4> QED
        BY <4>1, <4>2
    <3> QED
      BY <2>4, <3>1 DEF WorkerBegin, goto, WorkerPC
  <2>5. CASE WorkerEnd(i)
    <3>1. begin_idx(i + 1, num_tasks) \in 0 .. MaxTasks
      <4>1. num_tasks \in Nat /\ num_tasks <= MaxTasks
        OBVIOUS
      <4>2. begin_idx(i + 1, num_tasks) \in 0 .. num_tasks
        BY <4>1, BeginIdxRange
      <4> QED
        BY <4>1, <4>2
    <3> QED
      BY <2>5, <3>1 DEF WorkerEnd, goto, WorkerPC
  <2>6. CASE WorkerApply(i)
    <3>1. begin[i] \in Nat /\ begin[i] + 1 \in 0 .. MaxTasks
      BY <2>6 DEF WorkerApply
    <3>2. applied' \in [Tasks -> [Functions -> Nat]]
      <4>1. applied[begin[i]] \in [Functions -> Nat]
        BY <2>6, <3>1 DEF WorkerApply, Tasks
      <4>2. [applied[begin[i]] EXCEPT ![function] = @ + 1] \in [Functions -> Nat]
        BY <4>1, CountType
      <4> QED
        BY <2>6, <4>2 DEF WorkerApply
    <3> QED
      BY <2>6, <3>1, <3>2 DEF WorkerApply
  <2>7. CASE WorkerFinish(i)
    BY <2>7 DEF WorkerFinish, goto, WorkerPC
  <2>8. CASE WorkerNotify(i)
    BY <2>8 DEF WorkerNotify, NotifyOne, goto, WorkerPC
  <2> QED
    BY <1>2, <2>1, <2>2, <2>3, <2>4, <2>5, <2>6, <2>7, <2>8 DEF Worker
<1>3. ASSUME NEW i \in Threads, SpuriousWakeup(i) PROVE TypeOK'
  BY <1>3 DEF SpuriousWakeup
<1>4. CASE Main
  <2> USE DEF MainPC, RunPC, ClosePC
  <2>1. CASE Spawn
    BY <2>1, NextThreadType DEF Spawn, goto, WorkerPC
  <2>2. CASE CallRun
    BY <2>2 DEF CallRun, NothingApplied
  <2>3. CASE SetFunction
    BY <2>3 DEF SetFunction
  <2>4. CASE SetNumTasks
    BY <2>4 DEF SetNumTasks
  <2>5. CASE MainLock
    BY <2>5 DEF MainLock
  <2>6. CASE SetFlags
    <3>1. mi' \in Threads /\ mpc' \in MainPC
      BY <2>6, NextThreadType DEF SetFlags
    <3>2. has_function' \in [Threads -> BOOLEAN] /\ finished' \in [Threads -> BOOLEAN]
      BY <2>6 DEF SetFlags
    <3> QED
      BY <2>6, <3>1, <3>2 DEF SetFlags
  <2>7. CASE RunNotify
    <3>1. mi' \in Threads /\ mpc' \in MainPC
      BY <2>7, NextThreadType DEF RunNotify
    <3>2. sleeping' \in [Threads -> SUBSET {"worker", "main"}]
      BY <2>7 DEF RunNotify, NotifyOne
    <3> QED
      BY <2>7, <3>1, <3>2 DEF RunNotify
  <2>8. CASE RunSleep
    BY <2>8 DEF RunSleep
  <2>9. CASE RunWaited
    BY <2>9, NextThreadType DEF RunWaited
  <2>10. CASE CallDestructor
    BY <2>10 DEF CallDestructor
  <2>11. CASE SetDestructed
    <3>1. mi' \in Threads /\ mpc' \in MainPC
      BY <2>11, NextThreadType DEF SetDestructed
    <3>2. destructed' \in [Threads -> BOOLEAN]
      BY <2>11 DEF SetDestructed
    <3> QED
      BY <2>11, <3>1, <3>2 DEF SetDestructed
  <2>12. CASE DestructorNotify
    <3>1. mi' \in Threads /\ mpc' \in MainPC
      BY <2>12, NextThreadType DEF DestructorNotify
    <3>2. sleeping' \in [Threads -> SUBSET {"worker", "main"}]
      BY <2>12 DEF DestructorNotify, NotifyOne
    <3> QED
      BY <2>12, <3>1, <3>2 DEF DestructorNotify
  <2>13. CASE Join
    BY <2>13, NextThreadType DEF Join
  <2> QED
    BY <1>4, <2>1, <2>2, <2>3, <2>4, <2>5, <2>6, <2>7, <2>8, <2>9, <2>10,
       <2>11, <2>12, <2>13 DEF Main, MainProgress
<1> QED
  BY <1>1, <1>2, <1>3, <1>4 DEF Next, Gone

(* The constructor's state is well typed. *)
LEMMA TypeInit == Init => TypeOK
BY PoolAssumption DEF Init, TypeOK, Threads, WorkerPC, MainPC, RunPC, ClosePC,
   NothingApplied, Tasks

(* The pool's variables keep their types: no slice that begin_idx computes *)
(* for run_loop reaches past the requested number of tasks.                *)
THEOREM TypeCorrect == Spec => []TypeOK
BY TypeInit, TypeStep, PTL DEF Spec

(***************************************************************************)
(* The inductive invariant, in parts that build on one another.            *)
(***************************************************************************)

Busy(i) == wpc[i] \in {"begin", "end", "exec"}

(* A mutex is held exactly where the code is inside its critical section,  *)
(* only someone inside cv.wait is blocked there, and a thread that the     *)
(* constructor has not created yet has done nothing.                       *)
LockInv ==
    \A i \in Threads :
        /\ mtx[i] = "worker" <=> wpc[i] = "check" \/ Busy(i)
        /\ mtx[i] = "main" <=>
             mi = i /\ mpc \in {"set_flags", "check_wait", "set_destructed"}
        /\ "worker" \in sleeping[i] => wpc[i] = "asleep"
        /\ "main" \in sleeping[i] => mpc = "asleep" /\ mi = i
        /\ mpc = "spawn" /\ mi <= i => wpc[i] = "unborn"

(* The current run() has set the flags of worker i. *)
Published(i) ==
    \/ mpc \in {"lock_flags", "set_flags"} /\ i < mi
    \/ mpc \in {"notify", "lock_wait", "check_wait", "asleep"}

(* Work exists only within the run() that published it; a busy worker has  *)
(* work; the workers the caller has waited for have none; and every run()  *)
(* starts its first loop at worker 0.                                      *)
FlagInv ==
    \A i \in Threads :
        /\ HasWork(i) => Published(i)
        /\ Published(i) => has_function[i]
        /\ Busy(i) => HasWork(i)
        /\ mpc \in {"lock_wait", "check_wait", "asleep"} /\ i < mi
             => finished[i]
        /\ mpc \in {"idle", "set_function", "set_num_tasks"} => mi = 0

(* The closure and task count that workers read are the request's; there   *)
(* is no request before the constructor returns.                           *)
RequestInv ==
    /\ mpc \in {"set_num_tasks"} \cup Serving => function = request.fn
    /\ mpc \in Serving => num_tasks = request.num
    /\ mpc = "spawn" => request.num = 0

(* Inside function, a worker is within its own slice. *)
SliceInv ==
    \A i \in Threads :
        /\ wpc[i] = "end" => begin[i] = begin_idx(i, request.num)
        /\ wpc[i] = "exec" =>
             /\ begin_idx(i, request.num) <= begin[i]
             /\ begin[i] <= end[i]
             /\ end[i] = begin_idx(i + 1, request.num)

(* Worker i has applied the current request to k, a task of its slice. *)
Done(i, k) ==
    /\ Published(i)
    /\ finished[i] \/ (wpc[i] = "exec" /\ k < begin[i])

OnlyRequest ==
    \A k \in Tasks, f \in Functions :
        f # request.fn \/ k >= request.num => applied[k][f] = 0

DoneOnce ==
    mpc \in RunPC =>
        \A i \in Threads, k \in Tasks :
            k \in TaskSlice(i, request.num) =>
                applied[k][request.fn] = IF Done(i, k) THEN 1 ELSE 0

AppliedInv == OnlyRequest /\ DoneOnce /\ ExactlyOnce

IInv == TypeOK /\ LockInv /\ FlagInv /\ RequestInv /\ SliceInv /\ AppliedInv

(* notify_one wakes at most one sleeper, and the only one there is. *)
LEMMA NotifyOneEffect ==
    ASSUME TypeOK, NEW i \in Threads, NotifyOne(i)
    PROVE  \A j \in Threads :
               /\ \A w : w \in sleeping'[j] => w \in sleeping[j]
               /\ \A w : i = j /\ sleeping[j] \subseteq {w} => w \notin sleeping'[j]
BY DEF TypeOK, NotifyOne

(* Only the holder of a mutex is in its critical section. *)
LEMMA LockStep ==
    TypeOK /\ LockInv /\ [Next]_vars => LockInv'
<1> SUFFICES ASSUME TypeOK, LockInv, [Next]_vars PROVE LockInv'
  OBVIOUS
<1> USE PoolAssumption DEF TypeOK, LockInv, Busy, flags, Threads
<1>1. CASE UNCHANGED vars
  BY <1>1 DEF vars
<1>2. ASSUME NEW i \in Threads, Worker(i) PROVE LockInv'
  <2>1. CASE WorkerLock(i)
    BY <2>1 DEF WorkerLock, goto
  <2>2. CASE WorkerBreak(i)
    BY <2>2 DEF WorkerBreak, goto
  <2>3. CASE WorkerStart(i)
    BY <2>3 DEF WorkerStart, goto
  <2>4. CASE WorkerSleep(i)
    BY <2>4 DEF WorkerSleep, goto
  <2>5. CASE WorkerBegin(i)
    BY <2>5 DEF WorkerBegin, goto
  <2>6. CASE WorkerEnd(i)
    BY <2>6 DEF WorkerEnd, goto
  <2>7. CASE WorkerApply(i)
    BY <2>7 DEF WorkerApply
  <2>8. CASE WorkerFinish(i)
    BY <2>8 DEF WorkerFinish, goto
  <2>9. CASE WorkerNotify(i)
    BY <2>9 DEF WorkerNotify, goto, NotifyOne
  <2> QED
    BY <1>2, <2>1, <2>2, <2>3, <2>4, <2>5, <2>6, <2>7, <2>8, <2>9 DEF Worker
<1>3. ASSUME NEW i \in Threads, SpuriousWakeup(i) PROVE LockInv'
  BY <1>3 DEF SpuriousWakeup
<1>4. CASE Main
  <2>1. CASE Spawn
    BY <2>1 DEF Spawn, goto, NextThread
  <2>2. CASE CallRun
    BY <2>2 DEF CallRun
  <2>3. CASE SetFunction
    BY <2>3 DEF SetFunction
  <2>4. CASE SetNumTasks
    BY <2>4 DEF SetNumTasks
  <2>5. CASE MainLock
    BY <2>5 DEF MainLock
  <2>6. CASE SetFlags
    BY <2>6 DEF SetFlags, NextThread
  <2>7. CASE RunNotify
    BY <2>7, NotifyOneEffect DEF RunNotify, NextThread
  <2>8. CASE RunSleep
    BY <2>8 DEF RunSleep
  <2>9. CASE RunWaited
    BY <2>9 DEF RunWaited, NextThread
  <2>10. CASE CallDestructor
    BY <2>10 DEF CallDestructor
  <2>11. CASE SetDestructed
    BY <2>11 DEF SetDestructed, NextThread
  <2>12. CASE DestructorNotify
    BY <2>12, NotifyOneEffect DEF DestructorNotify, NextThread
  <2>13. CASE Join
    BY <2>13 DEF Join, NextThread
  <2> QED
    BY <1>4, <2>1, <2>2, <2>3, <2>4, <2>5, <2>6, <2>7, <2>8,
       <2>9, <2>10, <2>11, <2>12, <2>13 DEF Main, MainProgress
<1> QED
  BY <1>1, <1>2, <1>3, <1>4 DEF Next, Gone

(* Workers have work only while run() waits for them. *)
LEMMA FlagStep ==
    TypeOK /\ LockInv /\ FlagInv /\ [Next]_vars => FlagInv'
<1> SUFFICES ASSUME TypeOK, LockInv, FlagInv, [Next]_vars PROVE FlagInv'
  OBVIOUS
<1> USE PoolAssumption DEF TypeOK, LockInv, FlagInv, Published, HasWork, Busy, flags, Threads
<1>1. CASE UNCHANGED vars
  BY <1>1 DEF vars
<1>2. ASSUME NEW i \in Threads, Worker(i) PROVE FlagInv'
  <2>1. CASE WorkerLock(i)
    BY <2>1 DEF WorkerLock, goto
  <2>2. CASE WorkerBreak(i)
    BY <2>2 DEF WorkerBreak, goto
  <2>3. CASE WorkerStart(i)
    BY <2>3 DEF WorkerStart, goto
  <2>4. CASE WorkerSleep(i)
    BY <2>4 DEF WorkerSleep, goto
  <2>5. CASE WorkerBegin(i)
    BY <2>5 DEF WorkerBegin, goto
  <2>6. CASE WorkerEnd(i)
    BY <2>6 DEF WorkerEnd, goto
  <2>7. CASE WorkerApply(i)
    BY <2>7 DEF WorkerApply
  <2>8. CASE WorkerFinish(i)
    BY <2>8 DEF WorkerFinish, goto
  <2>9. CASE WorkerNotify(i)
    BY <2>9 DEF WorkerNotify, goto
  <2> QED
    BY <1>2, <2>1, <2>2, <2>3, <2>4, <2>5, <2>6, <2>7, <2>8, <2>9 DEF Worker
<1>3. ASSUME NEW i \in Threads, SpuriousWakeup(i) PROVE FlagInv'
  BY <1>3 DEF SpuriousWakeup
<1>4. CASE Main
  <2>1. CASE Spawn
    BY <2>1 DEF Spawn, goto, NextThread
  <2>2. CASE CallRun
    BY <2>2 DEF CallRun
  <2>3. CASE SetFunction
    BY <2>3 DEF SetFunction
  <2>4. CASE SetNumTasks
    BY <2>4 DEF SetNumTasks
  <2>5. CASE MainLock
    BY <2>5 DEF MainLock
  <2>6. CASE SetFlags
    BY <2>6 DEF SetFlags, NextThread
  <2>7. CASE RunNotify
    BY <2>7 DEF RunNotify, NextThread
  <2>8. CASE RunSleep
    BY <2>8 DEF RunSleep
  <2>9. CASE RunWaited
    BY <2>9 DEF RunWaited, NextThread
  <2>10. CASE CallDestructor
    BY <2>10 DEF CallDestructor
  <2>11. CASE SetDestructed
    BY <2>11 DEF SetDestructed, NextThread
  <2>12. CASE DestructorNotify
    BY <2>12 DEF DestructorNotify, NextThread
  <2>13. CASE Join
    BY <2>13 DEF Join, NextThread
  <2> QED
    BY <1>4, <2>1, <2>2, <2>3, <2>4, <2>5, <2>6, <2>7, <2>8,
       <2>9, <2>10, <2>11, <2>12, <2>13 DEF Main, MainProgress
<1> QED
  BY <1>1, <1>2, <1>3, <1>4 DEF Next, Gone

(* Nobody sleeps through a notification. *)
LEMMA WakeupStep ==
    TypeOK /\ LockInv /\ FlagInv /\ NoLostWakeup /\ [Next]_vars => NoLostWakeup'
<1> SUFFICES ASSUME TypeOK, LockInv, FlagInv, NoLostWakeup, [Next]_vars PROVE NoLostWakeup'
  OBVIOUS
<1> USE PoolAssumption DEF TypeOK, LockInv, FlagInv, Published, NoLostWakeup, HasWork, Busy, flags, Threads
<1>1. CASE UNCHANGED vars
  BY <1>1 DEF vars
<1>2. ASSUME NEW i \in Threads, Worker(i) PROVE NoLostWakeup'
  <2>1. CASE WorkerLock(i)
    BY <2>1 DEF WorkerLock, goto
  <2>2. CASE WorkerBreak(i)
    BY <2>2 DEF WorkerBreak, goto
  <2>3. CASE WorkerStart(i)
    BY <2>3 DEF WorkerStart, goto
  <2>4. CASE WorkerSleep(i)
    BY <2>4 DEF WorkerSleep, goto
  <2>5. CASE WorkerBegin(i)
    BY <2>5 DEF WorkerBegin, goto
  <2>6. CASE WorkerEnd(i)
    BY <2>6 DEF WorkerEnd, goto
  <2>7. CASE WorkerApply(i)
    BY <2>7 DEF WorkerApply
  <2>8. CASE WorkerFinish(i)
    BY <2>8 DEF WorkerFinish, goto
  <2>9. CASE WorkerNotify(i)
    <3>1. \A w : w \in sleeping'[i] => w \in sleeping[i] /\ ~(sleeping[i] \subseteq {w})
      BY <2>9, NotifyOneEffect DEF WorkerNotify
    <3>2. \A j \in Threads : \A w : w \in sleeping'[j] => w \in sleeping[j]
      BY <2>9, NotifyOneEffect DEF WorkerNotify
    <3> QED
      BY <2>9, <3>1, <3>2 DEF WorkerNotify, goto
  <2> QED
    BY <1>2, <2>1, <2>2, <2>3, <2>4, <2>5, <2>6, <2>7, <2>8, <2>9 DEF Worker
<1>3. ASSUME NEW i \in Threads, SpuriousWakeup(i) PROVE NoLostWakeup'
  BY <1>3 DEF SpuriousWakeup
<1>4. CASE Main
  <2>1. CASE Spawn
    BY <2>1 DEF Spawn, goto, NextThread
  <2>2. CASE CallRun
    BY <2>2 DEF CallRun
  <2>3. CASE SetFunction
    BY <2>3 DEF SetFunction
  <2>4. CASE SetNumTasks
    BY <2>4 DEF SetNumTasks
  <2>5. CASE MainLock
    BY <2>5 DEF MainLock
  <2>6. CASE SetFlags
    BY <2>6 DEF SetFlags, NextThread
  <2>7. CASE RunNotify
    <3>1. \A w : w \in sleeping'[mi] => w \in sleeping[mi] /\ ~(sleeping[mi] \subseteq {w})
      BY <2>7, NotifyOneEffect DEF RunNotify
    <3>2. \A j \in Threads : \A w : w \in sleeping'[j] => w \in sleeping[j]
      BY <2>7, NotifyOneEffect DEF RunNotify
    <3> QED
      BY <2>7, <3>1, <3>2 DEF RunNotify, NextThread
  <2>8. CASE RunSleep
    BY <2>8 DEF RunSleep
  <2>9. CASE RunWaited
    BY <2>9 DEF RunWaited, NextThread
  <2>10. CASE CallDestructor
    BY <2>10 DEF CallDestructor
  <2>11. CASE SetDestructed
    BY <2>11 DEF SetDestructed, NextThread
  <2>12. CASE DestructorNotify
    <3>1. \A w : w \in sleeping'[mi] => w \in sleeping[mi] /\ ~(sleeping[mi] \subseteq {w})
      BY <2>12, NotifyOneEffect DEF DestructorNotify
    <3>2. \A j \in Threads : \A w : w \in sleeping'[j] => w \in sleeping[j]
      BY <2>12, NotifyOneEffect DEF DestructorNotify
    <3> QED
      BY <2>12, <3>1, <3>2 DEF DestructorNotify, NextThread
  <2>13. CASE Join
    BY <2>13 DEF Join, NextThread
  <2> QED
    BY <1>4, <2>1, <2>2, <2>3, <2>4, <2>5, <2>6, <2>7, <2>8,
       <2>9, <2>10, <2>11, <2>12, <2>13 DEF Main, MainProgress
<1> QED
  BY <1>1, <1>2, <1>3, <1>4 DEF Next, Gone

(* A busy worker works for the run() in progress, on its arguments. *)
LEMMA BusyServing ==
    ASSUME TypeOK, FlagInv, RequestInv, NEW i \in Threads, Busy(i)
    PROVE  /\ mpc \in Serving /\ mpc \in RunPC /\ Published(i) /\ ~finished[i]
           /\ function = request.fn /\ num_tasks = request.num
BY DEF TypeOK, FlagInv, RequestInv, Published, HasWork, Serving, RunPC

(* run() installs its request before it publishes it. *)
LEMMA RequestStep ==
    TypeOK /\ RequestInv /\ [Next]_vars => RequestInv'
<1> SUFFICES ASSUME TypeOK, RequestInv, [Next]_vars PROVE RequestInv'
  OBVIOUS
<1> USE PoolAssumption DEF TypeOK, RequestInv, Serving, flags, Threads
<1>1. CASE UNCHANGED vars
  BY <1>1 DEF vars
<1>2. ASSUME NEW i \in Threads, Worker(i) PROVE RequestInv'
  <2>1. CASE WorkerLock(i)
    BY <2>1 DEF WorkerLock, goto
  <2>2. CASE WorkerBreak(i)
    BY <2>2 DEF WorkerBreak, goto
  <2>3. CASE WorkerStart(i)
    BY <2>3 DEF WorkerStart, goto
  <2>4. CASE WorkerSleep(i)
    BY <2>4 DEF WorkerSleep, goto
  <2>5. CASE WorkerBegin(i)
    BY <2>5 DEF WorkerBegin, goto
  <2>6. CASE WorkerEnd(i)
    BY <2>6 DEF WorkerEnd, goto
  <2>7. CASE WorkerApply(i)
    BY <2>7 DEF WorkerApply
  <2>8. CASE WorkerFinish(i)
    BY <2>8 DEF WorkerFinish, goto
  <2>9. CASE WorkerNotify(i)
    BY <2>9 DEF WorkerNotify, goto
  <2> QED
    BY <1>2, <2>1, <2>2, <2>3, <2>4, <2>5, <2>6, <2>7, <2>8, <2>9 DEF Worker
<1>3. ASSUME NEW i \in Threads, SpuriousWakeup(i) PROVE RequestInv'
  BY <1>3 DEF SpuriousWakeup
<1>4. CASE Main
  <2>1. CASE Spawn
    BY <2>1 DEF Spawn, goto, NextThread
  <2>2. CASE CallRun
    BY <2>2 DEF CallRun
  <2>3. CASE SetFunction
    BY <2>3 DEF SetFunction
  <2>4. CASE SetNumTasks
    BY <2>4 DEF SetNumTasks
  <2>5. CASE MainLock
    BY <2>5 DEF MainLock
  <2>6. CASE SetFlags
    BY <2>6 DEF SetFlags, NextThread
  <2>7. CASE RunNotify
    BY <2>7 DEF RunNotify, NextThread
  <2>8. CASE RunSleep
    BY <2>8 DEF RunSleep
  <2>9. CASE RunWaited
    BY <2>9 DEF RunWaited, NextThread
  <2>10. CASE CallDestructor
    BY <2>10 DEF CallDestructor
  <2>11. CASE SetDestructed
    BY <2>11 DEF SetDestructed, NextThread
  <2>12. CASE DestructorNotify
    BY <2>12 DEF DestructorNotify, NextThread
  <2>13. CASE Join
    BY <2>13 DEF Join, NextThread
  <2> QED
    BY <1>4, <2>1, <2>2, <2>3, <2>4, <2>5, <2>6, <2>7, <2>8,
       <2>9, <2>10, <2>11, <2>12, <2>13 DEF Main, MainProgress
<1> QED
  BY <1>1, <1>2, <1>3, <1>4 DEF Next, Gone

(* A worker stays within the slice of the request it serves. *)
LEMMA SliceStep ==
    TypeOK /\ FlagInv /\ RequestInv /\ SliceInv /\ [Next]_vars => SliceInv'
<1> SUFFICES ASSUME TypeOK, FlagInv, RequestInv, SliceInv, [Next]_vars PROVE SliceInv'
  OBVIOUS
<1> USE PoolAssumption DEF TypeOK, SliceInv, flags
<1>1. CASE UNCHANGED vars
  BY <1>1 DEF vars
<1>2. ASSUME NEW i \in Threads, Worker(i) PROVE SliceInv'
  <2>1. CASE WorkerLock(i)
    BY <2>1 DEF WorkerLock, goto
  <2>2. CASE WorkerBreak(i)
    BY <2>2 DEF WorkerBreak, goto
  <2>3. CASE WorkerStart(i)
    BY <2>3 DEF WorkerStart, goto
  <2>4. CASE WorkerSleep(i)
    BY <2>4 DEF WorkerSleep, goto
  <2>5. CASE WorkerBegin(i)
    BY <2>5, BusyServing DEF WorkerBegin, goto, Busy
  <2>6. CASE WorkerEnd(i)
    <3>1. num_tasks = request.num /\ request.num \in Nat
      BY <2>6, BusyServing DEF WorkerEnd, Busy
    <3>2. begin_idx(i, request.num) <= begin_idx(i + 1, request.num)
          /\ begin_idx(i, request.num) \in Nat
      BY <3>1, BeginIdxRange
    <3> QED
      BY <2>6, <3>1, <3>2 DEF WorkerEnd, goto
  <2>7. CASE WorkerApply(i)
    <3>1. begin_idx(i, request.num) \in Nat
      BY BeginIdxRange
    <3> QED
      BY <2>7, <3>1 DEF WorkerApply
  <2>8. CASE WorkerFinish(i)
    BY <2>8 DEF WorkerFinish, goto
  <2>9. CASE WorkerNotify(i)
    BY <2>9 DEF WorkerNotify, goto
  <2> QED
    BY <1>2, <2>1, <2>2, <2>3, <2>4, <2>5, <2>6, <2>7, <2>8, <2>9 DEF Worker
<1>3. ASSUME NEW i \in Threads, SpuriousWakeup(i) PROVE SliceInv'
  BY <1>3 DEF SpuriousWakeup
<1>4. CASE Main
  <2>1. CASE Spawn
    BY <2>1 DEF Spawn, goto, NextThread
  <2>2. CASE CallRun
    BY <2>2, BusyServing DEF CallRun, Busy, Serving
  <2>3. CASE SetFunction
    BY <2>3 DEF SetFunction
  <2>4. CASE SetNumTasks
    BY <2>4 DEF SetNumTasks
  <2>5. CASE MainLock
    BY <2>5 DEF MainLock
  <2>6. CASE SetFlags
    BY <2>6 DEF SetFlags, NextThread
  <2>7. CASE RunNotify
    BY <2>7 DEF RunNotify, NextThread
  <2>8. CASE RunSleep
    BY <2>8 DEF RunSleep
  <2>9. CASE RunWaited
    BY <2>9 DEF RunWaited, NextThread
  <2>10. CASE CallDestructor
    BY <2>10 DEF CallDestructor
  <2>11. CASE SetDestructed
    BY <2>11 DEF SetDestructed, NextThread
  <2>12. CASE DestructorNotify
    BY <2>12 DEF DestructorNotify, NextThread
  <2>13. CASE Join
    BY <2>13 DEF Join, NextThread
  <2> QED
    BY <1>4, <2>1, <2>2, <2>3, <2>4, <2>5, <2>6, <2>7, <2>8,
       <2>9, <2>10, <2>11, <2>12, <2>13 DEF Main, MainProgress
<1> QED
  BY <1>1, <1>2, <1>3, <1>4 DEF Next, Gone

(* The effect of one call of function, in the terms of the request. *)
LEMMA ApplyEffect ==
    ASSUME TypeOK, FlagInv, RequestInv, SliceInv, NEW i \in Threads, WorkerApply(i)
    PROVE  /\ begin[i] \in Tasks
           /\ begin[i] \in TaskSlice(i, request.num)
           /\ begin[i] < request.num
           /\ \A k \in Tasks, f \in Functions :
                 applied'[k][f] = IF k = begin[i] /\ f = request.fn
                                  THEN applied[k][f] + 1 ELSE applied[k][f]
<1>1. /\ wpc[i] = "exec" /\ begin[i] < end[i] /\ function = request.fn
      /\ applied' = [applied EXCEPT ![begin[i]][function] = @ + 1]
  BY BusyServing DEF WorkerApply, Busy
<1>2. begin[i] \in Nat /\ end[i] \in Nat /\ end[i] <= MaxTasks /\ request.num \in Nat
      /\ request.fn \in Functions
  BY PoolAssumption DEF TypeOK
<1>3. begin_idx(i, request.num) <= begin[i] /\ end[i] = begin_idx(i + 1, request.num)
  BY <1>1 DEF SliceInv
<1>4. end[i] <= request.num
  BY <1>2, <1>3, BeginIdxRange
<1>5. begin[i] \in Tasks
  BY <1>1, <1>2, PoolAssumption DEF Tasks
<1>6. \A k \in Tasks, f \in Functions :
         applied'[k][f] = IF k = begin[i] /\ f = request.fn
                          THEN applied[k][f] + 1 ELSE applied[k][f]
  BY <1>1, <1>5 DEF TypeOK
<1> QED
  BY <1>1, <1>2, <1>3, <1>4, <1>5, <1>6 DEF TaskSlice

(* Nothing but the request is ever applied. *)
LEMMA OnlyRequestStep ==
    TypeOK /\ FlagInv /\ RequestInv /\ SliceInv /\ OnlyRequest /\ [Next]_vars => OnlyRequest'
<1> SUFFICES ASSUME TypeOK, FlagInv, RequestInv, SliceInv, OnlyRequest, [Next]_vars PROVE OnlyRequest'
  OBVIOUS
<1> USE PoolAssumption DEF OnlyRequest, flags
<1>1. CASE UNCHANGED vars
  BY <1>1 DEF vars
<1>2. ASSUME NEW i \in Threads, Worker(i) PROVE OnlyRequest'
  <2>1. CASE WorkerLock(i)
    BY <2>1 DEF WorkerLock
  <2>2. CASE WorkerBreak(i)
    BY <2>2 DEF WorkerBreak
  <2>3. CASE WorkerStart(i)
    BY <2>3 DEF WorkerStart
  <2>4. CASE WorkerSleep(i)
    BY <2>4 DEF WorkerSleep
  <2>5. CASE WorkerBegin(i)
    BY <2>5 DEF WorkerBegin
  <2>6. CASE WorkerEnd(i)
    BY <2>6 DEF WorkerEnd
  <2>7. CASE WorkerApply(i)
    <3>1. request' = request /\ request.num \in Nat /\ begin[i] \in Nat
      BY <2>7 DEF WorkerApply, TypeOK
    <3>2. ~(begin[i] >= request.num)
      BY <2>7, <3>1, ApplyEffect
    <3> QED
      BY <2>7, <3>1, <3>2, ApplyEffect
  <2>8. CASE WorkerFinish(i)
    BY <2>8 DEF WorkerFinish
  <2>9. CASE WorkerNotify(i)
    BY <2>9 DEF WorkerNotify
  <2> QED
    BY <1>2, <2>1, <2>2, <2>3, <2>4, <2>5, <2>6, <2>7, <2>8, <2>9 DEF Worker
<1>3. ASSUME NEW i \in Threads, SpuriousWakeup(i) PROVE OnlyRequest'
  BY <1>3 DEF SpuriousWakeup
<1>4. CASE Main
  <2>1. CASE Spawn
    BY <2>1 DEF Spawn
  <2>2. CASE CallRun
    <3>1. applied' = NothingApplied
      BY <2>2 DEF CallRun
    <3>2. \A k \in Tasks, f \in Functions : NothingApplied[k][f] = 0
      BY DEF NothingApplied
    <3> QED
      BY <3>1, <3>2
  <2>3. CASE SetFunction
    BY <2>3 DEF SetFunction
  <2>4. CASE SetNumTasks
    BY <2>4 DEF SetNumTasks
  <2>5. CASE MainLock
    BY <2>5 DEF MainLock
  <2>6. CASE SetFlags
    BY <2>6 DEF SetFlags
  <2>7. CASE RunNotify
    BY <2>7 DEF RunNotify
  <2>8. CASE RunSleep
    BY <2>8 DEF RunSleep
  <2>9. CASE RunWaited
    BY <2>9 DEF RunWaited
  <2>10. CASE CallDestructor
    BY <2>10 DEF CallDestructor
  <2>11. CASE SetDestructed
    BY <2>11 DEF SetDestructed
  <2>12. CASE DestructorNotify
    BY <2>12 DEF DestructorNotify
  <2>13. CASE Join
    BY <2>13 DEF Join
  <2> QED
    BY <1>4, <2>1, <2>2, <2>3, <2>4, <2>5, <2>6, <2>7, <2>8,
       <2>9, <2>10, <2>11, <2>12, <2>13 DEF Main, MainProgress
<1> QED
  BY <1>1, <1>2, <1>3, <1>4 DEF Next, Gone

(* Steps that change neither what has been applied nor who is done. *)
LEMMA DoneOnceFrame ==
    ASSUME DoneOnce, mpc \in RunPC, applied' = applied, request' = request,
           \A i \in Threads, k \in Tasks :
               k \in TaskSlice(i, request.num) => (Done(i, k)' <=> Done(i, k))
    PROVE  DoneOnce'
BY DEF DoneOnce, TaskSlice, begin_idx, SmallerOf

(* A task has been applied exactly if its worker is past it. *)
LEMMA DoneOnceStep ==
    TypeOK /\ LockInv /\ FlagInv /\ RequestInv /\ SliceInv /\ DoneOnce /\ [Next]_vars => DoneOnce'
<1> SUFFICES ASSUME TypeOK, LockInv, FlagInv, RequestInv, SliceInv, DoneOnce, [Next]_vars PROVE DoneOnce'
  OBVIOUS
<1> USE PoolAssumption DEF flags
<1>1. CASE UNCHANGED vars
  BY <1>1 DEF vars, DoneOnce, Done, Published, TaskSlice, begin_idx, SmallerOf
<1>2. ASSUME NEW i \in Threads, Worker(i) PROVE DoneOnce'
  <2>1. CASE WorkerLock(i)
    <3>1. \A j \in Threads, k \in Tasks : Done(j, k)' <=> Done(j, k)
      BY <2>1 DEF WorkerLock, goto, Done, Published, TypeOK, LockInv, FlagInv, Busy, HasWork
    <3>2. applied' = applied /\ request' = request /\ mpc' = mpc
      BY <2>1 DEF WorkerLock
    <3> QED
      BY <3>1, <3>2, DoneOnceFrame DEF DoneOnce
  <2>2. CASE WorkerBreak(i)
    <3>1. \A j \in Threads, k \in Tasks : Done(j, k)' <=> Done(j, k)
      BY <2>2 DEF WorkerBreak, goto, Done, Published, TypeOK, LockInv, FlagInv, Busy, HasWork
    <3>2. applied' = applied /\ request' = request /\ mpc' = mpc
      BY <2>2 DEF WorkerBreak
    <3> QED
      BY <3>1, <3>2, DoneOnceFrame DEF DoneOnce
  <2>3. CASE WorkerStart(i)
    <3>1. \A j \in Threads, k \in Tasks : Done(j, k)' <=> Done(j, k)
      BY <2>3 DEF WorkerStart, goto, Done, Published, TypeOK, LockInv, FlagInv, Busy, HasWork
    <3>2. applied' = applied /\ request' = request /\ mpc' = mpc
      BY <2>3 DEF WorkerStart
    <3> QED
      BY <3>1, <3>2, DoneOnceFrame DEF DoneOnce
  <2>4. CASE WorkerSleep(i)
    <3>1. \A j \in Threads, k \in Tasks : Done(j, k)' <=> Done(j, k)
      BY <2>4 DEF WorkerSleep, goto, Done, Published, TypeOK, LockInv, FlagInv, Busy, HasWork
    <3>2. applied' = applied /\ request' = request /\ mpc' = mpc
      BY <2>4 DEF WorkerSleep
    <3> QED
      BY <3>1, <3>2, DoneOnceFrame DEF DoneOnce
  <2>5. CASE WorkerBegin(i)
    <3>1. \A j \in Threads, k \in Tasks : Done(j, k)' <=> Done(j, k)
      BY <2>5 DEF WorkerBegin, goto, Done, Published, TypeOK, LockInv, FlagInv, Busy, HasWork
    <3>2. applied' = applied /\ request' = request /\ mpc' = mpc
      BY <2>5 DEF WorkerBegin
    <3> QED
      BY <3>1, <3>2, DoneOnceFrame DEF DoneOnce
  <2>6. CASE WorkerEnd(i)
    <3>1. begin[i] = begin_idx(i, request.num) /\ Busy(i)
      BY <2>6 DEF WorkerEnd, SliceInv, Busy
    <3>2. ~finished[i] /\ begin[i] \in Nat
      BY <3>1, BusyServing DEF TypeOK
    <3>3. \A j \in Threads, k \in Tasks :
             k \in TaskSlice(j, request.num) => (Done(j, k)' <=> Done(j, k))
      BY <2>6, <3>1, <3>2 DEF WorkerEnd, goto, Done, Published, TypeOK, TaskSlice
    <3>4. applied' = applied /\ request' = request /\ mpc' = mpc
      BY <2>6 DEF WorkerEnd
    <3> QED
      BY <3>3, <3>4, DoneOnceFrame DEF DoneOnce
  <2>7. CASE WorkerApply(i)
    <3>1. /\ wpc[i] = "exec" /\ Busy(i) /\ request' = request /\ mpc' = mpc
          /\ wpc' = wpc /\ finished' = finished /\ mi' = mi
      BY <2>7 DEF WorkerApply, Busy
    <3>0. \A j \in Threads : begin'[j] = IF j = i THEN begin[i] + 1 ELSE begin[j]
      BY <2>7 DEF WorkerApply, TypeOK
    <3>2. /\ Published(i) /\ ~finished[i] /\ mpc \in RunPC
          /\ begin[i] \in Nat /\ request.fn \in Functions /\ request.num \in Nat
      BY <3>1, BusyServing DEF TypeOK
    <3>3. SUFFICES ASSUME NEW j \in Threads, NEW k \in Tasks,
                          k \in TaskSlice(j, request.num)
                   PROVE  applied'[k][request.fn] = IF Done(j, k)' THEN 1 ELSE 0
      BY <3>1 DEF DoneOnce, TaskSlice, begin_idx, SmallerOf
    <3>4. applied[k][request.fn] = IF Done(j, k) THEN 1 ELSE 0
      BY <3>2, <3>3 DEF DoneOnce
    <3>5. CASE k = begin[i]
      <4>1. j = i
        BY <3>2, <3>3, <3>5, <2>7, ApplyEffect, TasksDisjoint
      <4>2. ~Done(j, k) /\ Done(j, k)'
        BY <3>1, <3>2, <3>5, <3>0, <4>1 DEF Done, Published
      <4> QED
        BY <3>2, <3>4, <3>5, <4>2, <2>7, ApplyEffect
    <3>6. CASE k # begin[i]
      <4>1. k \in Nat /\ (k < begin[i] + 1 <=> k < begin[i])
        BY <3>2, <3>3, <3>6 DEF TaskSlice
      <4>2. Done(j, k)' <=> Done(j, k)
        BY <3>1, <3>0, <4>1 DEF Done, Published
      <4> QED
        BY <3>2, <3>4, <3>6, <4>2, <2>7, ApplyEffect
    <3> QED
      BY <3>5, <3>6
  <2>8. CASE WorkerFinish(i)
    <3>1. /\ begin[i] = begin_idx(i + 1, request.num) /\ wpc[i] = "exec"
          /\ Published(i) /\ begin[i] \in Nat
      <4>1. wpc[i] = "exec" /\ Busy(i) /\ ~(begin[i] < end[i])
        BY <2>8 DEF WorkerFinish, Busy
      <4>2. begin[i] \in Nat /\ end[i] \in Nat
        BY DEF TypeOK
      <4> QED
        BY <4>1, <4>2, BusyServing DEF SliceInv
    <3>2. \A j \in Threads, k \in Tasks :
             k \in TaskSlice(j, request.num) => (Done(j, k)' <=> Done(j, k))
      BY <2>8, <3>1 DEF WorkerFinish, goto, Done, Published, TypeOK, TaskSlice
    <3>3. applied' = applied /\ request' = request /\ mpc' = mpc
      BY <2>8 DEF WorkerFinish
    <3> QED
      BY <3>2, <3>3, DoneOnceFrame DEF DoneOnce
  <2>9. CASE WorkerNotify(i)
    <3>1. \A j \in Threads, k \in Tasks : Done(j, k)' <=> Done(j, k)
      BY <2>9 DEF WorkerNotify, goto, Done, Published, TypeOK, LockInv, FlagInv, Busy, HasWork
    <3>2. applied' = applied /\ request' = request /\ mpc' = mpc
      BY <2>9 DEF WorkerNotify
    <3> QED
      BY <3>1, <3>2, DoneOnceFrame DEF DoneOnce
  <2> QED
    BY <1>2, <2>1, <2>2, <2>3, <2>4, <2>5, <2>6, <2>7, <2>8, <2>9 DEF Worker
<1>3. ASSUME NEW i \in Threads, SpuriousWakeup(i) PROVE DoneOnce'
  <2>1. \A j \in Threads, k \in Tasks : Done(j, k)' <=> Done(j, k)
    BY <1>3 DEF SpuriousWakeup, Done, Published
  <2>2. applied' = applied /\ request' = request /\ mpc' = mpc
    BY <1>3 DEF SpuriousWakeup
  <2> QED
    BY <2>1, <2>2, DoneOnceFrame DEF DoneOnce
<1>4. CASE Main
  <2>1. CASE Spawn
    BY <2>1 DEF Spawn, NextThread, DoneOnce, RunPC
  <2>2. CASE CallRun
    <3>1. applied' = NothingApplied /\ mpc' = "set_function"
          /\ request' \in [fn : Functions, num : 0 .. MaxTasks]
      BY <2>2 DEF CallRun
    <3>2. \A j \in Threads, k \in Tasks : ~Done(j, k)'
      BY <3>1 DEF Done, Published
    <3> QED
      BY <3>1, <3>2 DEF DoneOnce, NothingApplied
  <2>3. CASE SetFunction
    <3>1. \A j \in Threads, k \in Tasks : Done(j, k)' <=> Done(j, k)
      BY <2>3 DEF SetFunction, NextThread, Done, Published, TypeOK, LockInv, FlagInv, Busy, HasWork, Threads
    <3>2. applied' = applied /\ request' = request /\ mpc \in RunPC
      BY <2>3 DEF SetFunction, RunPC
    <3> QED
      BY <3>1, <3>2, DoneOnceFrame
  <2>4. CASE SetNumTasks
    <3>1. \A j \in Threads, k \in Tasks : Done(j, k)' <=> Done(j, k)
      BY <2>4 DEF SetNumTasks, NextThread, Done, Published, TypeOK, LockInv, FlagInv, Busy, HasWork, Threads
    <3>2. applied' = applied /\ request' = request /\ mpc \in RunPC
      BY <2>4 DEF SetNumTasks, RunPC
    <3> QED
      BY <3>1, <3>2, DoneOnceFrame
  <2>5. CASE MainLock
    <3>1. applied' = applied /\ request' = request
      BY <2>5 DEF MainLock
    <3>2. \A j \in Threads, k \in Tasks : Done(j, k)' <=> Done(j, k)
      BY <2>5 DEF MainLock, flags, Done, Published
    <3>3. mpc' \in RunPC => mpc \in RunPC
      BY <2>5 DEF MainLock, RunPC
    <3> QED
      BY <3>1, <3>2, <3>3, DoneOnceFrame DEF DoneOnce
  <2>6. CASE SetFlags
    <3>1. ~Busy(mi) /\ mi \in Threads
      BY <2>6 DEF SetFlags, LockInv, TypeOK
    <3>2. \A j \in Threads : /\ (Published(j) <=> j < mi)
                               /\ (Published(j)' <=> j <= mi)
      BY <2>6, <3>1 DEF SetFlags, NextThread, Published, Threads
    <3>3. \A j \in Threads : j <= mi => j < mi \/ j = mi
      BY <3>1 DEF Threads
    <3>4. /\ wpc' = wpc /\ begin' = begin /\ ~finished'[mi]
          /\ \A j \in Threads : j # mi => finished'[j] = finished[j]
      BY <2>6, <3>1 DEF SetFlags, TypeOK
    <3>5. \A j \in Threads : j < mi => j <= mi /\ j # mi
      BY <3>1 DEF Threads
    <3>6. \A j \in Threads, k \in Tasks : Done(j, k)' <=> Done(j, k)
      BY <3>1, <3>2, <3>3, <3>4, <3>5 DEF Done, Busy
    <3>7. applied' = applied /\ request' = request /\ mpc \in RunPC
      BY <2>6 DEF SetFlags, RunPC
    <3> QED
      BY <3>6, <3>7, DoneOnceFrame
  <2>7. CASE RunNotify
    <3>1. \A j \in Threads, k \in Tasks : Done(j, k)' <=> Done(j, k)
      BY <2>7 DEF RunNotify, NextThread, Done, Published, TypeOK, LockInv, FlagInv, Busy, HasWork, Threads
    <3>2. applied' = applied /\ request' = request /\ mpc \in RunPC
      BY <2>7 DEF RunNotify, RunPC
    <3> QED
      BY <3>1, <3>2, DoneOnceFrame
  <2>8. CASE RunSleep
    <3>1. \A j \in Threads, k \in Tasks : Done(j, k)' <=> Done(j, k)
      BY <2>8 DEF RunSleep, NextThread, Done, Published, TypeOK, LockInv, FlagInv, Busy, HasWork, Threads
    <3>2. applied' = applied /\ request' = request /\ mpc \in RunPC
      BY <2>8 DEF RunSleep, RunPC
    <3> QED
      BY <3>1, <3>2, DoneOnceFrame
  <2>9. CASE RunWaited
    <3>1. applied' = applied /\ request' = request /\ mpc \in RunPC
      BY <2>9 DEF RunWaited, RunPC
    <3>2. CASE mi + 1 < NumThreads
      <4>1. \A j \in Threads, k \in Tasks : Done(j, k)' <=> Done(j, k)
        BY <2>9, <3>2 DEF RunWaited, flags, NextThread, Done, Published
      <4> QED
        BY <3>1, <4>1, DoneOnceFrame
    <3>3. CASE ~(mi + 1 < NumThreads)
      BY <2>9, <3>3 DEF RunWaited, NextThread, DoneOnce, RunPC
    <3> QED
      BY <3>2, <3>3
  <2>10. CASE CallDestructor
    BY <2>10 DEF CallDestructor, NextThread, DoneOnce, RunPC
  <2>11. CASE SetDestructed
    BY <2>11 DEF SetDestructed, NextThread, DoneOnce, RunPC
  <2>12. CASE DestructorNotify
    BY <2>12 DEF DestructorNotify, NextThread, DoneOnce, RunPC
  <2>13. CASE Join
    BY <2>13 DEF Join, NextThread, DoneOnce, RunPC
  <2> QED
    BY <1>4, <2>1, <2>2, <2>3, <2>4, <2>5, <2>6, <2>7, <2>8,
       <2>9, <2>10, <2>11, <2>12, <2>13 DEF Main, MainProgress
<1> QED
  BY <1>1, <1>2, <1>3, <1>4 DEF Next, Gone

(* When run() has waited for its last worker, every slice has been done. *)
LEMMA LastWait ==
    ASSUME TypeOK, FlagInv, OnlyRequest, DoneOnce, mpc = "check_wait",
           finished[mi], ~(mi + 1 < NumThreads)
    PROVE  \A k \in Tasks, f \in Functions :
               applied[k][f] = IF k < request.num /\ f = request.fn THEN 1 ELSE 0
<1> SUFFICES ASSUME NEW k \in Tasks, NEW f \in Functions
             PROVE  applied[k][f] = IF k < request.num /\ f = request.fn THEN 1 ELSE 0
  OBVIOUS
<1>1. k \in Nat /\ request.num \in Nat
  BY PoolAssumption DEF TypeOK, Tasks
<1>2. CASE f # request.fn \/ k >= request.num
  BY <1>1, <1>2 DEF OnlyRequest
<1>3. CASE f = request.fn /\ k < request.num
  <2>1. PICK i \in Threads : k \in TaskSlice(i, request.num)
    BY <1>1, <1>3, TasksCover
  <2>2. finished[i]
    <3>1. i < mi \/ i = mi
      BY PoolAssumption DEF Threads, TypeOK
    <3> QED
      BY <3>1 DEF FlagInv
  <2>3. Done(i, k)
    BY <2>2 DEF Done, Published
  <2> QED
    BY <1>3, <2>1, <2>3 DEF DoneOnce, RunPC
<1> QED
  BY <1>1, <1>2, <1>3

(* The pool becomes idle only with the request served. *)
LEMMA ExactlyOnceStep ==
    TypeOK /\ FlagInv /\ RequestInv /\ OnlyRequest /\ DoneOnce /\ ExactlyOnce /\ [Next]_vars => ExactlyOnce'
<1> SUFFICES ASSUME TypeOK, FlagInv, RequestInv, OnlyRequest, DoneOnce, ExactlyOnce, [Next]_vars PROVE ExactlyOnce'
  OBVIOUS
<1> USE PoolAssumption DEF ExactlyOnce, flags
<1>1. CASE UNCHANGED vars
  BY <1>1 DEF vars
<1>2. ASSUME NEW i \in Threads, Worker(i) PROVE ExactlyOnce'
  <2>1. CASE WorkerLock(i)
    BY <2>1 DEF WorkerLock
  <2>2. CASE WorkerBreak(i)
    BY <2>2 DEF WorkerBreak
  <2>3. CASE WorkerStart(i)
    BY <2>3 DEF WorkerStart
  <2>4. CASE WorkerSleep(i)
    BY <2>4 DEF WorkerSleep
  <2>5. CASE WorkerBegin(i)
    BY <2>5 DEF WorkerBegin
  <2>6. CASE WorkerEnd(i)
    BY <2>6 DEF WorkerEnd
  <2>7. CASE WorkerApply(i)
    <3>1. mpc # "idle" /\ mpc' = mpc
      BY <2>7, BusyServing DEF WorkerApply, Busy, Serving
    <3> QED
      BY <3>1
  <2>8. CASE WorkerFinish(i)
    BY <2>8 DEF WorkerFinish
  <2>9. CASE WorkerNotify(i)
    BY <2>9 DEF WorkerNotify
  <2> QED
    BY <1>2, <2>1, <2>2, <2>3, <2>4, <2>5, <2>6, <2>7, <2>8, <2>9 DEF Worker
<1>3. ASSUME NEW i \in Threads, SpuriousWakeup(i) PROVE ExactlyOnce'
  BY <1>3 DEF SpuriousWakeup
<1>4. CASE Main
  <2>1. CASE Spawn
    <3>1. request.num = 0 /\ applied' = applied /\ request' = request
      BY <2>1 DEF Spawn, RequestInv
    <3>2. \A k \in Tasks : k >= 0 /\ ~(k < 0)
      BY PoolAssumption DEF Tasks
    <3> QED
      BY <3>1, <3>2 DEF OnlyRequest
  <2>2. CASE CallRun
    BY <2>2 DEF CallRun
  <2>3. CASE SetFunction
    BY <2>3 DEF SetFunction
  <2>4. CASE SetNumTasks
    BY <2>4 DEF SetNumTasks
  <2>5. CASE MainLock
    BY <2>5 DEF MainLock
  <2>6. CASE SetFlags
    BY <2>6 DEF SetFlags, NextThread
  <2>7. CASE RunNotify
    BY <2>7 DEF RunNotify, NextThread
  <2>8. CASE RunSleep
    BY <2>8 DEF RunSleep
  <2>9. CASE RunWaited
    <3>1. applied' = applied /\ request' = request
      BY <2>9 DEF RunWaited
    <3>2. CASE mi + 1 < NumThreads
      BY <2>9, <3>2 DEF RunWaited, NextThread
    <3>3. CASE ~(mi + 1 < NumThreads)
      BY <2>9, <3>1, <3>3, LastWait DEF RunWaited
    <3> QED
      BY <3>2, <3>3
  <2>10. CASE CallDestructor
    BY <2>10 DEF CallDestructor
  <2>11. CASE SetDestructed
    BY <2>11 DEF SetDestructed, NextThread
  <2>12. CASE DestructorNotify
    BY <2>12 DEF DestructorNotify, NextThread
  <2>13. CASE Join
    BY <2>13 DEF Join, NextThread
  <2> QED
    BY <1>4, <2>1, <2>2, <2>3, <2>4, <2>5, <2>6, <2>7, <2>8,
       <2>9, <2>10, <2>11, <2>12, <2>13 DEF Main, MainProgress
<1> QED
  BY <1>1, <1>2, <1>3, <1>4 DEF Next, Gone

(* The invariant holds in the constructor and is preserved by every step. *)
LEMMA InitIInv == Init => IInv
<1> SUFFICES ASSUME Init PROVE IInv
  OBVIOUS
<1>1. TypeOK
  BY TypeInit
<1>2. LockInv /\ FlagInv /\ RequestInv /\ SliceInv
  BY DEF Init, LockInv, FlagInv, RequestInv, SliceInv, Published, HasWork, Busy,
     Serving
<1>3. AppliedInv
  BY PoolAssumption DEF Init, AppliedInv, OnlyRequest, DoneOnce, ExactlyOnce,
     NothingApplied, RunPC
<1> QED
  BY <1>1, <1>2, <1>3 DEF IInv

(* Each part is preserved with the help of the earlier ones. *)
LEMMA StepIInv == IInv /\ [Next]_vars => IInv'
BY TypeStep, LockStep, FlagStep, RequestStep, SliceStep, OnlyRequestStep,
   DoneOnceStep, ExactlyOnceStep DEF IInv, AppliedInv

(* Hence the invariant holds in every reachable state. *)
LEMMA Invariance == Spec => []IInv
BY InitIInv, StepIInv, PTL DEF Spec

(* run() returns with its request applied exactly once to every index, for *)
(* any number of workers and tasks.                                        *)
THEOREM AppliedExactlyOnce == Spec => []ExactlyOnce
<1>1. IInv => ExactlyOnce
  BY DEF IInv, AppliedInv
<1> QED
  BY <1>1, Invariance, PTL

(* The unlocked reads of function and num_tasks are safe: they happen only *)
(* within the run() that wrote them.                                       *)
THEOREM ClosureStaysAlive == Spec => []ClosureAlive
<1>1. IInv => ClosureAlive
  BY BusyServing DEF IInv, ClosureAlive, Busy
<1> QED
  BY <1>1, Invariance, PTL

(* Neither side sleeps through the other's notification. *)
THEOREM WakeupsArrive == Spec => []NoLostWakeup
<1>1. Init => NoLostWakeup
  BY DEF Init, NoLostWakeup, HasWork
<1>2. IInv /\ NoLostWakeup /\ [Next]_vars => NoLostWakeup'
  BY WakeupStep DEF IInv
<1> QED
  BY <1>1, <1>2, Invariance, PTL DEF Spec

(***************************************************************************)
(* Refinement: every step of the pool is a step of ParallelFor or a        *)
(* stutter.                                                                *)
(***************************************************************************)

(* A pool under construction is an idle parallel for loop. *)
LEMMA RefineInit == Init => PF!Init
<1> SUFFICES ASSUME Init PROVE PF!Init
  OBVIOUS
<1>1. Phase = "idle"
  BY DEF Init, Phase, RunPC, ClosePC
<1>2. applied = PF!NothingApplied
  BY DEF Init, NothingApplied, PF!NothingApplied, Tasks, PF!Tasks
<1> QED
  BY <1>1, <1>2 DEF Init, PF!Init

(* Steps within one phase that apply nothing are invisible to ParallelFor. *)
LEMMA RefineStutter ==
    ASSUME Phase' = Phase, applied' = applied, request' = request
    PROVE  UNCHANGED PF!vars
BY DEF PF!vars

(* The call of function on begin[i] is the abstract Apply. *)
LEMMA RefineApply ==
    ASSUME IInv, NEW i \in Threads, WorkerApply(i)
    PROVE  PF!Apply(begin[i]) /\ begin[i] \in PF!Tasks
<1>1. /\ wpc[i] = "exec" /\ Busy(i)
      /\ applied' = [applied EXCEPT ![begin[i]][function] = @ + 1]
      /\ mpc' = mpc /\ request' = request
  BY DEF WorkerApply, Busy
<1>2. /\ mpc \in RunPC /\ Published(i) /\ ~finished[i]
      /\ function = request.fn
  BY <1>1, BusyServing DEF IInv
<1>3. /\ begin[i] \in Tasks /\ begin[i] \in TaskSlice(i, request.num)
      /\ begin[i] < request.num
  BY ApplyEffect DEF IInv
<1>4. begin[i] \in Nat /\ ~(begin[i] < begin[i])
  BY DEF IInv, TypeOK
<1>5. ~Done(i, begin[i])
  BY <1>2, <1>4 DEF Done
<1>6. applied[begin[i]][request.fn] = 0
  BY <1>2, <1>3, <1>5 DEF IInv, AppliedInv, DoneOnce
<1>7. applied' = [applied EXCEPT ![begin[i]][request.fn] = 1]
  BY <1>1, <1>2, <1>6
<1>8. Phase = "running" /\ Phase' = "running"
  BY <1>1, <1>2 DEF Phase, RunPC, ClosePC
<1> QED
  BY <1>1, <1>3, <1>6, <1>7, <1>8 DEF PF!Apply, Tasks, PF!Tasks

(* Every step of the pool is a ParallelFor step or leaves it unchanged. *)
LEMMA RefineStep == IInv /\ [Next]_vars => [PF!Next]_(PF!vars)
<1> SUFFICES ASSUME IInv, [Next]_vars PROVE [PF!Next]_(PF!vars)
  OBVIOUS
<1> USE DEF flags
<1>1. CASE UNCHANGED vars
  BY <1>1, RefineStutter DEF vars, Phase
<1>2. ASSUME NEW i \in Threads, Worker(i) PROVE [PF!Next]_(PF!vars)
  <2>1. CASE WorkerApply(i)
    BY <2>1, RefineApply DEF PF!Next
  <2>2. CASE ~WorkerApply(i)
    <3>1. mpc' = mpc /\ applied' = applied /\ request' = request
      BY <1>2, <2>2 DEF Worker, WorkerLock, WorkerBreak, WorkerStart,
         WorkerSleep, WorkerBegin, WorkerEnd, WorkerFinish, WorkerNotify
    <3> QED
      BY <3>1, RefineStutter DEF Phase
  <2> QED
    BY <2>1, <2>2
<1>3. ASSUME NEW i \in Threads, SpuriousWakeup(i) PROVE [PF!Next]_(PF!vars)
  BY <1>3, RefineStutter DEF SpuriousWakeup, Phase
<1>4. CASE Main
  <2> USE DEF Phase, RunPC, ClosePC
  <2>1. CASE CallRun
    BY <2>1 DEF CallRun, PF!Next, PF!Run, NothingApplied, PF!NothingApplied,
       Tasks, PF!Tasks
  <2>2. CASE CallDestructor
    BY <2>2 DEF CallDestructor, PF!Next, PF!Close
  <2>3. CASE RunWaited
    <3>1. /\ mpc = "check_wait" /\ finished[mi]
          /\ applied' = applied /\ request' = request
      BY <2>3 DEF RunWaited
    <3>2. CASE mi + 1 < NumThreads
      BY <2>3, <3>1, <3>2, RefineStutter DEF RunWaited, NextThread
    <3>3. CASE ~(mi + 1 < NumThreads)
      <4>1. mpc' = "idle"
        BY <2>3, <3>3 DEF RunWaited, NextThread
      <4>2. \A k \in Tasks : k < request.num => applied[k][request.fn] = 1
        BY <3>1, <3>3, LastWait DEF IInv, AppliedInv, TypeOK
      <4>3. PF!Return
        BY <3>1, <4>1, <4>2 DEF PF!Return, Tasks, PF!Tasks
      <4> QED
        BY <4>3 DEF PF!Next
    <3> QED
      BY <3>2, <3>3
  <2>4. CASE Join
    <3>1. applied' = applied /\ request' = request /\ mpc = "join"
          /\ mpc' \in {"join", "dead"}
      BY <2>4 DEF Join, NextThread
    <3>2. CASE mpc' = "join"
      BY <3>1, <3>2, RefineStutter
    <3>3. CASE mpc' = "dead"
      BY <3>1, <3>3 DEF PF!Next, PF!Closed
    <3> QED
      BY <3>1, <3>2, <3>3
  <2>5. CASE MainProgress /\ ~RunWaited /\ ~Join
    <3>1. applied' = applied /\ request' = request
      BY <2>5 DEF MainProgress, Spawn, SetFunction, SetNumTasks, MainLock,
         SetFlags, RunNotify, RunSleep, SetDestructed, DestructorNotify
    <3>2. \/ mpc \in {"spawn", "idle"} /\ mpc' \in {"spawn", "idle"}
          \/ mpc \in RunPC /\ mpc' \in RunPC
          \/ mpc \in ClosePC /\ mpc' \in ClosePC
      BY <2>5 DEF MainProgress, Spawn, SetFunction, SetNumTasks, MainLock,
         SetFlags, RunNotify, RunSleep, SetDestructed, DestructorNotify,
         NextThread
    <3>3. Phase' = Phase
      BY <3>2
    <3> QED
      BY <3>1, <3>3, RefineStutter
  <2> QED
    BY <1>4, <2>1, <2>2, <2>3, <2>4, <2>5 DEF Main
<1> QED
  BY <1>1, <1>2, <1>3, <1>4 DEF Next, Gone

(* The pool is a parallel for loop: FilterThreadPool implements            *)
(* ParallelFor, whatever the number of workers and the schedule.           *)
THEOREM PoolImplementsParallelFor == Spec => ImplementsParallelFor
BY RefineInit, RefineStep, Invariance, PTL
   DEF Spec, ImplementsParallelFor, PF!Spec
=============================================================================
