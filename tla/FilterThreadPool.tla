-------------------------- MODULE FilterThreadPool --------------------------
(***************************************************************************)
(* The thread pool of include/inner_column.h: NumThreads workers, each     *)
(* with its own mutex, condition variable and three flags, and the one     *)
(* caller thread that uses the pool (no code calls run() from two          *)
(* threads).  A step is the code between two synchronisation points;       *)
(* function and num_tasks are written and read outside every common lock,  *)
(* so each of their accesses is a step of its own.                         *)
(***************************************************************************)
EXTENDS Naturals, FiniteSets

CONSTANTS NumThreads,   \* workers of the pool (filter_tp has 12)
          MaxTasks,     \* bound on num_tasks
          Functions,    \* the closures that callers hand to run()
          NoFunction,   \* the empty std::function
          MaxSpurious   \* bound on spurious wakeups of the condition variables

ASSUME PoolAssumption ==
    /\ NumThreads \in Nat \ {0}
    /\ MaxTasks \in Nat
    /\ MaxSpurious \in Nat
    /\ NoFunction \notin Functions

Threads == 0 .. NumThreads - 1
Tasks   == 0 .. MaxTasks - 1

VARIABLES mtx,          \* mtxes[i]: "free", or held by "worker" or "main"
          sleeping,     \* cvs[i]: who is blocked in cv.wait, not yet notified
          has_function, finished, destructed,
          function, num_tasks,
          wpc,          \* wpc[i]: where worker i is in run_loop
          begin, end,   \* the locals of run_loop; begin advances as the
                        \* function walks over its slice
          mpc, mi,      \* where the caller is, and its loop index i
          request,      \* the arguments of the latest run()
          applied,      \* history: applied[k][f], as in ParallelFor
          spurious      \* spurious wakeups so far

flags == <<has_function, finished, destructed>>
vars  == <<mtx, sleeping, flags, function, num_tasks, wpc, begin, end,
           mpc, mi, request, applied, spurious>>

WorkerPC == {"unborn", "lock", "check", "asleep", "begin", "end",
             "exec", "notify", "exited"}
RunPC    == {"set_function", "set_num_tasks", "lock_flags", "set_flags",
             "notify", "lock_wait", "check_wait", "asleep"}
ClosePC  == {"lock_destructed", "set_destructed", "notify_destructed", "join"}
MainPC   == {"spawn", "idle", "dead"} \cup RunPC \cup ClosePC

NothingApplied == [k \in Tasks |-> [f \in Functions |-> 0]]

SmallerOf(a, b) == IF a < b THEN a ELSE b

(* Faulty variants, here and below, are named operator_Fault: they show    *)
(* that the properties at the end notice a plausible mistake in the code.  *)
begin_idx_Overrun(thread_id, tasks) ==
    thread_id * (tasks \div NumThreads + 1)

begin_idx_NoRemainder(thread_id, tasks) ==
    thread_id * (tasks \div NumThreads)

(* begin_idx: the slices of consecutive threads differ by at most one. *)
begin_idx(thread_id, tasks) ==
    thread_id * (tasks \div NumThreads)
        + SmallerOf(thread_id, tasks % NumThreads)

Init ==
    /\ mtx = [i \in Threads |-> "free"]
    /\ sleeping = [i \in Threads |-> {}]
    /\ has_function = [i \in Threads |-> FALSE]
    /\ finished = [i \in Threads |-> FALSE]
    /\ destructed = [i \in Threads |-> FALSE]
    /\ function = NoFunction
    /\ num_tasks = 0
    /\ wpc = [i \in Threads |-> "unborn"]
    /\ begin = [i \in Threads |-> 0]
    /\ end = [i \in Threads |-> 0]
    /\ mpc = "spawn" /\ mi = 0
    /\ request \in [fn : Functions, num : {0}]
    /\ applied = NothingApplied
    /\ spurious = 0

-----------------------------------------------------------------------------
(* Condition variables.  notify_one wakes one sleeper if there is one; a   *)
(* sleeper that has left the set still has to take the mutex again.        *)

NotifyOne(i) ==
    IF sleeping[i] = {}
    THEN UNCHANGED sleeping
    ELSE \E w \in sleeping[i] : sleeping' = [sleeping EXCEPT ![i] = @ \ {w}]

SpuriousWakeup(i) ==
    /\ spurious < MaxSpurious
    /\ spurious' = spurious + 1
    /\ \E w \in sleeping[i] : sleeping' = [sleeping EXCEPT ![i] = @ \ {w}]
    /\ UNCHANGED <<mtx, flags, function, num_tasks, wpc, begin, end,
                   mpc, mi, request, applied>>

-----------------------------------------------------------------------------
(* Worker i: run_loop.                                                     *)

goto(i, pc) == wpc' = [wpc EXCEPT ![i] = pc]

WorkerLock(i) ==
    /\ \/ wpc[i] = "lock"
       \/ wpc[i] = "asleep" /\ "worker" \notin sleeping[i]
    /\ mtx[i] = "free"
    /\ mtx' = [mtx EXCEPT ![i] = "worker"]
    /\ goto(i, "check")
    /\ UNCHANGED <<sleeping, flags, function, num_tasks, begin, end,
                   mpc, mi, request, applied, spurious>>

HasWork(i) == has_function[i] /\ ~finished[i]

(* The wait predicate holds: break out of the loop, or go to work with the *)
(* mutex held.                                                             *)
WorkerBreak(i) ==
    /\ wpc[i] = "check" /\ destructed[i]
    /\ goto(i, "exited")
    /\ mtx' = [mtx EXCEPT ![i] = "free"]
    /\ UNCHANGED <<sleeping, flags, function, num_tasks, begin, end,
                   mpc, mi, request, applied, spurious>>

WorkerStart(i) ==
    /\ wpc[i] = "check" /\ ~destructed[i] /\ HasWork(i)
    /\ goto(i, "begin")
    /\ UNCHANGED <<mtx, sleeping, flags, function, num_tasks, begin, end,
                   mpc, mi, request, applied, spurious>>

(* The wait predicate fails: release the mutex and sleep, in one step. *)
WorkerSleep(i) ==
    /\ wpc[i] = "check" /\ ~destructed[i] /\ ~HasWork(i)
    /\ goto(i, "asleep")
    /\ mtx' = [mtx EXCEPT ![i] = "free"]
    /\ sleeping' = [sleeping EXCEPT ![i] = @ \cup {"worker"}]
    /\ UNCHANGED <<flags, function, num_tasks, begin, end,
                   mpc, mi, request, applied, spurious>>

(* begin and end come from two separate reads of num_tasks. *)
WorkerBegin(i) ==
    /\ wpc[i] = "begin"
    /\ begin' = [begin EXCEPT ![i] = begin_idx(i, num_tasks)]
    /\ goto(i, "end")
    /\ UNCHANGED <<mtx, sleeping, flags, function, num_tasks, end,
                   mpc, mi, request, applied, spurious>>

WorkerEnd(i) ==
    /\ wpc[i] = "end"
    /\ end' = [end EXCEPT ![i] = begin_idx(i + 1, num_tasks)]
    /\ goto(i, "exec")
    /\ UNCHANGED <<mtx, sleeping, flags, function, num_tasks, begin,
                   mpc, mi, request, applied, spurious>>

(* One iteration of the loop over [begin, end) inside function. *)
WorkerApply(i) ==
    /\ wpc[i] = "exec" /\ begin[i] < end[i]
    /\ applied' = [applied EXCEPT ![begin[i]][function] = @ + 1]
    /\ begin' = [begin EXCEPT ![i] = @ + 1]
    /\ UNCHANGED <<mtx, sleeping, flags, function, num_tasks, wpc, end,
                   mpc, mi, request, spurious>>

WorkerFinish(i) ==
    /\ wpc[i] = "exec" /\ ~(begin[i] < end[i])
    /\ finished' = [finished EXCEPT ![i] = TRUE]
    /\ mtx' = [mtx EXCEPT ![i] = "free"]
    /\ goto(i, "notify")
    /\ UNCHANGED <<sleeping, has_function, destructed, function, num_tasks,
                   begin, end, mpc, mi, request, applied, spurious>>

WorkerNotify_Silent(i) ==
    /\ wpc[i] = "notify"
    /\ goto(i, "lock")
    /\ UNCHANGED <<mtx, sleeping, flags, function, num_tasks, begin, end,
                   mpc, mi, request, applied, spurious>>

(* The notification comes after the unlock: the caller may already have    *)
(* seen finished, returned, and started the next run() or the destructor.  *)
WorkerNotify(i) ==
    /\ wpc[i] = "notify"
    /\ NotifyOne(i)
    /\ goto(i, "lock")
    /\ UNCHANGED <<mtx, flags, function, num_tasks, begin, end,
                   mpc, mi, request, applied, spurious>>

Worker(i) ==
    \/ WorkerLock(i) \/ WorkerBreak(i) \/ WorkerStart(i) \/ WorkerSleep(i)
    \/ WorkerBegin(i) \/ WorkerEnd(i) \/ WorkerApply(i) \/ WorkerFinish(i)
    \/ WorkerNotify(i)

-----------------------------------------------------------------------------
(* The caller: constructor, run and destructor.                            *)

(* for (i = 0; i < threads.size(); ++i): the next iteration of the loop at *)
(* again, or, after the last one, index 0 of the loop at after.            *)
NextThread(again, after) ==
    IF mi + 1 < NumThreads
    THEN mi' = mi + 1 /\ mpc' = again
    ELSE mi' = 0 /\ mpc' = after

Spawn ==
    /\ mpc = "spawn"
    /\ goto(mi, "lock")
    /\ NextThread("spawn", "idle")
    /\ UNCHANGED <<mtx, sleeping, flags, function, num_tasks, begin, end,
                   request, applied, spurious>>

CallRun ==
    /\ mpc = "idle"
    /\ mpc' = "set_function"
    /\ request' \in [fn : Functions, num : 0 .. MaxTasks]
    /\ applied' = NothingApplied
    /\ UNCHANGED <<mtx, sleeping, flags, function, num_tasks, wpc, begin, end,
                   mi, spurious>>

SetFunction ==
    /\ mpc = "set_function"
    /\ function' = request.fn
    /\ mpc' = "set_num_tasks"
    /\ UNCHANGED <<mtx, sleeping, flags, num_tasks, wpc, begin, end,
                   mi, request, applied, spurious>>

SetNumTasks ==
    /\ mpc = "set_num_tasks"
    /\ num_tasks' = request.num
    /\ mpc' = "lock_flags"
    /\ UNCHANGED <<mtx, sleeping, flags, function, wpc, begin, end,
                   mi, request, applied, spurious>>

(* Taking mtxes[mi], at the lock_guard or unique_lock of any of the loops, *)
(* or again when cv.wait has been woken.                                   *)
MainLock ==
    /\ \/ mpc = "lock_flags" /\ mpc' = "set_flags"
       \/ mpc = "lock_wait" /\ mpc' = "check_wait"
       \/ mpc = "asleep" /\ "main" \notin sleeping[mi] /\ mpc' = "check_wait"
       \/ mpc = "lock_destructed" /\ mpc' = "set_destructed"
    /\ mtx[mi] = "free"
    /\ mtx' = [mtx EXCEPT ![mi] = "main"]
    /\ UNCHANGED <<sleeping, flags, function, num_tasks, wpc, begin, end,
                   mi, request, applied, spurious>>

SetFlags_KeepsFinished ==
    /\ mpc = "set_flags"
    /\ has_function' = [has_function EXCEPT ![mi] = TRUE]
    /\ mtx' = [mtx EXCEPT ![mi] = "free"]
    /\ NextThread("lock_flags", "notify")
    /\ UNCHANGED <<sleeping, finished, destructed, function, num_tasks, wpc,
                   begin, end, request, applied, spurious>>

SetFlags ==
    /\ mpc = "set_flags"
    /\ has_function' = [has_function EXCEPT ![mi] = TRUE]
    /\ finished' = [finished EXCEPT ![mi] = FALSE]
    /\ mtx' = [mtx EXCEPT ![mi] = "free"]
    /\ NextThread("lock_flags", "notify")
    /\ UNCHANGED <<sleeping, destructed, function, num_tasks, wpc, begin, end,
                   request, applied, spurious>>

RunNotify_FromOne ==
    /\ mpc = "notify"
    /\ IF mi = 0 THEN UNCHANGED sleeping ELSE NotifyOne(mi)
    /\ NextThread("notify", "lock_wait")
    /\ UNCHANGED <<mtx, flags, function, num_tasks, wpc, begin, end,
                   request, applied, spurious>>

RunNotify ==
    /\ mpc = "notify"
    /\ NotifyOne(mi)
    /\ NextThread("notify", "lock_wait")
    /\ UNCHANGED <<mtx, flags, function, num_tasks, wpc, begin, end,
                   request, applied, spurious>>

RunSleep ==
    /\ mpc = "check_wait" /\ ~finished[mi]
    /\ mpc' = "asleep"
    /\ mtx' = [mtx EXCEPT ![mi] = "free"]
    /\ sleeping' = [sleeping EXCEPT ![mi] = @ \cup {"main"}]
    /\ UNCHANGED <<flags, function, num_tasks, wpc, begin, end,
                   mi, request, applied, spurious>>

RunWaited_NoPredicate ==
    /\ mpc = "check_wait"
    /\ mtx' = [mtx EXCEPT ![mi] = "free"]
    /\ NextThread("lock_wait", "idle")
    /\ UNCHANGED <<sleeping, flags, function, num_tasks, wpc, begin, end,
                   request, applied, spurious>>

(* Worker mi is done; after the last one run() returns. *)
RunWaited ==
    /\ mpc = "check_wait" /\ finished[mi]
    /\ mtx' = [mtx EXCEPT ![mi] = "free"]
    /\ NextThread("lock_wait", "idle")
    /\ UNCHANGED <<sleeping, flags, function, num_tasks, wpc, begin, end,
                   request, applied, spurious>>

CallDestructor ==
    /\ mpc = "idle"
    /\ mpc' = "lock_destructed"
    /\ UNCHANGED <<mtx, sleeping, flags, function, num_tasks, wpc, begin, end,
                   mi, request, applied, spurious>>

SetDestructed ==
    /\ mpc = "set_destructed"
    /\ destructed' = [destructed EXCEPT ![mi] = TRUE]
    /\ mtx' = [mtx EXCEPT ![mi] = "free"]
    /\ NextThread("lock_destructed", "notify_destructed")
    /\ UNCHANGED <<sleeping, has_function, finished, function, num_tasks,
                   wpc, begin, end, request, applied, spurious>>

DestructorNotify_Silent ==
    /\ mpc = "notify_destructed"
    /\ NextThread("notify_destructed", "join")
    /\ UNCHANGED <<mtx, sleeping, flags, function, num_tasks, wpc, begin, end,
                   request, applied, spurious>>

DestructorNotify ==
    /\ mpc = "notify_destructed"
    /\ NotifyOne(mi)
    /\ NextThread("notify_destructed", "join")
    /\ UNCHANGED <<mtx, flags, function, num_tasks, wpc, begin, end,
                   request, applied, spurious>>

Join ==
    /\ mpc = "join" /\ wpc[mi] = "exited"
    /\ NextThread("join", "dead")
    /\ UNCHANGED <<mtx, sleeping, flags, function, num_tasks, wpc, begin, end,
                   request, applied, spurious>>

(* The constructor, run() once entered, and the destructor once entered; a *)
(* caller need never enter either.                                         *)
MainProgress ==
    \/ Spawn \/ SetFunction \/ SetNumTasks \/ MainLock \/ SetFlags
    \/ RunNotify \/ RunSleep \/ RunWaited \/ SetDestructed
    \/ DestructorNotify \/ Join

Main == MainProgress \/ CallRun \/ CallDestructor

-----------------------------------------------------------------------------
(* The pool is gone; nothing happens any more. *)
Gone == mpc = "dead" /\ UNCHANGED vars

Next ==
    \/ Main
    \/ \E i \in Threads : Worker(i) \/ SpuriousWakeup(i)
    \/ Gone

Spec == Init /\ [][Next]_vars

(* Every thread keeps running: the scheduler does not starve a worker, nor *)
(* the caller once it is inside the pool.                                  *)
FairSpec ==
    /\ Spec
    /\ WF_vars(MainProgress)
    /\ \A i \in Threads : WF_vars(Worker(i))

-----------------------------------------------------------------------------
(* What the pool has to get right.                                         *)

(* Every variable keeps its type; in particular a slice never reaches past *)
(* the largest request, so function is never applied out of range.         *)
TypeOK ==
    /\ mtx \in [Threads -> {"free", "worker", "main"}]
    /\ sleeping \in [Threads -> SUBSET {"worker", "main"}]
    /\ has_function \in [Threads -> BOOLEAN]
    /\ finished \in [Threads -> BOOLEAN]
    /\ destructed \in [Threads -> BOOLEAN]
    /\ function \in Functions \cup {NoFunction}
    /\ num_tasks \in 0 .. MaxTasks
    /\ wpc \in [Threads -> WorkerPC]
    /\ begin \in [Threads -> 0 .. MaxTasks]
    /\ end \in [Threads -> 0 .. MaxTasks]
    /\ mpc \in MainPC
    /\ mi \in Threads
    /\ request \in [fn : Functions, num : 0 .. MaxTasks]
    /\ applied \in [Tasks -> [Functions -> Nat]]
    /\ spurious \in 0 .. MaxSpurious

(* Where run() has published the flags of some worker and not returned. *)
Serving == {"lock_flags", "set_flags", "notify", "lock_wait", "check_wait",
            "asleep"}

(* run_loop reads num_tasks and calls function without a lock that run()   *)
(* takes to write them: a worker that is about to read either, or is       *)
(* inside function, does so within the run() that installed them, so the   *)
(* closure and what it captured by reference are alive and the two bounds  *)
(* of a slice belong to one request.                                       *)
ClosureAlive ==
    \A i \in Threads : wpc[i] \in {"begin", "end", "exec"} =>
        /\ mpc \in Serving
        /\ function = request.fn
        /\ num_tasks = request.num

(* Between two calls of run(), the last request has been applied exactly   *)
(* once to every index below num_tasks, and nothing else has been applied. *)
ExactlyOnce ==
    mpc = "idle" =>
        \A k \in Tasks, f \in Functions :
            applied[k][f] = IF k < request.num /\ f = request.fn THEN 1 ELSE 0

(* No wakeup is lost, although both sides share one condition variable and *)
(* notify without the mutex: a worker asleep with work to do, or after its *)
(* destructed flag was set, has a notification of the caller still to      *)
(* come; a caller asleep on a finished worker has that worker's to come.   *)
NoLostWakeup ==
    /\ \A i \in Threads : "worker" \in sleeping[i] =>
        /\ HasWork(i) => \/ mpc \in {"lock_flags", "set_flags"}
                         \/ mpc = "notify" /\ mi <= i
        /\ destructed[i] => \/ mpc \in {"lock_destructed", "set_destructed"}
                            \/ mpc = "notify_destructed" /\ mi <= i
    /\ mpc = "asleep" /\ "main" \in sleeping[mi] /\ finished[mi]
            => wpc[mi] = "notify"

(* The pool implements the parallel for loop its callers rely on. *)
Phase ==
    CASE mpc \in {"spawn", "idle"} -> "idle"
      [] mpc \in RunPC -> "running"
      [] mpc \in ClosePC -> "closing"
      [] mpc = "dead" -> "dead"

PF == INSTANCE ParallelFor WITH phase <- Phase

ImplementsParallelFor == PF!Spec

(* Every run() returns, and every destructor ends with all workers joined. *)
RunReturns == mpc \in RunPC ~> mpc = "idle"

DestructorReturns ==
    mpc \in ClosePC ~> (mpc = "dead" /\ \A i \in Threads : wpc[i] = "exited")
=============================================================================
