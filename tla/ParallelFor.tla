---------------------------- MODULE ParallelFor ----------------------------
(***************************************************************************)
(* What FilterThreadPool promises its callers (the scan, filter and copy   *)
(* loops of build_table.cpp, statement.cpp and column_store.cpp):          *)
(* run(function, num_tasks) returns after function has been applied once,  *)
(* in any order, to each of the indexes 0 .. num_tasks - 1, and nothing of *)
(* a call is left running once it has returned.                            *)
(***************************************************************************)
EXTENDS Naturals

CONSTANTS Functions,   \* the closures that callers hand to run()
          MaxTasks     \* bound on num_tasks

VARIABLES phase,       \* "idle", "running", "closing" (destructor), "dead"
          request,     \* the arguments of the latest call
          applied      \* applied[k][f]: calls of f on index k since run() began

vars == <<phase, request, applied>>

Tasks == 0 .. MaxTasks - 1

NothingApplied == [k \in Tasks |-> [f \in Functions |-> 0]]

Init ==
    /\ phase = "idle"
    /\ request \in [fn : Functions, num : {0}]
    /\ applied = NothingApplied

(* A caller enters run(). *)
Run ==
    /\ phase = "idle"
    /\ phase' = "running"
    /\ request' \in [fn : Functions, num : 0 .. MaxTasks]
    /\ applied' = NothingApplied

(* The requested function is applied to an index it has not seen. *)
Apply(k) ==
    /\ phase = "running"
    /\ k < request.num
    /\ applied[k][request.fn] = 0
    /\ applied' = [applied EXCEPT ![k][request.fn] = 1]
    /\ UNCHANGED <<phase, request>>

(* run() returns: no index is missing. *)
Return ==
    /\ phase = "running"
    /\ \A k \in Tasks : k < request.num => applied[k][request.fn] = 1
    /\ phase' = "idle"
    /\ UNCHANGED <<request, applied>>

(* The destructor begins, only between two calls, and ends. *)
Close ==
    /\ phase = "idle"
    /\ phase' = "closing"
    /\ UNCHANGED <<request, applied>>

Closed ==
    /\ phase = "closing"
    /\ phase' = "dead"
    /\ UNCHANGED <<request, applied>>

Next == Run \/ (\E k \in Tasks : Apply(k)) \/ Return \/ Close \/ Closed

Spec == Init /\ [][Next]_vars
=============================================================================
