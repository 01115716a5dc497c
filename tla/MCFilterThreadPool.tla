------------------------- MODULE MCFilterThreadPool -------------------------
(***************************************************************************)
(* The instance of FilterThreadPool for TLC.  Two workers and requests of  *)
(* 0 to 3 tasks give empty slices, equal slices and slices that differ by  *)
(* one; two closures tell a stale function from the requested one.         *)
(***************************************************************************)
EXTENDS FilterThreadPool

CONSTANTS f1, f2
=============================================================================
