---------------------------- MODULE MCHashTables ----------------------------
(***************************************************************************)
(* Instances of HashTables for TLC.                                        *)
(***************************************************************************)
EXTENDS HashTables
=============================================================================
