-------------------------- MODULE MCVarcharColumn --------------------------
(***************************************************************************)
(* Instances of VarcharColumn for TLC.  A page of 11 bytes holds a string  *)
(* of 4 characters at most, and 7 characters of a long one: the lengths    *)
(* are those around the limits, with strings of one, two and three pages.  *)
(***************************************************************************)
EXTENDS VarcharColumn

CONSTANTS MaxRows,    \* bound on the rows of any length
          MaxShort    \* bound on the rows of NULLs and one character

EveryKind == {0, 1, 4, 5, 8, 15}
NonEmpty  == {1, 8, 15}

MCBounded(r) ==
    \/ Len(r) <= MaxRows
    \/ Len(r) <= MaxShort /\ Range(r) \subseteq {1, Null}
=============================================================================
