------------------------ MODULE MCUnchainedHashTable ------------------------
(***************************************************************************)
(* The instance of UnchainedHashTable for TLC.  The Bloom bits of key 4369 *)
(* are among those of key 1 and not the other way round: probing one where *)
(* only the other was inserted passes the filter, or is stopped by it.     *)
(***************************************************************************)
EXTENDS UnchainedHashTable

MCKeys == {1, 4369}

(* The keys share the first slot, or the last; they lie at both ends, in   *)
(* either order; beside each other in one partition, in either order, and  *)
(* in two.                                                                 *)
MCPlacements ==
    {[k \in MCKeys |-> IF k = 1 THEN s[1] ELSE s[2]] :
        s \in {<<0, 0>>, <<5, 5>>, <<0, 5>>, <<5, 0>>,
               <<2, 3>>, <<3, 2>>, <<1, 2>>}}
=============================================================================
