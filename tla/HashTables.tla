----------------------------- MODULE HashTables -----------------------------
(***************************************************************************)
(* The three earlier hash tables of the join, Robin Hood, hopscotch and    *)
(* cuckoo, each given the same insertions, against the dictionary that     *)
(* they stand for: the pairs inserted so far, in their order.              *)
(***************************************************************************)
EXTENDS Integers, SequencesExt, FiniteSetsExt

CONSTANTS KeySet,          \* keys, with the numbers they hash to
          Sizes,           \* sizes the tables start with
          MaxInsertions,   \* bound
          H, NoValue, Overgrown, MaxSize

ASSUME HashTablesAssumption ==
    KeySet \subseteq Nat /\ Sizes \subseteq Nat \ {0} /\ H \in Nat \ {0}

VARIABLES robin, hop, cuckoo,
          inserted    \* the pairs, the value of a pair being its number

vars == <<robin, hop, cuckoo, inserted>>

R == INSTANCE RobinHood
P == INSTANCE Hopscotch
C == INSTANCE Cuckoo

Init ==
    /\ \E size \in Sizes : robin = R!Table(size) /\ hop = P!Table(size) /\ cuckoo = C!Table(size)
    /\ inserted = <<>>

Insert(key) ==
    /\ Len(inserted) < MaxInsertions
    /\ inserted' = Append(inserted, key)
    /\ R!insert(key, Len(inserted'))
    /\ P!insert(key, Len(inserted'))
    /\ C!insert(key, Len(inserted'))

Next == \E key \in KeySet : Insert(key)

Spec == Init /\ [][Next]_vars

-----------------------------------------------------------------------------
(* What the tables have to get right, as long as they stay within MaxSize. *)

ValuesOf(key) == {n \in DOMAIN inserted : inserted[n] = key}

Distinct == \A key \in KeySet : Cardinality(ValuesOf(key)) <= 1

(* The Robin Hood table is the dictionary in which the first value of a    *)
(* key stays: a key is found if and only if it was inserted.               *)
RobinHoodFinds ==
    robin # Overgrown =>
        \A key \in KeySet :
            R!find(key) = IF ValuesOf(key) = {} THEN NoValue ELSE Min(ValuesOf(key))

RobinHoodWays == robin # Overgrown => R!WaysHold

(* The hopscotch table finds each key that was inserted and no other, with *)
(* the value of one of its insertions: it keeps all pairs of a key, and    *)
(* which of them comes first may change when keys are moved.  The bits of  *)
(* its buckets are those of the keys that are there.                       *)
HopscotchFinds ==
    hop # Overgrown =>
        /\ P!BitsRight
        /\ \A key \in KeySet :
             IF ValuesOf(key) = {} THEN P!find(key) = NoValue
             ELSE P!find(key) \in ValuesOf(key)

(* The cuckoo table keeps every pair that was inserted, once, wherever     *)
(* moves and rehashes leave it.                                            *)
CuckooKeeps ==
    cuckoo # Overgrown =>
        /\ Cardinality(C!Nodes) = Len(inserted)
        /\ \A n \in DOMAIN inserted : \E <<T, i>> \in C!Nodes :
             cuckoo[T][i].key = inserted[n] /\ cuckoo[T][i].value = n

(* Cuckoo_test.cpp, lines 36-38: every key is found, with its value, after *)
(* any insertions of different keys.                                       *)
CuckooFinds ==
    cuckoo # Overgrown /\ Distinct =>
        \A n \in DOMAIN inserted : C!find(inserted[n]) = n
=============================================================================
