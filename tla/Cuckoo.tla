------------------------------- MODULE Cuckoo -------------------------------
(***************************************************************************)
(* The cuckoo table of cuckoo.h: a key is in its slot of T1 or of T2, and  *)
(* an insertion into a taken slot sends the key that is there to the other *)
(* table.  A key is the number it hashes to.                               *)
(***************************************************************************)
LOCAL INSTANCE Integers
LOCAL INSTANCE SequencesExt

CONSTANTS NoValue,     \* nullptr
          Overgrown,   \* a table that would grow beyond MaxSize (bound)
          MaxSize

VARIABLE cuckoo    \* the table

Empty == [occupied |-> FALSE]

Slots(size) == [i \in 0 .. size - 1 |-> Empty]

Table(size) ==
    [size |-> size, occupied_count |-> 0, T1 |-> Slots(size), T2 |-> Slots(size)]

Node(key, value) == [occupied |-> TRUE, key |-> key, value |-> value]

hash_func(t, key)  == key % t.size
hash_func2(t, key) == (key \div t.size) % t.size

RECURSIVE Inserted(_, _)

(* rehash(): the nodes of slot 0 of both tables, of slot 1, and so on. *)
Rehashed(t) ==
    LET nodes == FlattenSeq([n \in 1 .. t.size |-> <<t.T1[n - 1], t.T2[n - 1]>>])
        items == SelectSeq(nodes, LAMBDA n : n.occupied)
    IN  IF 2 * t.size > MaxSize THEN Overgrown
        ELSE FoldLeft(Inserted, Table(2 * t.size), items)

(* Operators named operator_Fault are faulty variants that show that the   *)
(* properties notice a plausible mistake.                                  *)
GivesUp_WithoutLast(t, node) == Rehashed(t)

(* After too many moves the table grows and the key in hand is inserted    *)
(* anew.                                                                   *)
GivesUp(t, node) == Inserted(Rehashed(t), node)

(* The loop of insert, with the node in hand.  Its slot k of T1 is         *)
(* computed once, for the key of the first node.                           *)
RECURSIVE Moved(_, _, _, _)
Moved(t, k, node, times_moved) ==
    LET second == t.T1[k]
        swap1  == [t EXCEPT !.T1[k] = node]
        k2     == hash_func2(t, second.key)
        swap2  == [swap1 EXCEPT !.T2[k2] = second]
    IN  CASE times_moved > t.size -> GivesUp(t, node)
          [] times_moved <= t.size /\ ~second.occupied ->
               [swap1 EXCEPT !.occupied_count = @ + 1]
          [] times_moved <= t.size /\ second.occupied ->
               IF times_moved + 1 = t.size THEN GivesUp(swap1, second)
               ELSE IF ~t.T2[k2].occupied THEN [swap2 EXCEPT !.occupied_count = @ + 1]
               ELSE Moved(swap2, k, t.T2[k2], times_moved + 2)

Inserted(t, node) ==
    LET u == IF t # Overgrown /\ t.occupied_count >= t.size \div 2 THEN Rehashed(t) ELSE t
    IN  IF u = Overgrown THEN Overgrown
        ELSE Moved(u, hash_func(u, node.key), node, 0)

insert(key, value) == cuckoo' = Inserted(cuckoo, Node(key, value))

find(key) ==
    LET n1 == cuckoo.T1[hash_func(cuckoo, key)]
        n2 == cuckoo.T2[hash_func2(cuckoo, key)]
    IN  IF n1.occupied /\ n1.key = key THEN n1.value
        ELSE IF n2.occupied /\ n2.key = key THEN n2.value
        ELSE NoValue

-----------------------------------------------------------------------------
(* The nodes of the table, with the table and the slot each is in. *)
Nodes == {<<T, i>> \in {"T1", "T2"} \X (0 .. cuckoo.size - 1) : cuckoo[T][i].occupied}
=============================================================================
