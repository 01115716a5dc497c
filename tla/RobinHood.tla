----------------------------- MODULE RobinHood -----------------------------
(***************************************************************************)
(* The Robin Hood table of robinhood.h: linear probing without wrapping    *)
(* around, in which a key that is farther from its home takes the slot of  *)
(* one that is nearer, and find stops at the first key that is nearer than *)
(* the one it looks for would be.  A key is the number it hashes to.       *)
(***************************************************************************)
LOCAL INSTANCE Integers
LOCAL INSTANCE SequencesExt
LOCAL INSTANCE FiniteSetsExt

CONSTANTS NoValue,     \* nullptr
          Overgrown,   \* a table that would grow beyond MaxSize (bound)
          MaxSize

VARIABLE robin    \* the table

Empty == [occupied |-> FALSE]

Table(size) ==
    [size |-> size, occupied_count |-> 0, buffer |-> [i \in 0 .. size - 1 |-> Empty]]

Node(key, value, psl) == [occupied |-> TRUE, key |-> key, value |-> value, psl |-> psl]

(* Operators named operator_Fault are faulty variants that show that the   *)
(* properties notice a plausible mistake.                                  *)
Richer_Always(node, psl) == psl > 0

(* Is the resident of a slot nearer to its home than the new key? *)
Richer(node, psl) == psl > node.psl

RECURSIVE Inserted(_, _, _)

(* rehash(): all nodes, in the order of their slots, into a table twice as *)
(* large.                                                                  *)
Rehashed(t) ==
    LET slots == SelectSeq([n \in 1 .. t.size |-> n - 1], LAMBDA i : t.buffer[i].occupied)
        Again(u, i) == Inserted(u, t.buffer[i].key, t.buffer[i].value)
    IN  IF 2 * t.size > MaxSize THEN Overgrown
        ELSE FoldLeft(Again, Table(2 * t.size), slots)

(* The loop of insert from slot i on, with the key, the value and the psl  *)
(* that look for a slot.                                                   *)
RECURSIVE Placed(_, _, _, _, _)
Placed(t, i, key, value, psl) ==
    LET node  == t.buffer[i]
        swaps == node.occupied /\ node.key # key /\ Richer(node, psl)
        u     == IF swaps THEN [t EXCEPT !.buffer[i] = Node(key, value, psl)] ELSE t
        rest  == IF swaps THEN node ELSE Node(key, value, psl)
    IN  CASE ~node.occupied ->
               [t EXCEPT !.buffer[i] = Node(key, value, psl), !.occupied_count = @ + 1]
          [] node.occupied /\ node.key = key -> t
          [] node.occupied /\ node.key # key /\ i = t.size - 1 ->
               Inserted(Rehashed(u), rest.key, rest.value)
          [] OTHER -> Placed(u, i + 1, rest.key, rest.value, rest.psl + 1)

Inserted(t, key, value) ==
    LET u == IF t # Overgrown /\ t.occupied_count >= (t.size * 7) \div 10
             THEN Rehashed(t) ELSE t
    IN  IF u = Overgrown THEN Overgrown ELSE Placed(u, key % u.size, key, value, 0)

insert(key, value) == robin' = Inserted(robin, key, value)

Ends_AtEqual(node, distance) == ~node.occupied \/ node.psl <= distance

(* A slot that ends the search unless it holds the key. *)
Ends(node, distance) == ~node.occupied \/ node.psl < distance

find(key) ==
    LET k       == key % robin.size
        Holds(i) == robin.buffer[i].occupied /\ robin.buffer[i].key = key
        passed  == {i \in k .. robin.size - 1 :
                      \A j \in k .. i - 1 : ~Ends(robin.buffer[j], j - k)}
        hits    == {i \in passed : Holds(i)}
    IN  IF hits = {} THEN NoValue ELSE robin.buffer[Min(hits)].value

-----------------------------------------------------------------------------
Occupied == {i \in 0 .. robin.size - 1 : robin.buffer[i].occupied}

Home(i) == robin.buffer[i].key % robin.size

(* Every psl is the distance of its key from home, whatever swaps and      *)
(* rehashes have moved it; no two slots hold one key, and none of a key's  *)
(* way from home is free or nearer to its own home than the key on it.     *)
WaysHold ==
    \A i \in Occupied :
        /\ robin.buffer[i].psl = i - Home(i)
        /\ \A j \in Home(i) .. i - 1 :
             j \in Occupied /\ robin.buffer[j].psl >= j - Home(i)
        /\ \A j \in Occupied \ {i} : robin.buffer[j].key # robin.buffer[i].key
=============================================================================
