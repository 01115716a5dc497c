----------------------------- MODULE Hopscotch -----------------------------
(***************************************************************************)
(* The hopscotch table of hopscotch.h: a key lies within H slots of its    *)
(* home, whose hop_info says where its keys are; an insertion moves other  *)
(* keys until a slot near enough is free.  A key is the number it hashes   *)
(* to, and hop_info is the set of its one bits.                            *)
(***************************************************************************)
LOCAL INSTANCE Integers
LOCAL INSTANCE SequencesExt
LOCAL INSTANCE FiniteSetsExt

CONSTANTS H,           \* the neighbourhood (4)
          NoValue,     \* nullptr
          Overgrown,   \* a table that would grow beyond MaxSize (bound)
          MaxSize

VARIABLE hop    \* the table

Empty == [occupied |-> FALSE]

Table(size) ==
    [size |-> size, hop_info |-> [i \in 0 .. size - 1 |-> {}],
     buffer |-> [i \in 0 .. size - 1 |-> Empty]]

Node(key, value) == [occupied |-> TRUE, key |-> key, value |-> value]

Put(t, k, i, key, value) ==
    [t EXCEPT !.buffer[i] = Node(key, value), !.hop_info[k] = @ \cup {i - k}]

(* Operators named operator_Fault are faulty variants that show that the   *)
(* properties notice a plausible mistake.                                  *)
Near_Through(k, i) == i <= k + H

Near(k, i) == i < k + H

RECURSIVE Inserted(_, _, _)

Rehashed(t) ==
    LET slots == SelectSeq([n \in 1 .. t.size |-> n - 1], LAMBDA i : t.buffer[i].occupied)
        Again(u, i) == Inserted(u, t.buffer[i].key, t.buffer[i].value)
    IN  IF 2 * t.size > MaxSize THEN Overgrown
        ELSE FoldLeft(Again, Table(2 * t.size), slots)

(* The neighbours of the free slot j, by their distance, that have a key   *)
(* nearer to them than j, and the first of its bits.                       *)
Movable(t, j) ==
    {i \in 1 .. H - 1 : \E b \in t.hop_info[j - i] : b < i}

(* The first key of the neighbour at distance i moves to j. *)
Moved(t, j, i) ==
    LET left == Min(t.hop_info[j - i])
        src  == j - i + left
    IN  [t EXCEPT !.buffer[j] = t.buffer[src], !.buffer[src] = Empty,
                  !.hop_info[j - i] = (@ \ {left}) \cup {i}]

(* The free slot j is brought near enough to k, or else the table grows;   *)
(* the keys moved so far stay moved.                                       *)
RECURSIVE Hopped(_, _, _, _)
Hopped(t, j, key, value) ==
    LET k == key % t.size
        i == Max(Movable(t, j))
    IN  IF Near(k, j) THEN Put(t, k, j, key, value)
        ELSE IF Movable(t, j) = {} THEN Inserted(Rehashed(t), key, value)
        ELSE Hopped(Moved(t, j, i), j - i + Min(t.hop_info[j - i]), key, value)

(* A full neighbourhood or table grows; a free slot in the neighbourhood   *)
(* is taken, and one beyond is brought nearer.                             *)
Inserted(t, key, value) ==
    LET k    == key % t.size
        free == {i \in k .. t.size - 1 : ~t.buffer[i].occupied}
        near == {i \in free : Near(k, i)}
    IN  CASE t = Overgrown -> Overgrown
          [] t # Overgrown /\ (t.hop_info[k] = 0 .. H - 1 \/ free = {}) ->
               Inserted(Rehashed(t), key, value)
          [] OTHER -> IF near # {} THEN Put(t, k, Min(near), key, value)
                      ELSE Hopped(t, Min(free), key, value)

insert(key, value) == hop' = Inserted(hop, key, value)

(* The search ends at a free slot and after H slots. *)
find(key) ==
    LET k      == key % hop.size
        near   == k .. Min({k + H, hop.size}) - 1
        passed == {i \in near : \A j \in k .. i : hop.buffer[j].occupied}
        hits   == {i \in passed : hop.buffer[i].key = key}
    IN  IF hits = {} THEN NoValue ELSE hop.buffer[Min(hits)].value
-----------------------------------------------------------------------------
(* The bits of a bucket are those of the slots where its keys are, and no  *)
(* others, after any number of moves: a stray bit would have a later       *)
(* insertion move a key out of its own neighbourhood.                      *)
BitsRight ==
    \A k \in 0 .. hop.size - 1 :
        hop.hop_info[k] =
            {i - k : i \in {j \in 0 .. hop.size - 1 :
                             hop.buffer[j].occupied /\ hop.buffer[j].key % hop.size = k}}
=============================================================================
