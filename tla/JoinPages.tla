----------------------------- MODULE JoinPages -----------------------------
(***************************************************************************)
(* The pages that a join can leave.  HashJoin, the threads of one join, is *)
(* proved to leave only such pages; ExecutePlan, which runs one join       *)
(* after the other, takes any of them.                                     *)
(*                                                                         *)
(* A column is a sequence of pages of at most PageSlots cells; position    *)
(* p * PageSlots + s is slot s of page p, both counted from zero.          *)
(***************************************************************************)
EXTENDS ColumnPages

CONSTANTS NumThreads,    \* NUM_THREADS (16)
          PageSlots      \* ColumnPage::BUF_SIZE (1024)

ASSUME JoinPagesAssumption == NumThreads \in Nat \ {0} /\ PageSlots \in Nat \ {0}

Threads == 0 .. NumThreads - 1

CellAt(pages, pos) == pages[pos \div PageSlots + 1][(pos % PageSlots) + 1]

PagePositions(pages, p) == [s \in DOMAIN pages[p] |-> (p - 1) * PageSlots + s - 1]

PositionsOf(pages, key) ==
    {pos \in UNION {Range(PagePositions(pages, p)) : p \in DOMAIN pages} :
        CellAt(pages, pos) = key}

(* The positions of the matches of each cell of the probe column, in any   *)
(* order; KeyCells are the cells that are keys.                            *)
MatchOrders(build, probe, KeyCells) ==
    LET sites == {pos \in UNION {Range(PagePositions(probe, p)) : p \in DOMAIN probe} :
                     CellAt(probe, pos) \in KeyCells}
        Matches(pos) == SetToSeqs(PositionsOf(build, CellAt(probe, pos)))
    IN  {o \in [sites -> UNION {Matches(pos) : pos \in sites}] :
            \A pos \in sites : o[pos] \in Matches(pos)}

(* What the worker of a page appends: pairs of a build and a probe         *)
(* position, cell by cell.                                                 *)
PairsOf(probe, order, p) ==
    FlattenSeq([s \in DOMAIN probe[p] |->
        LET pos == PagePositions(probe, p)[s]
        IN  IF pos \in DOMAIN order
            THEN [m \in DOMAIN order[pos] |-> <<order[pos][m], pos>>] ELSE <<>>])

(* Thread i walks the pages it has claimed in order. *)
ThreadPages(probe, order, claim, i) ==
    append_all(<<>>,
        FlattenSeq([p \in DOMAIN probe |->
            IF claim[p] = i THEN PairsOf(probe, order, p) ELSE <<>>]),
        PageSlots)

(* The threads' pages are put one after the other. *)
AllPages(probe, order, claim) ==
    FlattenSeq([i \in 1 .. NumThreads |-> ThreadPages(probe, order, claim, i - 1)])

(* Each page of the probe column is claimed by one thread. *)
JoinOutcomes(build, probe, KeyCells) ==
    {AllPages(probe, order, claim) :
        order \in MatchOrders(build, probe, KeyCells),
        claim \in [DOMAIN probe -> Threads]}
=============================================================================
