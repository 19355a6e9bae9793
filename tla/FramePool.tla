------------------------------ MODULE FramePool ------------------------------
(***************************************************************************)
(* What the page allocator promises: a pool of pages from which the lowest *)
(* is taken first and to which only managed pages that are out come back.  *)
(* A page that comes back is lost when it neighbours no free page and the  *)
(* pool is already in as many pieces as the allocator can describe.        *)
(***************************************************************************)
EXTENDS Naturals, FiniteSets

CONSTANTS PageSize, MaxExtents

VARIABLES managed,  \* the pages the allocator looks after
          pool,     \* the pages it can hand out
          count,    \* the number of pages it says it can hand out
          held      \* the pages taken and not given back

\* a free page below which the pool has a gap
Pieces == {p \in pool : p < PageSize \/ p - PageSize \notin pool}

Describable(p) ==
    \/ Cardinality(Pieces) < MaxExtents
    \/ p + PageSize \in pool
    \/ p >= PageSize /\ p - PageSize \in pool

Init ==
    /\ managed = {}
    /\ pool = {}
    /\ count = 0
    /\ held = {}

\* the pages to look after become known, once
Fill ==
    /\ managed = {}
    /\ 0 \notin managed'
    /\ pool' = managed'
    /\ count' = Cardinality(pool')
    /\ held' = {}

Take ==
    \E p \in pool :
        /\ \A q \in pool : p <= q
        /\ pool' = pool \ {p}
        /\ count' = count - 1
        /\ held' = held \cup {p}

Give(p) ==
    /\ Describable(p)
    /\ pool' = pool \cup {p}
    /\ count' = count + 1
    /\ held' = held \ {p}

Lose(p) ==
    /\ ~ Describable(p)
    /\ held' = held \ {p}
    /\ UNCHANGED <<pool, count>>

Next ==
    \/ Fill
    \/ UNCHANGED managed /\ Take
    \/ UNCHANGED managed /\ \E p \in managed \ pool : Give(p) \/ Lose(p)

Spec == Init /\ [][Next]_<<managed, pool, count, held>>
=============================================================================
