--------------------------- MODULE ParallelEvents ---------------------------
(***************************************************************************)
(* What RunParallel promises, without its generator, semaphore and          *)
(* goroutines: the events 1 .. events are taken once each, in order, at      *)
(* most limit at a time, and the call returns when the last one is over.     *)
(***************************************************************************)
EXTENDS Naturals, FiniteSets

VARIABLES
    limit,      \* how many may be worked on at a time
    events,     \* how many there are
    taken,      \* how many events have been taken
    active,     \* the events being worked on
    returned

vars == <<limit, events, taken, active, returned>>

Init == limit \in Nat /\ events \in Nat /\ taken = 0 /\ active = {} /\ returned = FALSE

Take ==
    /\ ~returned
    /\ taken < events
    /\ Cardinality(active) < limit
    /\ taken' = taken + 1
    /\ active' = active \cup {taken + 1}
    /\ UNCHANGED <<limit, events, returned>>

Complete ==
    /\ \E n \in active : active' = active \ {n}
    /\ UNCHANGED <<limit, events, taken, returned>>

Return ==
    /\ taken = events
    /\ active = {}
    /\ returned' = TRUE
    /\ UNCHANGED <<limit, events, taken, active>>

Next == Take \/ Complete \/ Return

Spec == Init /\ [][Next]_vars
=============================================================================
