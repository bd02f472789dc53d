------------------------- MODULE DependencyScheduler -------------------------
(***************************************************************************)
(* What the scheduling core of the Docker provider promises, without its   *)
(* queue, loop, channels and goroutines: submitted jobs are started once,  *)
(* each after the jobs it depends on are over, at most Slots at a time.    *)
(***************************************************************************)
EXTENDS Naturals, FiniteSets

CONSTANTS Job, Slots

VARIABLES
    phase,      \* absent, waiting, active or over
    deps,       \* the submitted jobs that a job depends on
    holding,    \* the jobs that hold a slot
    used        \* the number of slots in use

vars == <<phase, deps, holding, used>>

Phase == {"absent", "waiting", "active", "over"}

TypeOK ==
    /\ phase \in [Job -> Phase]
    /\ deps \in [Job -> SUBSET Job]
    /\ holding \subseteq Job
    /\ used \in 0 .. Slots

Init ==
    /\ phase = [j \in Job |-> "absent"]
    /\ deps = [j \in Job |-> {}]
    /\ holding = {}
    /\ used = 0

\* A job may depend only on jobs submitted before it.
Submit(j, D) ==
    /\ phase[j] = "absent"
    /\ \A d \in D : phase[d] # "absent"
    /\ phase' = [phase EXCEPT ![j] = "waiting"]
    /\ deps' = [deps EXCEPT ![j] = D]
    /\ UNCHANGED <<holding, used>>

Start(j) ==
    /\ phase[j] = "waiting"
    /\ \A d \in deps[j] : phase[d] = "over"
    /\ used < Slots
    /\ used' = used + 1
    /\ phase' = [phase EXCEPT ![j] = "active"]
    /\ holding' = holding \cup {j}
    /\ UNCHANGED deps

\* The job has a final status. It need not have given its slot back, and may have.
Finish(j) ==
    /\ phase[j] = "active"
    /\ phase' = [phase EXCEPT ![j] = "over"]
    /\ UNCHANGED <<deps, holding, used>>

Release(j) ==
    /\ j \in holding
    /\ phase[j] # "waiting"
    /\ holding' = holding \ {j}
    /\ used' = used - 1
    /\ UNCHANGED <<phase, deps>>

\* A failure that gives the job its final status and frees its slot is two steps
\* of this specification; the detailed one takes them apart as well.
Next ==
    \E j \in Job :
        \/ \E D \in SUBSET Job : Submit(j, D)
        \/ Start(j) \/ Finish(j) \/ Release(j)

Spec == Init /\ [][Next]_vars

\* Nothing is started before what it depends on is over.
Ordered == \A j \in Job : phase[j] \in {"active", "over"} =>
              \A d \in deps[j] : phase[d] = "over"

\* Every slot in use has its holder.
SlotsHeld == used = Cardinality(holding)
=============================================================================
