--------------------- MODULE DependencyScheduler_proofs ---------------------
(***************************************************************************)
(* The abstract scheduler keeps what it promises, for any finite set of jobs *)
(* and any number of slots. With CoreImplementsScheduler of                  *)
(* DockerComputeManager_proofs the same holds of the scheduling core.        *)
(***************************************************************************)
EXTENDS DependencyScheduler, FiniteSetTheorems, TLAPS

\* NewDockerComputeManager makes a limiter of one place or more.
Assumptions == IsFiniteSet(Job) /\ Slots \in Nat \ {0}

\* Besides the three properties: a job that has not been started holds no slot, so
\* that starting it adds a holder.
Inv ==
    /\ TypeOK
    /\ Ordered
    /\ SlotsHeld
    /\ \A j \in Job : phase[j] = "waiting" => j \notin holding
    /\ \A j \in Job : phase[j] = "absent" => j \notin holding

\* Taking a slot and giving one back change the number of holders by one.
LEMMA HoldersCounted ==
    ASSUME NEW S \in SUBSET Job, IsFiniteSet(Job), NEW j \in Job
    PROVE  /\ Cardinality(S) \in Nat
           /\ j \notin S => Cardinality(S \cup {j}) = Cardinality(S) + 1
           /\ j \in S => Cardinality(S \ {j}) = Cardinality(S) - 1
<1>1. IsFiniteSet(S)
  BY FS_Subset
<1>2. Cardinality(S) \in Nat
  BY <1>1, FS_CardinalityType
<1>3. j \notin S => Cardinality(S \cup {j}) = Cardinality(S) + 1
  BY <1>1, FS_AddElement
<1>4. j \in S => Cardinality(S \ {j}) = Cardinality(S) - 1
  BY <1>1, FS_RemoveElement
<1> QED
  BY <1>2, <1>3, <1>4

LEMMA InitInv ==
    ASSUME Assumptions, Init
    PROVE  Inv
<1>1. Cardinality({}) = 0
  BY FS_EmptySet
<1> QED
  BY <1>1 DEF Assumptions, Init, Inv, TypeOK, Ordered, SlotsHeld, Phase

LEMMA StepInv ==
    ASSUME Assumptions, Inv, [Next]_vars
    PROVE  Inv'
<1> USE DEF Inv, TypeOK, Phase
<1>1. CASE UNCHANGED vars
  BY <1>1 DEF vars, Ordered, SlotsHeld
<1>2. ASSUME NEW j \in Job, NEW D \in SUBSET Job, Submit(j, D)
      PROVE  Inv'
  \* No job that was started depends on j, which is absent and so not over.
  BY <1>2 DEF Submit, Ordered, SlotsHeld
<1>3. ASSUME NEW j \in Job, Start(j)
      PROVE  Inv'
  <2>1. SlotsHeld'
    BY <1>3, HoldersCounted DEF Start, SlotsHeld, Assumptions
  <2> QED
    BY <2>1, <1>3 DEF Start, Ordered, Assumptions
<1>4. ASSUME NEW j \in Job, Finish(j)
      PROVE  Inv'
  BY <1>4 DEF Finish, Ordered, SlotsHeld
<1>5. ASSUME NEW j \in Job, Release(j)
      PROVE  Inv'
  <2>1. SlotsHeld' /\ used' \in 0 .. Slots
    <3>1. holding' = holding \ {j} /\ used' = used - 1 /\ j \in holding
      BY <1>5 DEF Release
    <3>2. Cardinality(holding') \in Nat /\ Cardinality(holding') = Cardinality(holding) - 1
      BY <3>1, HoldersCounted DEF Assumptions
    <3> QED
      BY <3>1, <3>2 DEF SlotsHeld, Assumptions
  <2> QED
    BY <2>1, <1>5 DEF Release, Ordered
<1> QED
  BY <1>1, <1>2, <1>3, <1>4, <1>5 DEF Next

LEMMA Invariance == ASSUME Assumptions PROVE Spec => []Inv
<1>1. Init => Inv
  BY InitInv
<1>2. Inv /\ [Next]_vars => Inv'
  BY StepInv
<1> QED
  BY <1>1, <1>2, PTL DEF Spec

\* The variables keep their types; no more slots are used than there are.
THEOREM SchedulerTypes == ASSUME Assumptions PROVE Spec => []TypeOK
<1>1. Inv => TypeOK
  BY DEF Inv
<1> QED
  BY <1>1, Invariance, PTL

\* Nothing is started before the submitted jobs it depends on are over (the use that
\* the core makes of ManifestDependencies).
THEOREM SchedulerOrder == ASSUME Assumptions PROVE Spec => []Ordered
<1>1. Inv => Ordered
  BY DEF Inv
<1> QED
  BY <1>1, Invariance, PTL

\* The slots in use are those of the jobs that hold one: none is lost, and none is
\* given back twice (the limiter of DockerComputeManager).
THEOREM SchedulerSlots == ASSUME Assumptions PROVE Spec => []SlotsHeld
<1>1. Inv => SlotsHeld
  BY DEF Inv
<1> QED
  BY <1>1, Invariance, PTL
=============================================================================
