-------------------------- MODULE DockerEvents_proofs --------------------------
(***************************************************************************)
(* Why the loop leaves no Runnable job behind, why the limit on goroutines *)
(* is one on containers, and why the core comes to rest, for every         *)
(* instance of it.                                                         *)
(***************************************************************************)
EXTENDS DockerComputeManager_proofs

-----------------------------------------------------------------------------
(* The events still to come *)

\* The sets that EventsDue counts are finite.
LEMMA CountedFinite ==
    ASSUME TypeOK
    PROVE  /\ \A S \in SUBSET Job : IsFiniteSet(S) /\ Cardinality(S) \in Nat
           /\ \A S \in SUBSET Submitter : IsFiniteSet(S) /\ Cardinality(S) \in Nat
           /\ Due \in SUBSET Job /\ wake \in SUBSET Job /\ Promoted \in SUBSET Job
           /\ Announcing \in SUBSET Submitter
           /\ Taken \in {0, 1}
<1>1. \A S \in SUBSET Job : IsFiniteSet(S) /\ Cardinality(S) \in Nat
  BY JobAssumption, FS_Subset, FS_CardinalityType
<1>2. \A S \in SUBSET Submitter : IsFiniteSet(S) /\ Cardinality(S) \in Nat
  BY SubmitterAssumption, FS_Subset, FS_CardinalityType
<1> QED
  BY <1>1, <1>2 DEF TypeOK, Due, Promoted, Announcing, Taken

\* One element more is at most one more to count.
LEMMA OneMore ==
    ASSUME NEW S, NEW T, NEW x, IsFiniteSet(S), T \subseteq S \cup {x}
    PROVE  Cardinality(T) <= Cardinality(S) + 1
<1>0. Cardinality(S) \in Nat
  BY FS_CardinalityType
<1>1. IsFiniteSet(S \cup {x}) /\ Cardinality(S \cup {x}) <= Cardinality(S) + 1
  <2>1. CASE x \in S
    <3>1. S \cup {x} = S
      BY <2>1
    <3> QED
      BY <1>0, <3>1
  <2>2. CASE x \notin S
    <3>1. IsFiniteSet(S \cup {x}) /\ Cardinality(S \cup {x}) = Cardinality(S) + 1
      BY <2>2, FS_AddElement
    <3> QED
      BY <1>0, <3>1
  <2> QED
    BY <2>1, <2>2
<1>2. IsFiniteSet(T) /\ Cardinality(T) <= Cardinality(S \cup {x})
  BY <1>1, FS_Subset
<1>3. Cardinality(S) \in Nat /\ Cardinality(S \cup {x}) \in Nat /\ Cardinality(T) \in Nat
  BY <1>1, <1>2, FS_CardinalityType
<1> QED
  BY <1>1, <1>2, <1>3

\* Disjoint sets are counted one after the other.
LEMMA DisjointSum ==
    ASSUME NEW S, NEW T, IsFiniteSet(S), IsFiniteSet(T), S \cap T = {}
    PROVE  Cardinality(S \cup T) = Cardinality(S) + Cardinality(T)
<1>1. Cardinality(S \cap T) = 0
  BY FS_EmptySet
<1>2. Cardinality(S) \in Nat /\ Cardinality(T) \in Nat
  BY FS_CardinalityType
<1>3. Cardinality(S \cup T) = Cardinality(S) + Cardinality(T) - Cardinality(S \cap T)
  BY FS_Union, Zenon
<1> QED
  BY <1>1, <1>2, <1>3

\* The account in the next state, when no job more is due and no event less.
LEMMA SameCount ==
    ASSUME TypeOK, TypeOK', EventsDue,
           Due' \subseteq Due,
           Announcing' = Announcing, wake' = wake, Promoted' = Promoted,
           Taken <= Taken'
    PROVE  EventsDue'
<1>1. Cardinality(Due') <= Cardinality(Due)
  BY CountedFinite, FS_Subset
<1>2. /\ Cardinality(Due) \in Nat /\ Cardinality(Due') \in Nat /\ Cardinality(Announcing) \in Nat
      /\ Cardinality(wake) \in Nat /\ Cardinality(Promoted) \in Nat
      /\ Taken \in {0, 1} /\ Taken' \in {0, 1}
  <2>1. Due' \in SUBSET Job
    BY DEF TypeOK, Due
  <2>2. Taken' \in {0, 1}
    BY DEF Taken
  <2> QED
    BY <2>1, <2>2, CountedFinite
<1> QED
  BY <1>1, <1>2 DEF EventsDue

LEMMA NextEvents ==
    ASSUME TypeOK, TypeOK', SchedulingInv, EventInv, [Next]_vars
    PROVE  EventInv'
<1> USE DEF EventInv
<1> DEFINE nD == Cardinality(Due)
           nA == Cardinality(Announcing)
           nW == Cardinality(wake)
           nP == Cardinality(Promoted)
<1>0. /\ nD \in Nat /\ nA \in Nat /\ nW \in Nat /\ nP \in Nat /\ Taken \in {0, 1}
      /\ IsFiniteSet(Due) /\ IsFiniteSet(Announcing) /\ IsFiniteSet(wake) /\ IsFiniteSet(Promoted)
      /\ nD <= nA + nW + nP + Taken
  BY CountedFinite DEF EventsDue
<1>c. /\ nD' \in Nat /\ nA' \in Nat /\ nW' \in Nat /\ nP' \in Nat
      /\ EventsDue' <=> nD' <= nA' + nW' + nP' + Taken'
  <2>1. Due' \in SUBSET Job /\ wake' \in SUBSET Job /\ Promoted' \in SUBSET Job
    BY DEF TypeOK, Due, Promoted
  <2>2. Announcing' \in SUBSET Submitter
    BY DEF Announcing
  <2>3. /\ \A S \in SUBSET Job : Cardinality(S) \in Nat
        /\ \A S \in SUBSET Submitter : Cardinality(S) \in Nat
    BY CountedFinite
  <2> QED
    BY <2>1, <2>2, <2>3 DEF EventsDue
<1> HIDE DEF nD, nA, nW, nP
<1>1. ASSUME NEW s \in Submitter, AddJob(s) PROVE EventInv'
  <2> PICK j : j = Batch[s][next[s]]
    OBVIOUS
  <2> USE <1>1 DEF AddJob, TypeOK, loopVars, chanVars, runVars
  <2>1. j \in Job \ queue /\ dependsOn' = [dependsOn EXCEPT ![j] = dependsOn'[j]]
    BY AddedJobIsNew, AddedDependencies DEF SchedulingInv
  <2>2. Due' \subseteq Due \cup {j}
    BY <2>1 DEF Due
  <2>3. Announcing' = Announcing \cup {s} /\ s \notin Announcing
    BY DEF Announcing
  <2>4. nD' <= nD + 1
    BY ONLY <1>0, <2>2, OneMore DEF nD
  <2>5. nA' = nA + 1
    BY <1>0, <2>3, FS_AddElement DEF nA
  <2>6. nW' = nW /\ nP' = nP /\ Taken' = Taken
    BY DEF nW, nP, Promoted, Taken
  <2>7. PromotedOnce'
    BY DEF PromotedOnce, Promoted
  <2>8. PassComplete'
    BY <2>1, <2>3 DEF PassComplete
  <2> QED
    BY <1>0, <1>c, <2>4, <2>5, <2>6, <2>7, <2>8
<1>2. ASSUME NEW s \in Submitter, ReceiveSubmitted(s) PROVE EventInv'
  <2> USE <1>2 DEF ReceiveSubmitted, TypeOK, queueVars, chanVars, runVars
  <2>1. Announcing' = Announcing \ {s} /\ s \in Announcing
    BY DEF Announcing
  <2>2. nA' = nA - 1
    BY <1>0, <2>1, FS_RemoveElement DEF nA
  <2>3. nD' = nD /\ nW' = nW /\ nP' = nP /\ Taken' = 1 /\ Taken = 0
    BY DEF nD, nW, nP, Due, Promoted, Taken
  <2>4. PromotedOnce' /\ PassComplete'
    BY DEF PromotedOnce, PassComplete, Promoted
  <2> QED
    BY <1>0, <1>c, <2>2, <2>3, <2>4
<1>3. ASSUME NEW j \in Job, ReceivePending(j) PROVE EventInv'
  <2> USE <1>3 DEF ReceivePending, TypeOK, queueVars, subVars, runVars
  <2>1. nW' = nW - 1
    BY <1>0, FS_RemoveElement DEF nW
  <2>2. nD' = nD /\ nA' = nA /\ nP' = nP /\ Taken' = 1 /\ Taken = 0
    BY DEF nD, nA, nP, Due, Announcing, Promoted, Taken
  <2>3. PromotedOnce' /\ PassComplete'
    BY DEF PromotedOnce, PassComplete, Promoted
  <2> QED
    BY <1>0, <1>c, <2>1, <2>2, <2>3
<1>4. ASSUME NEW j \in Job, UpdateJob(j) PROVE EventInv'
  <2> USE <1>4 DEF UpdateJob, TypeOK, subVars, chanVars, runVars
  <2>1. j \in queue
    BY DEF SchedulingInv, QueueClosed
  <2>2. nA' = nA /\ nW' = nW /\ Taken' = Taken
    BY DEF nA, nW, Announcing, Taken
  <2>3. CASE status[j] = "Pending" /\ NewStatus(j) = "Runnable"
    <3>1. Promoted' = Promoted \cup {j} /\ j \notin Promoted /\ j \notin wake
      BY <2>3 DEF Promoted, PromotedOnce
    <3>2. nP' = nP + 1
      BY <1>0, <3>1, FS_AddElement DEF nP
    <3>3. Due' = Due \cup {j}
      BY <2>1, <2>3 DEF Due
    <3>4. nD' <= nD + 1
      BY ONLY <1>0, <3>3, OneMore DEF nD
    <3>5. PromotedOnce'
      BY <2>1, <2>3, <3>1 DEF PromotedOnce
    <3>6. PassComplete'
      BY <2>3 DEF PassComplete, Announcing
    <3> QED
      BY <1>0, <1>c, <2>2, <3>2, <3>4, <3>5, <3>6
  <2>4. CASE ~(status[j] = "Pending" /\ NewStatus(j) = "Runnable")
    <3>1. /\ NewStatus(j) = "Runnable" => \/ status[j] = "Runnable"
                                          \/ status[j] = "Submitted" /\ dependsOn[j] = {}
          /\ NewStatus(j) \in {"Submitted", "Pending"} =>
                status[j] \in {"Submitted", "Pending"}
          /\ NewStatus(j) # "Submitted"
      BY <2>4 DEF NewStatus
    <3>2. Due' \subseteq Due /\ Announcing' = Announcing /\ Promoted' = Promoted
      BY <2>4, <3>1 DEF Due, Announcing, Promoted
    <3>3. EventsDue'
      <4>1. Taken <= Taken' /\ wake' = wake
        BY DEF Taken
      <4> HIDE <1>4 DEF UpdateJob, TypeOK, subVars, chanVars, runVars
      <4> QED
        BY <3>2, <4>1, SameCount
    <3>4. PromotedOnce'
      BY <3>1, <3>2 DEF PromotedOnce
    <3>5. PassComplete'
      BY <3>1 DEF PassComplete, Announcing
    <3> QED
      BY <3>3, <3>4, <3>5
  <2> QED
    BY <2>3, <2>4
<1>5. ASSUME NEW j \in Job, GetNextRunnable(j) PROVE EventInv'
  <2> USE <1>5 DEF GetNextRunnable, TypeOK, subVars, chanVars, runVars
  <2>1. Due' = Due \ {j} /\ j \in Due
    BY DEF Due
  <2>2. nD' = nD - 1
    BY <1>0, <2>1, FS_RemoveElement DEF nD
  <2>3. nA' = nA /\ nW' = nW /\ nP' = nP /\ Taken' = 0 /\ Taken = 1
    BY DEF nA, nW, nP, Announcing, Promoted, Taken
  <2>4. PromotedOnce'
    BY DEF PromotedOnce, Promoted
  <2>5. PassComplete'
    BY DEF PassComplete, Announcing
  <2> QED
    BY <1>0, <1>c, <2>2, <2>3, <2>4, <2>5
<1>6. ASSUME NothingRunnable PROVE EventInv'
  <2> USE <1>6 DEF NothingRunnable, TypeOK, queueVars, subVars, chanVars, runVars
  \* What is due was added since the pass began, by submitters whose event is to come.
  <2>1. \A j \in Due : \E s \in Announcing : j = Batch[s][next[s]]
    BY DEF Due, PassComplete
  <2> DEFINE f == [j \in Due |-> CHOOSE s \in Announcing : j = Batch[s][next[s]]]
  <2>2. \A j \in Due : f[j] \in Announcing /\ j = Batch[f[j]][next[f[j]]]
    BY <2>1
  <2> HIDE DEF f
  <2>3. f \in Injection(Due, Announcing)
    <3>1. f \in [Due -> Announcing]
      BY <2>2 DEF f
    <3>2. \A x, y \in Due : f[x] = f[y] => x = y
      BY <2>2
    <3> QED
      BY <3>1, <3>2 DEF Injection, IsInjective
  <2>4. nD <= nA
    BY <1>0, <2>3, FS_Injection DEF nD, nA
  <2>5. nD' = nD /\ nA' = nA /\ nW' = nW /\ nP' = 0 /\ Taken' = 0
    BY FS_EmptySet DEF nD, nA, nW, nP, Due, Announcing, Promoted, Taken
  <2>6. PromotedOnce' /\ PassComplete'
    BY DEF PromotedOnce, PassComplete, Promoted
  <2>7. EventsDue'
    BY ONLY <1>0, <1>c, <2>4, <2>5
  <2> QED
    BY <2>6, <2>7
<1>7. ASSUME StartJob PROVE EventInv'
  <2> USE <1>7 DEF StartJob, TypeOK, queueVars, subVars
  <2>1. Promoted = canStart /\ Promoted' = {} /\ wake' = wake \cup Promoted
    BY DEF Promoted
  <2>2. nW' = nW + nP
    BY <1>0, <2>1, DisjointSum DEF nW, nP, PromotedOnce
  <2>3. nD' = nD /\ nA' = nA /\ nP' = 0 /\ Taken' = 0 /\ Taken = 0
    BY <2>1, FS_EmptySet DEF nD, nA, nP, Due, Announcing, Taken
  <2>4. PromotedOnce' /\ PassComplete'
    BY <2>1 DEF PromotedOnce, PassComplete
  <2>5. EventsDue'
    BY ONLY <1>0, <1>c, <2>2, <2>3
  <2> QED
    BY <2>4, <2>5
<1>8. ASSUME NEW j \in Job, JobStep(j) \/ ContainerExits(j) \/ MonitorStep(j) PROVE EventInv'
  <2>1. /\ UNCHANGED <<queue, dependsOn, next, subpc, loop, todo, canStart, wake>>
        /\ \A k \in Job : status'[k] # status[k] =>
              status'[k] \notin {"Submitted", "Pending", "Runnable"}
    BY <1>8, GoroutineFrame DEF TypeOK, SchedulingInv
  <2>2. /\ Due' \subseteq Due
        /\ Announcing' = Announcing /\ Promoted' = Promoted /\ Taken' = Taken
        /\ Taken \in {0, 1}
    BY <2>1 DEF Due, Announcing, Promoted, Taken, TypeOK
  <2>3. EventsDue'
    BY <2>1, <2>2, SameCount
  <2>4. PromotedOnce' /\ PassComplete'
    BY <2>1, <2>2 DEF PromotedOnce, PassComplete, TypeOK
  <2> QED
    BY <2>3, <2>4
<1>9. ASSUME \/ \E s \in Submitter : RegistryMiss(s)
             \/ \E j \in Job : ReceiveFinished(j)
             \/ Collect \/ Crash \/ UNCHANGED vars
      PROVE  EventInv'
  <2>1. UNCHANGED <<queue, status, dependsOn, next, wake>>
    BY <1>9 DEF RegistryMiss, ReceiveFinished, Collect, Crash, vars, loopVars, chanVars,
                queueVars, subVars, runVars
  <2>2. /\ Announcing' = Announcing /\ Promoted' = Promoted /\ Taken <= Taken'
        /\ PassComplete'
    <3>1. ASSUME NEW s \in Submitter, RegistryMiss(s)
          PROVE  /\ UNCHANGED <<loop, todo, canStart>>
                 /\ Announcing' = Announcing
      BY <3>1 DEF RegistryMiss, loopVars, Announcing, TypeOK
    <3>2. CASE \E s \in Submitter : RegistryMiss(s)
      BY <2>1, <3>1, <3>2 DEF Promoted, Taken, PassComplete
    <3>3. CASE \E j \in Job : ReceiveFinished(j)
      BY <2>1, <3>3 DEF ReceiveFinished, subVars, Announcing, Promoted, Taken, PassComplete
    <3>4. CASE Collect
      BY <2>1, <3>4 DEF Collect, subVars, Announcing, Promoted, Taken, PassComplete
    <3>5. CASE Crash \/ UNCHANGED vars
      BY <2>1, <3>5 DEF Crash, vars, subVars, loopVars, Announcing, Promoted, Taken,
                        PassComplete
    <3> QED
      BY <1>9, <3>2, <3>3, <3>4, <3>5
  <2>3. PromotedOnce'
    BY <2>1, <2>2 DEF PromotedOnce
  <2>4. Due' = Due
    BY <2>1 DEF Due
  <2>5. EventsDue'
    BY <2>1, <2>2, <2>4, SameCount
  <2> QED
    BY <2>2, <2>3, <2>5
<1> QED
  BY <1>1, <1>2, <1>3, <1>4, <1>5, <1>6, <1>7, <1>8, <1>9 DEF Next, SubmitterStep, LoopStep

\* The account of events holds always: for every job that can start, an event is
\* under way or to come.
THEOREM EventInvariant == Spec => []EventInv
<1>1. Init => EventInv
  <2> SUFFICES ASSUME Init PROVE EventInv
    OBVIOUS
  <2>1. Due = {} /\ wake = {} /\ Promoted = {} /\ Announcing = {} /\ Taken = 0
    BY DEF Init, Due, Promoted, Announcing, Taken
  <2>2. EventsDue
    BY <2>1, FS_EmptySet DEF EventsDue
  <2> QED
    BY <2>1, <2>2 DEF Init, EventInv, PromotedOnce, PassComplete
<1>2. TypeOK /\ TypeOK' /\ SchedulingInv /\ EventInv /\ [Next]_vars => EventInv'
  BY NextEvents
<1> QED
  BY <1>1, <1>2, TypeCorrect, SchedulingInvariant, PTL DEF Spec

\* Between passes an event is to come for every Runnable job, however many are
\* promoted in a pass that starts only one.
THEOREM NoneStranded == Spec => []NoStrandedRunnable
<1>1. TypeOK /\ EventInv => NoStrandedRunnable
  <2> SUFFICES ASSUME TypeOK, EventInv, loop = "select"
               PROVE  Cardinality({j \in queue : status[j] = "Runnable"})
                         <= Cardinality(Announcing) + Cardinality(wake)
    BY DEF NoStrandedRunnable, Announcing
  <2> DEFINE R == {j \in queue : status[j] = "Runnable"}
  <2>1. R \subseteq Due /\ R \in SUBSET Job
    BY DEF Due, TypeOK
  <2>2. Cardinality(R) <= Cardinality(Due)
    BY <2>1, CountedFinite, FS_Subset
  <2>3. Promoted = {} /\ Taken = 0
    BY DEF Promoted, Taken
  <2>4. Cardinality(Due) <= Cardinality(Announcing) + Cardinality(wake)
    BY <2>3, CountedFinite, FS_EmptySet DEF EventInv, EventsDue
  <2>5. /\ Cardinality(R) \in Nat /\ Cardinality(Due) \in Nat
        /\ Cardinality(Announcing) \in Nat /\ Cardinality(wake) \in Nat
    BY <2>1, CountedFinite
  <2> QED
    BY <2>2, <2>4, <2>5
<1> QED
  BY <1>1, EventInvariant, TypeCorrect, PTL

-----------------------------------------------------------------------------
(* Containers and the limiter *)

LogsReliable == Faults \cap {"logs", "logread", "wait"} = {}

LEMMA NextMonitored ==
    ASSUME LogsReliable, TypeOK, SchedulingInv, UpMonitored, [Next]_vars
    PROVE  UpMonitored'
<1> USE DEF TypeOK, UpMonitored
<1>1. ASSUME NEW j \in Job, JobStep(j) PROVE UpMonitored'
  <2>1. CASE NewRunnerFails(j) \/ PrepareFails(j) \/ CreateFails(j) \/ StoreRunning(j)
             \/ StartFails(j)
    BY <2>1 DEF NewRunnerFails, PrepareFails, CreateFails, StoreRunning, StartFails
  <2>2. CASE Create(j)
    BY <2>2 DEF Create
  <2>3. CASE Start(j)
    BY <2>3 DEF Start
  <2>4. CASE LogEnds(j) \/ LogFails(j)
    BY <2>4 DEF LogEnds, LogFails, LogsReliable
  <2>5. CASE CloseRunner(j)
    BY <2>5 DEF CloseRunner
  <2>6. CASE Release(j)
    BY <2>6 DEF Release
  <2>7. CASE MonitorMissing(j)
    BY <2>7 DEF MonitorMissing, LogsReliable
  <2> QED
    BY <1>1, <2>1, <2>2, <2>3, <2>4, <2>5, <2>6, <2>7 DEF JobStep
<1>2. ASSUME NEW j \in Job, ContainerExits(j) PROVE UpMonitored'
  BY <1>2 DEF ContainerExits
<1>3. ASSUME NEW j \in Job, MonitorStep(j) PROVE UpMonitored'
  <2>1. container[j] # "up" /\ UNCHANGED <<gor, container>>
    BY <1>3 DEF MonitorStep, MonitorReports, MonitorFails, LogsReliable
  <2>2. \A k \in Job \ {j} : mon'[k] = mon[k]
    BY <1>3 DEF MonitorStep, MonitorReports, MonitorFails
  <2> QED
    BY <2>1, <2>2
<1>4. CASE StartJob
  BY <1>4 DEF StartJob, SchedulingInv, OneWriter
<1>5. ASSUME NEW j \in Job, ReceiveFinished(j) PROVE UpMonitored'
  BY <1>5 DEF ReceiveFinished
<1>6. ASSUME \/ \E s \in Submitter : SubmitterStep(s) \/ ReceiveSubmitted(s)
             \/ \E j \in Job : ReceivePending(j) \/ UpdateJob(j) \/ GetNextRunnable(j)
             \/ Collect \/ NothingRunnable \/ Crash \/ UNCHANGED vars
      PROVE  UpMonitored'
  <2>1. UNCHANGED <<gor, mon, container>>
    BY <1>6 DEF SubmitterStep, AddJob, RegistryMiss, ReceiveSubmitted, ReceivePending, UpdateJob,
       GetNextRunnable, Collect, NothingRunnable, Crash, vars, runVars
  <2> QED
    BY <2>1
<1> QED
  BY <1>1, <1>2, <1>3, <1>4, <1>5, <1>6 DEF Next, LoopStep

\* No more containers are up than the limit says, as long as log and wait requests
\* do not fail: every goroutine holds its token until its container is down.
THEOREM ContainersLimited == Spec => []ContainersWithinLimit
<1>1. Init => UpMonitored
  BY DEF Init, UpMonitored
<1>2. TypeOK /\ SchedulingInv /\ (LogsReliable => UpMonitored) /\ [Next]_vars
        => (LogsReliable => UpMonitored)'
  BY NextMonitored DEF LogsReliable
<1>3. TypeOK /\ LimiterAccount /\ (LogsReliable => UpMonitored) => ContainersWithinLimit
  <2> SUFFICES ASSUME TypeOK, LimiterAccount, UpMonitored
               PROVE  Cardinality({j \in Job : container[j] = "up"}) <= Capacity
    BY DEF ContainersWithinLimit, LogsReliable
  <2> DEFINE U == {j \in Job : container[j] = "up"}
  <2>1. U \in SUBSET Holders
    BY DEF UpMonitored, Holders, Holding
  <2>2. Cardinality(U) <= Cardinality(Holders) /\ Cardinality(U) \in Nat
    BY <2>1, HoldersFinite, FS_Subset, FS_CardinalityType
  <2>3. Cardinality(Holders) <= Capacity
    BY CapacityPositive DEF LimiterAccount, Holders, TypeOK
  <2> QED
    BY <2>2, <2>3, HoldersFinite, CapacityPositive
<1> QED
  BY <1>1, <1>2, <1>3, TypeCorrect, SchedulingInvariant, LimiterAccounts, PTL DEF Spec

-----------------------------------------------------------------------------
(* The core comes to rest: what is ahead of its jobs shrinks with every step *)

\* A status is half-written only while its goroutine is between the two stores.
StoringIsTorn == \A j \in Job : gor[j] = "storing" => status[j] = "Torn"

LEMMA NextStoring ==
    ASSUME TypeOK, SchedulingInv, StoringIsTorn, [Next]_vars
    PROVE  StoringIsTorn'
<1> USE DEF SchedulingInv, StoringIsTorn
<1>1. CASE StartJob
  BY <1>1 DEF StartJob, TypeOK, queueVars
<1>2. ASSUME NEW j \in Job, JobStep(j) \/ ContainerExits(j) \/ MonitorStep(j)
      PROVE  StoringIsTorn'
  <2>1. \A k \in Job \ {j} : gor'[k] = gor[k] /\ status'[k] = status[k]
    BY <1>2, GoroutineFrame DEF TypeOK
  <2>2. gor'[j] = "storing" => status'[j] = "Torn"
    <3>1. CASE Create(j)
      BY <3>1 DEF Create, TypeOK
    <3>2. CASE ContainerExits(j)
      BY <3>2 DEF ContainerExits, queueVars
    <3>3. CASE MonitorStep(j)
      BY <3>3 DEF MonitorStep, MonitorReports, MonitorFails, OneWriter
    <3>4. CASE JobStep(j) /\ ~Create(j)
      BY <3>4 DEF JobStep, NewRunnerFails, PrepareFails, CreateFails, StoreRunning, StartFails,
         Start, MonitorMissing, LogEnds, LogFails, CloseRunner, Release, TypeOK
    <3> QED
      BY <1>2, <3>1, <3>2, <3>3, <3>4
  <2> QED
    BY <2>1, <2>2
<1>3. ASSUME NEW j \in Job, UpdateJob(j) \/ GetNextRunnable(j) PROVE StoringIsTorn'
  <2>1. NewStatus(j) = status[j] \/ status[j] \in {"Submitted", "Pending"}
    BY DEF NewStatus
  <2> QED
    BY <1>3, <2>1 DEF UpdateJob, GetNextRunnable, TypeOK, runVars, OneWriter
<1>4. ASSUME NEW j \in Job, ReceiveFinished(j) PROVE StoringIsTorn'
  BY <1>4 DEF ReceiveFinished, TypeOK, queueVars
<1>5. ASSUME \/ \E s \in Submitter : SubmitterStep(s) \/ ReceiveSubmitted(s)
             \/ \E j \in Job : ReceivePending(j)
             \/ Collect \/ NothingRunnable \/ Crash \/ UNCHANGED vars
      PROVE  StoringIsTorn'
  <2>1. UNCHANGED <<status, gor>>
    BY <1>5 DEF SubmitterStep, AddJob, RegistryMiss, ReceiveSubmitted, ReceivePending, Collect,
       NothingRunnable, Crash, vars, queueVars, runVars
  <2> QED
    BY <2>1
<1> QED
  BY <1>1, <1>2, <1>3, <1>4, <1>5 DEF Next, LoopStep

\* The ranks are numbers.
LEMMA RankTypes ==
    /\ \A s \in JobStatus : StatusRank(s) \in 0 .. 6
    /\ \A g \in GorState : GoroutineRank(g) \in 0 .. 8
    /\ \A c \in {"none", "created", "up", "exited", "removed"} : ContainerRank(c) \in 0 .. 4
<1>1. \A s \in JobStatus : StatusRank(s) \in 0 .. 6
  BY DEF JobStatus, Finished, StatusRank
<1>2. \A g \in GorState : GoroutineRank(g) \in 0 .. 8
  BY DEF GorState, GoroutineRank
<1>3. \A c \in {"none", "created", "up", "exited", "removed"} : ContainerRank(c) \in 0 .. 4
  BY DEF ContainerRank
<1> QED
  BY <1>1, <1>2, <1>3

MonitorRank(j) == IF mon[j] THEN 0 ELSE 1

LEMMA StageParts ==
    ASSUME TypeOK, TypeOK', NEW j \in Job
    PROVE  /\ StatusRank(status[j]) \in 0 .. 6 /\ StatusRank(status'[j]) \in 0 .. 6
           /\ GoroutineRank(gor[j]) \in 0 .. 8 /\ GoroutineRank(gor'[j]) \in 0 .. 8
           /\ ContainerRank(container[j]) \in 0 .. 4 /\ ContainerRank(container'[j]) \in 0 .. 4
           /\ MonitorRank(j) \in 0 .. 1 /\ MonitorRank(j)' \in 0 .. 1
           /\ WakeRank(j) \in 0 .. 2 /\ WakeRank(j)' \in 0 .. 2
           /\ JobStage(j) = 3 * StatusRank(status[j]) + 4 * GoroutineRank(gor[j])
                              + ContainerRank(container[j]) + MonitorRank(j) + WakeRank(j)
           /\ JobStage(j)' = 3 * StatusRank(status'[j]) + 4 * GoroutineRank(gor'[j])
                              + ContainerRank(container'[j]) + MonitorRank(j)' + WakeRank(j)'
           /\ JobStage(j) \in Int /\ JobStage(j)' \in Int /\ JobStage(j)' <= LastJobStage
<1>1. /\ StatusRank(status[j]) \in 0 .. 6 /\ StatusRank(status'[j]) \in 0 .. 6
      /\ GoroutineRank(gor[j]) \in 0 .. 8 /\ GoroutineRank(gor'[j]) \in 0 .. 8
      /\ ContainerRank(container[j]) \in 0 .. 4 /\ ContainerRank(container'[j]) \in 0 .. 4
  BY RankTypes DEF TypeOK
<1>2. /\ MonitorRank(j) \in 0 .. 1 /\ MonitorRank(j)' \in 0 .. 1
      /\ WakeRank(j) \in 0 .. 2 /\ WakeRank(j)' \in 0 .. 2
  BY DEF MonitorRank, WakeRank
<1>3. JobStage(j) = 3 * StatusRank(status[j]) + 4 * GoroutineRank(gor[j])
                      + ContainerRank(container[j]) + MonitorRank(j) + WakeRank(j)
  BY DEF JobStage, MonitorRank
<1>4. JobStage(j)' = 3 * StatusRank(status'[j]) + 4 * GoroutineRank(gor'[j])
                      + ContainerRank(container'[j]) + MonitorRank(j)' + WakeRank(j)'
  BY DEF JobStage, MonitorRank
<1>5. LastJobStage = 57
  BY DEF LastJobStage
<1>6. JobStage(j) \in Int
  <2> DEFINE s == StatusRank(status[j])
             g == GoroutineRank(gor[j])
             c == ContainerRank(container[j])
             m == MonitorRank(j)
             w == WakeRank(j)
  <2>1. /\ s \in Int /\ g \in Int /\ c \in Int /\ m \in Int /\ w \in Int
        /\ JobStage(j) = 3 * s + 4 * g + c + m + w
    BY <1>1, <1>2, <1>3
  <2> HIDE DEF s, g, c, m, w
  <2> QED
    BY <2>1
<1>7. JobStage(j)' \in Int /\ JobStage(j)' <= 57
  <2> DEFINE s == StatusRank(status'[j])
             g == GoroutineRank(gor'[j])
             c == ContainerRank(container'[j])
             m == MonitorRank(j)'
             w == WakeRank(j)'
  <2>1. /\ s \in 0 .. 6 /\ g \in 0 .. 8 /\ c \in 0 .. 4 /\ m \in 0 .. 1 /\ w \in 0 .. 2
        /\ JobStage(j)' = 3 * s + 4 * g + c + m + w
    BY <1>1, <1>2, <1>4
  <2> HIDE DEF s, g, c, m, w
  <2> QED
    BY <2>1
<1> QED
  BY <1>1, <1>2, <1>3, <1>4, <1>5, <1>6, <1>7, Zenon

\* Parts that do not shrink, or that a step of the goroutine outweighs.
LEMMA StageGrows ==
    ASSUME TypeOK, TypeOK', NEW j \in Job,
           StatusRank(status[j]) <= StatusRank(status'[j]),
           WakeRank(j)' = WakeRank(j),
           \/ /\ GoroutineRank(gor[j]) + 1 <= GoroutineRank(gor'[j])
              /\ ContainerRank(container[j]) + MonitorRank(j)
                    <= ContainerRank(container'[j]) + MonitorRank(j)' + 3
           \/ /\ GoroutineRank(gor[j]) <= GoroutineRank(gor'[j])
              /\ ContainerRank(container[j]) + MonitorRank(j) + 1
                    <= ContainerRank(container'[j]) + MonitorRank(j)'
    PROVE  JobStage(j) < JobStage(j)'
<1> DEFINE s == StatusRank(status[j])
           t == StatusRank(status'[j])
           g == GoroutineRank(gor[j])
           h == GoroutineRank(gor'[j])
           c == ContainerRank(container[j])
           d == ContainerRank(container'[j])
           m == MonitorRank(j)
           n == MonitorRank(j)'
           w == WakeRank(j)
<1>1. /\ s \in Int /\ t \in Int /\ g \in Int /\ h \in Int /\ c \in Int /\ d \in Int
      /\ m \in Int /\ n \in Int /\ w \in Int
      /\ JobStage(j) = 3 * s + 4 * g + c + m + w
      /\ JobStage(j)' = 3 * t + 4 * h + d + n + w
  BY StageParts
<1>2. /\ s <= t
      /\ \/ g + 1 <= h /\ c + m <= d + n + 3
         \/ g <= h /\ c + m + 1 <= d + n
  OBVIOUS
<1> HIDE DEF s, t, g, h, c, d, m, n, w
<1> QED
  BY <1>1, <1>2

\* A job that is left alone stays where it is, apart from its event.
LEMMA StageStays ==
    ASSUME TypeOK, TypeOK', NEW j \in Job,
           status'[j] = status[j], gor'[j] = gor[j],
           container'[j] = container[j], mon'[j] = mon[j]
    PROVE  /\ StatusRank(status'[j]) = StatusRank(status[j])
           /\ JobStage(j)' - JobStage(j) = WakeRank(j)' - WakeRank(j)
<1>1. MonitorRank(j)' = MonitorRank(j)
  BY DEF MonitorRank
<1> QED
  BY <1>1, StageParts

\* Every step of a goroutine, whichever way it goes, outweighs what it does to
\* container and monitor, and takes no status back.
LEMMA GoroutineAdvances ==
    ASSUME TypeOK, TypeOK', SchedulingInv, PreparingIsStarting, StoringIsTorn,
           NEW j \in Job, JobStep(j)
    PROVE  /\ StatusRank(status[j]) <= StatusRank(status'[j])
           /\ JobStage(j) < JobStage(j)'
<1> USE DEF TypeOK
<1>1. UNCHANGED <<loop, canStart, wake>>
  BY DEF JobStep, NewRunnerFails, PrepareFails, CreateFails, Create, StoreRunning, StartFails,
     Start, MonitorMissing, LogEnds, LogFails, CloseRunner, Release, loopVars, chanVars
<1>2. WakeRank(j)' = WakeRank(j)
  BY <1>1 DEF WakeRank, Promoted
<1>3. \/ gor[j] = "prepare" /\ gor'[j] \in {"storing", "created", "close", "release"}
      \/ gor[j] = "storing" /\ gor'[j] = "created"
      \/ gor[j] = "created" /\ gor'[j] \in {"wait", "close"}
      \/ gor[j] = "wait" /\ gor'[j] = "close"
      \/ gor[j] = "close" /\ gor'[j] = "release"
      \/ gor[j] = "release" /\ gor'[j] = "send"
  BY DEF JobStep, NewRunnerFails, PrepareFails, CreateFails, Create, StoreRunning, StartFails,
     Start, MonitorMissing, LogEnds, LogFails, CloseRunner, Release
<1>4. GoroutineRank(gor[j]) + 1 <= GoroutineRank(gor'[j])
  BY <1>3 DEF GoroutineRank
<1>5. \/ status'[j] = status[j] \/ status'[j] = "Failed"
      \/ status[j] = "Starting" /\ status'[j] \in {"Torn", "Running"}
      \/ status[j] = "Torn" /\ status'[j] = "Running"
  BY DEF JobStep, NewRunnerFails, PrepareFails, CreateFails, Create, StoreRunning, StartFails,
     Start, MonitorMissing, LogEnds, LogFails, CloseRunner, Release, queueVars,
     PreparingIsStarting, StoringIsTorn
<1>6. StatusRank(status[j]) <= StatusRank(status'[j])
  <2>1. CASE status'[j] = status[j]
    BY <2>1, StageParts
  <2>2. CASE status'[j] = "Failed"
    <3>1. StatusRank(status'[j]) = 6
      BY <2>2 DEF StatusRank, Finished
    <3> QED
      BY <3>1, StageParts
  <2>3. CASE \/ status[j] = "Starting" /\ status'[j] \in {"Torn", "Running"}
             \/ status[j] = "Torn" /\ status'[j] = "Running"
    BY <2>3 DEF StatusRank, Finished
  <2> QED
    BY <1>5, <2>1, <2>2, <2>3
<1>7. ContainerRank(container[j]) + MonitorRank(j)
        <= ContainerRank(container'[j]) + MonitorRank(j)' + 3
  <2>1. CASE Create(j)
    <3>1. container'[j] = "created" /\ mon'[j] = mon[j]
      BY <2>1 DEF Create
    <3>2. ContainerRank(container'[j]) = 1 /\ MonitorRank(j)' = MonitorRank(j)
      BY <3>1 DEF ContainerRank, MonitorRank
    <3> QED
      BY <3>2, StageParts
  <2>2. CASE Start(j) \/ MonitorMissing(j)
    <3>1. container'[j] = "up"
      BY <2>2 DEF Start, MonitorMissing
    <3>2. ContainerRank(container'[j]) = 2
      BY <3>1 DEF ContainerRank
    <3> QED
      BY <3>2, StageParts
  <2>3. CASE CloseRunner(j)
    <3>1. mon'[j] = mon[j] /\ (container'[j] = container[j] \/ container'[j] = "removed")
      BY <2>3 DEF CloseRunner
    <3>2. MonitorRank(j)' = MonitorRank(j)
      BY <3>1 DEF MonitorRank
    <3>3. container'[j] = "removed" => ContainerRank(container'[j]) = 4
      BY DEF ContainerRank
    <3> QED
      BY <3>1, <3>2, <3>3, StageParts
  <2>4. CASE ~(Create(j) \/ Start(j) \/ MonitorMissing(j) \/ CloseRunner(j))
    <3>1. UNCHANGED <<container, mon>>
      BY <2>4 DEF JobStep, NewRunnerFails, PrepareFails, CreateFails, StoreRunning, StartFails,
         LogEnds, LogFails, Release
    <3>2. MonitorRank(j)' = MonitorRank(j)
      BY <3>1 DEF MonitorRank
    <3> QED
      BY <3>1, <3>2, StageParts
  <2> QED
    BY <2>1, <2>2, <2>3, <2>4
<1> QED
  BY <1>2, <1>4, <1>6, <1>7, StageGrows

\* So does what happens to its container.
LEMMA ContainerAdvances ==
    ASSUME TypeOK, TypeOK', NEW j \in Job, ContainerExits(j) \/ MonitorStep(j)
    PROVE  /\ StatusRank(status[j]) <= StatusRank(status'[j])
           /\ JobStage(j) < JobStage(j)'
<1> USE DEF TypeOK
<1>1. UNCHANGED <<loop, canStart, wake, gor>>
  BY DEF ContainerExits, MonitorStep, MonitorReports, MonitorFails, loopVars, chanVars
<1>2. WakeRank(j)' = WakeRank(j)
  BY <1>1 DEF WakeRank, Promoted
<1>3. CASE ContainerExits(j)
  <2>1. container[j] = "up" /\ container'[j] = "exited" /\ status' = status /\ mon' = mon
    BY <1>3 DEF ContainerExits, queueVars
  <2>2. ContainerRank(container[j]) = 2 /\ ContainerRank(container'[j]) = 3
    BY <2>1 DEF ContainerRank
  <2>3. MonitorRank(j)' = MonitorRank(j)
    BY <2>1 DEF MonitorRank
  <2> QED
    BY <1>1, <1>2, <2>1, <2>2, <2>3, StageParts
<1>4. CASE MonitorStep(j)
  <2>1. mon[j] /\ ~mon'[j] /\ status'[j] \in Finished /\ container' = container
    BY <1>4 DEF MonitorStep, MonitorReports, MonitorFails, Finished
  <2>2. MonitorRank(j) = 0 /\ MonitorRank(j)' = 1
    BY <2>1 DEF MonitorRank
  <2>3. StatusRank(status'[j]) = 6
    BY <2>1 DEF StatusRank, Finished
  <2>4. /\ StatusRank(status[j]) <= StatusRank(status'[j])
        /\ GoroutineRank(gor[j]) <= GoroutineRank(gor'[j])
        /\ ContainerRank(container[j]) + MonitorRank(j) + 1
              <= ContainerRank(container'[j]) + MonitorRank(j)'
    <3>1. StatusRank(status[j]) <= 6 /\ StatusRank(status[j]) \in Int
      BY StageParts
    <3>2. /\ ContainerRank(container'[j]) = ContainerRank(container[j])
          /\ ContainerRank(container[j]) \in Int
          /\ GoroutineRank(gor'[j]) = GoroutineRank(gor[j]) /\ GoroutineRank(gor[j]) \in Int
      BY <1>1, <2>1, StageParts
    <3> QED
      BY <2>2, <2>3, <3>1, <3>2
  <2> QED
    BY <1>2, <2>4, StageGrows
<1> QED
  BY <1>3, <1>4

\* Between the passes and their steps, a job only moves up.
LEMMA StageKept ==
    ASSUME TypeOK, TypeOK', NEW j \in Job,
           StatusRank(status[j]) <= StatusRank(status'[j]),
           gor'[j] = gor[j], container'[j] = container[j], mon'[j] = mon[j],
           \/ WakeRank(j) <= WakeRank(j)'
           \/ StatusRank(status[j]) + 1 <= StatusRank(status'[j])
    PROVE  JobStage(j) <= JobStage(j)'
<1>1. MonitorRank(j)' = MonitorRank(j)
  BY DEF MonitorRank
<1> DEFINE s == StatusRank(status[j])
           t == StatusRank(status'[j])
           g == GoroutineRank(gor[j])
           c == ContainerRank(container[j])
           m == MonitorRank(j)
           w == WakeRank(j)
           x == WakeRank(j)'
<1>2. /\ s \in Int /\ t \in Int /\ g \in Int /\ c \in Int /\ m \in Int
      /\ w \in 0 .. 2 /\ x \in 0 .. 2
      /\ JobStage(j) = 3 * s + 4 * g + c + m + w
      /\ JobStage(j)' = 3 * t + 4 * g + c + m + x
  BY <1>1, StageParts
<1>3. s <= t /\ (w <= x \/ s + 1 <= t)
  OBVIOUS
<1> HIDE DEF s, t, g, c, m, w, x
<1> QED
  BY <1>2, <1>3

\* Where no status, goroutine or container is touched, only the events move.
LEMMA JobsLeftAlone ==
    ASSUME TypeOK, TypeOK', UNCHANGED <<status, gor, container, mon>>,
           \A j \in Job : WakeRank(j) <= WakeRank(j)'
    PROVE  \A j \in Job : /\ StatusRank(status[j]) <= StatusRank(status'[j])
                          /\ JobStage(j) <= JobStage(j)'
<1> SUFFICES ASSUME NEW j \in Job
             PROVE  /\ StatusRank(status[j]) <= StatusRank(status'[j])
                    /\ JobStage(j) <= JobStage(j)'
  OBVIOUS
<1>1. StatusRank(status[j]) <= StatusRank(status'[j])
  BY StageParts
<1> QED
  BY <1>1, StageKept

\* A submitter stops one past its batch.
LEMMA SubmitterParts ==
    ASSUME TypeOK, SubmittedQueued, NEW s \in Submitter
    PROVE  SubmitterStage(s) \in Int /\ SubmitterStage(s) <= LastSubmitterStage(s)
<1>1. next[s] \in Int /\ Len(Batch[s]) \in Int /\ next[s] <= Len(Batch[s]) + 1
  BY BatchAssumption DEF TypeOK, SubmittedQueued
<1> QED
  BY <1>1 DEF SubmitterStage, LastSubmitterStage

JobsForward == \A j \in Job : /\ StatusRank(status[j]) <= StatusRank(status'[j])
                              /\ JobStage(j) <= JobStage(j)'

SubmittersForward == \A s \in Submitter : SubmitterStage(s) <= SubmitterStage(s)'

Closer == \/ \E s \in Submitter : SubmitterStage(s) < SubmitterStage(s)'
          \/ \E j \in Job : JobStage(j) < JobStage(j)'
          \/ PassLeft' < PassLeft

LEMMA SubmitterAdvances ==
    ASSUME TypeOK, TypeOK', SchedulingInv, SchedulingInv',
           NEW s \in Submitter, SubmitterStep(s) \/ ReceiveSubmitted(s)
    PROVE  SubmittersForward /\ JobsForward /\ Closer
<1>1. UNCHANGED <<status, gor, container, mon, wake>> /\ Promoted' = Promoted
  BY DEF SubmitterStep, AddJob, RegistryMiss, ReceiveSubmitted, queueVars, loopVars, chanVars,
     runVars, Promoted
<1>2. JobsForward
  <2>1. \A j \in Job : WakeRank(j)' = WakeRank(j)
    BY <1>1 DEF WakeRank
  <2>2. \A j \in Job : WakeRank(j) <= WakeRank(j)'
    BY <2>1, StageParts
  <2> QED
    BY <1>1, <2>2, JobsLeftAlone DEF JobsForward
<1>3. \/ subpc[s] = "submit" /\ subpc'[s] # "submit" /\ next'[s] = next[s]
      \/ subpc[s] = "send" /\ subpc'[s] = "submit" /\ next'[s] = next[s] + 1
  BY DEF SubmitterStep, AddJob, RegistryMiss, ReceiveSubmitted, TypeOK
<1>4. \A r \in Submitter \ {s} : subpc'[r] = subpc[r] /\ next'[r] = next[r]
  BY DEF SubmitterStep, AddJob, RegistryMiss, ReceiveSubmitted, TypeOK
<1>5. SubmitterStage(s) < SubmitterStage(s)'
  <2>1. next[s] \in Int
    BY DEF TypeOK
  <2> QED
    BY <1>3, <2>1 DEF SubmitterStage
<1>6. SubmittersForward
  <2> SUFFICES ASSUME NEW r \in Submitter PROVE SubmitterStage(r) <= SubmitterStage(r)'
    BY DEF SubmittersForward
  <2>1. SubmitterStage(r) \in Int
    BY SubmitterParts DEF SchedulingInv
  <2>2. SubmitterStage(s) \in Int /\ SubmitterStage(s)' \in Int
    <3>1. next[s] \in Int /\ next'[s] \in Int
      BY DEF TypeOK
    <3> QED
      BY <3>1 DEF SubmitterStage
  <2>3. CASE r = s
    BY <1>5, <2>2, <2>3
  <2>4. CASE r # s
    <3>1. SubmitterStage(r)' = SubmitterStage(r)
      BY <1>4, <2>4 DEF SubmitterStage
    <3> QED
      BY <2>1, <3>1
  <2> QED
    BY <2>3, <2>4
<1> QED
  BY <1>2, <1>5, <1>6 DEF Closer

\* A pass takes its steps one after the other, and promotes or starts a job or
\* leaves it as it was.
LEMMA PassAdvances ==
    ASSUME TypeOK, TypeOK', SchedulingInv,
           \/ Collect \/ NothingRunnable \/ StartJob
           \/ \E j \in Job : UpdateJob(j) \/ GetNextRunnable(j)
    PROVE  JobsForward /\ PassLeft' < PassLeft
<1> USE DEF TypeOK
<1>0. /\ \A S \in SUBSET Job : Cardinality(S) \in Nat
      /\ \A S \in SUBSET Job : Cardinality(S) <= Cardinality(Job)
      /\ \A S \in SUBSET Job : \A j \in S : Cardinality(S \ {j}) < Cardinality(S)
  <2>1. \A S \in SUBSET Job : IsFiniteSet(S) /\ Cardinality(S) <= Cardinality(Job)
    BY JobAssumption, FS_Subset
  <2>2. \A S \in SUBSET Job : Cardinality(S) \in Nat
    BY <2>1, FS_CardinalityType
  <2>3. ASSUME NEW S \in SUBSET Job, NEW j \in S PROVE Cardinality(S \ {j}) < Cardinality(S)
    <3>1. Cardinality(S \ {j}) = Cardinality(S) - 1
      BY <2>1, FS_RemoveElement
    <3> QED
      BY <2>2, <3>1
  <2> QED
    BY <2>1, <2>2, <2>3
<1>1. CASE Collect
  <2>1. UNCHANGED <<status, gor, container, mon, wake>> /\ Promoted' = Promoted
    BY <1>1 DEF Collect, queueVars, chanVars, runVars, Promoted
  <2>2. \A j \in Job : WakeRank(j)' = WakeRank(j)
    BY <2>1 DEF WakeRank
  <2>3. \A j \in Job : WakeRank(j) <= WakeRank(j)'
    BY <2>2, StageParts
  <2>4. PassLeft = Cardinality(Job) + 3 /\ PassLeft' = Cardinality(queue) + 2
    BY <1>1 DEF Collect, PassLeft
  <2>5. Cardinality(queue) <= Cardinality(Job) /\ Cardinality(queue) \in Nat
        /\ Cardinality(Job) \in Nat
    BY <1>0
  <2> QED
    BY <2>1, <2>3, <2>4, <2>5, JobsLeftAlone DEF JobsForward
<1>2. CASE NothingRunnable
  <2>1. UNCHANGED <<status, gor, container, mon, wake>> /\ Promoted' = {}
    BY <1>2 DEF NothingRunnable, queueVars, chanVars, runVars, Promoted
  <2>2. \A j \in Job : WakeRank(j) <= WakeRank(j)'
    BY <2>1 DEF WakeRank
  <2>3. PassLeft = Cardinality(todo) + 2 /\ PassLeft' = 0 /\ Cardinality(todo) \in Nat
    BY <1>0, <1>2 DEF NothingRunnable, PassLeft
  <2> QED
    BY <2>1, <2>2, <2>3, JobsLeftAlone DEF JobsForward
<1>3. CASE StartJob
  <2>1. /\ UNCHANGED <<status, container, mon>>
        /\ picked \in Job /\ gor[picked] = "idle"
        /\ gor' = [gor EXCEPT ![picked] = "prepare"]
        /\ Promoted = canStart /\ Promoted' = {} /\ wake' = wake \cup canStart
    BY <1>3 DEF StartJob, queueVars, Promoted, SchedulingInv, OneWriter
  <2>2. \A j \in Job : WakeRank(j) <= WakeRank(j)'
    BY <2>1 DEF WakeRank
  <2>3. PassLeft = 1 /\ PassLeft' = 0
    BY <1>3 DEF StartJob, PassLeft
  <2>4. ASSUME NEW j \in Job
        PROVE  /\ StatusRank(status[j]) <= StatusRank(status'[j])
               /\ JobStage(j) <= JobStage(j)'
    <3>1. StatusRank(status[j]) = StatusRank(status'[j]) /\ MonitorRank(j)' = MonitorRank(j)
          /\ ContainerRank(container[j]) = ContainerRank(container'[j])
      BY <2>1 DEF MonitorRank
    <3>2. GoroutineRank(gor[j]) <= GoroutineRank(gor'[j])
      <4>1. CASE j = picked
        BY <2>1, <4>1 DEF GoroutineRank
      <4>2. CASE j # picked
        <5>1. gor'[j] = gor[j]
          BY <2>1, <4>2
        <5> QED
          BY <5>1, StageParts
      <4> QED
        BY <4>1, <4>2
    <3> DEFINE s == StatusRank(status[j])
               g == GoroutineRank(gor[j])
               h == GoroutineRank(gor'[j])
               c == ContainerRank(container[j])
               m == MonitorRank(j)
               w == WakeRank(j)
               x == WakeRank(j)'
    <3>3. /\ s \in Int /\ g \in Int /\ h \in Int /\ c \in Int /\ m \in Int
          /\ w \in Int /\ x \in Int
          /\ JobStage(j) = 3 * s + 4 * g + c + m + w
          /\ JobStage(j)' = 3 * s + 4 * h + c + m + x
          /\ g <= h /\ w <= x
      BY <2>2, <3>1, <3>2, StageParts
    <3>4. s <= s
      BY <3>3
    <3> HIDE DEF g, h, c, m, w, x
    <3>5. JobStage(j) <= JobStage(j)'
      <4> HIDE DEF s
      <4> QED
        BY <3>3
    <3> QED
      BY <3>1, <3>4, <3>5
  <2> QED
    BY <2>3, <2>4 DEF JobsForward
<1>4. ASSUME NEW j \in Job, UpdateJob(j) \/ GetNextRunnable(j)
      PROVE  JobsForward /\ PassLeft' < PassLeft
  <2>1. UNCHANGED <<gor, container, mon, wake>>
    BY <1>4 DEF UpdateJob, GetNextRunnable, chanVars, runVars
  <2>2. \A k \in Job \ {j} : status'[k] = status[k] /\ (k \in Promoted' <=> k \in Promoted)
    BY <1>4 DEF UpdateJob, GetNextRunnable, Promoted
  <2>3. \/ status'[j] = status[j] /\ Promoted' = Promoted
        \/ status[j] = "Submitted" /\ status'[j] \in {"Pending", "Runnable"}
        \/ status[j] = "Pending" /\ status'[j] = "Runnable"
        \/ status[j] = "Runnable" /\ status'[j] = "Starting"
    <3>1. CASE UpdateJob(j)
      <4>1. \/ NewStatus(j) = status[j]
            \/ status[j] = "Submitted" /\ NewStatus(j) \in {"Pending", "Runnable"}
            \/ status[j] = "Pending" /\ NewStatus(j) = "Runnable"
        BY DEF NewStatus
      <4> QED
        BY <3>1, <4>1 DEF UpdateJob, Promoted
    <3>2. CASE GetNextRunnable(j)
      BY <3>2 DEF GetNextRunnable
    <3> QED
      BY <1>4, <3>1, <3>2
  <2>4. /\ StatusRank(status[j]) <= StatusRank(status'[j])
        /\ \/ WakeRank(j) <= WakeRank(j)'
           \/ StatusRank(status[j]) + 1 <= StatusRank(status'[j])
    <3>1. CASE status'[j] = status[j] /\ Promoted' = Promoted
      <4>1. WakeRank(j)' = WakeRank(j)
        BY <2>1, <3>1 DEF WakeRank
      <4> QED
        BY <3>1, <4>1, StageParts
    <3>2. CASE \/ status[j] = "Submitted" /\ status'[j] \in {"Pending", "Runnable"}
               \/ status[j] = "Pending" /\ status'[j] = "Runnable"
               \/ status[j] = "Runnable" /\ status'[j] = "Starting"
      BY <3>2 DEF StatusRank, Finished
    <3> QED
      BY <2>3, <3>1, <3>2
  <2>5. ASSUME NEW k \in Job
        PROVE  /\ StatusRank(status[k]) <= StatusRank(status'[k])
               /\ JobStage(k) <= JobStage(k)'
    <3>1. CASE k = j
      BY <2>1, <2>4, <3>1, StageKept
    <3>2. CASE k # j
      <4>1. WakeRank(k)' = WakeRank(k) /\ status'[k] = status[k]
        BY <2>1, <2>2, <3>2 DEF WakeRank
      <4>2. /\ StatusRank(status[k]) <= StatusRank(status'[k])
            /\ WakeRank(k) <= WakeRank(k)'
        BY <4>1, StageParts
      <4> QED
        BY <2>1, <4>2, StageKept
    <3> QED
      BY <3>1, <3>2
  <2>6. PassLeft' < PassLeft
    <3>1. CASE UpdateJob(j)
      <4>1. PassLeft = Cardinality(todo) + 2 /\ PassLeft' = Cardinality(todo \ {j}) + 2
        BY <3>1 DEF UpdateJob, PassLeft
      <4>2. /\ Cardinality(todo \ {j}) < Cardinality(todo)
            /\ Cardinality(todo) \in Nat /\ Cardinality(todo \ {j}) \in Nat
        BY <1>0, <3>1 DEF UpdateJob
      <4> QED
        BY <4>1, <4>2
    <3>2. CASE GetNextRunnable(j)
      <4>1. PassLeft = Cardinality(todo) + 2 /\ PassLeft' = 1 /\ Cardinality(todo) \in Nat
        BY <1>0, <3>2 DEF GetNextRunnable, PassLeft
      <4> QED
        BY <4>1
    <3> QED
      BY <1>4, <3>1, <3>2
  <2> QED
    BY <2>5, <2>6 DEF JobsForward
<1> QED
  BY <1>1, <1>2, <1>3, <1>4

\* An event that the loop takes from a job, and a step of its goroutine, container or
\* monitor, brings that job on and no other back.
LEMMA JobAdvances ==
    ASSUME TypeOK, TypeOK', SchedulingInv, PreparingIsStarting, StoringIsTorn, NEW j \in Job,
           \/ ReceiveFinished(j) \/ ReceivePending(j)
           \/ JobStep(j) \/ ContainerExits(j) \/ MonitorStep(j)
    PROVE  JobsForward /\ JobStage(j) < JobStage(j)'
<1> USE DEF TypeOK
<1>1. \A k \in Job \ {j} : /\ status'[k] = status[k] /\ gor'[k] = gor[k]
                            /\ container'[k] = container[k] /\ mon'[k] = mon[k]
  BY DEF ReceiveFinished, ReceivePending, ContainerExits, MonitorStep, MonitorReports,
     MonitorFails, JobStep, NewRunnerFails, PrepareFails, CreateFails, Create, StoreRunning,
     StartFails, Start, MonitorMissing, LogEnds, LogFails, CloseRunner, Release, queueVars, runVars
<1>2. Promoted' = Promoted /\ \A k \in Job \ {j} : k \in wake' <=> k \in wake
  BY DEF ReceiveFinished, ReceivePending, ContainerExits, MonitorStep, MonitorReports,
     MonitorFails, JobStep, NewRunnerFails, PrepareFails, CreateFails, Create, StoreRunning,
     StartFails, Start, MonitorMissing, LogEnds, LogFails, CloseRunner, Release, loopVars,
     chanVars, Promoted
<1>3. ASSUME NEW k \in Job, k # j
      PROVE  StatusRank(status[k]) <= StatusRank(status'[k]) /\ JobStage(k) <= JobStage(k)'
  <2>1. WakeRank(k)' = WakeRank(k)
    BY <1>2, <1>3 DEF WakeRank
  <2>2. StatusRank(status[k]) <= StatusRank(status'[k]) /\ WakeRank(k) <= WakeRank(k)'
    BY <1>1, <1>3, <2>1, StageParts
  <2> QED
    BY <1>1, <1>3, <2>2, StageKept
<1>4. StatusRank(status[j]) <= StatusRank(status'[j]) /\ JobStage(j) < JobStage(j)'
  <2>1. CASE ReceiveFinished(j)
    <3>1. /\ gor[j] = "send" /\ gor'[j] = "done"
          /\ UNCHANGED <<status, container, mon, wake>>
      BY <2>1 DEF ReceiveFinished, queueVars, chanVars
    <3>2. WakeRank(j)' = WakeRank(j) /\ MonitorRank(j)' = MonitorRank(j)
      BY <1>2, <3>1 DEF WakeRank, MonitorRank
    <3>3. GoroutineRank(gor[j]) + 1 <= GoroutineRank(gor'[j])
      BY <3>1 DEF GoroutineRank
    <3>4. /\ StatusRank(status[j]) <= StatusRank(status'[j])
          /\ ContainerRank(container[j]) + MonitorRank(j)
                <= ContainerRank(container'[j]) + MonitorRank(j)' + 3
      BY <3>1, <3>2, StageParts
    <3> QED
      BY <3>2, <3>3, <3>4, StageGrows
  <2>2. CASE ReceivePending(j)
    <3>1. /\ j \in wake /\ wake' = wake \ {j} /\ Promoted = {} /\ Promoted' = {}
          /\ UNCHANGED <<status, gor, container, mon>>
      BY <2>2 DEF ReceivePending, queueVars, runVars, Promoted
    <3>2. WakeRank(j) = 1 /\ WakeRank(j)' = 2
      BY <3>1 DEF WakeRank
    <3>3. JobStage(j)' - JobStage(j) = 1 /\ StatusRank(status'[j]) = StatusRank(status[j])
      BY <3>1, <3>2, StageStays
    <3> QED
      BY <3>3, StageParts
  <2>3. CASE JobStep(j)
    BY <2>3, GoroutineAdvances
  <2>4. CASE ContainerExits(j) \/ MonitorStep(j)
    BY <2>4, ContainerAdvances
  <2> QED
    BY <2>1, <2>2, <2>3, <2>4
<1>5. JobStage(j) <= JobStage(j)'
  BY <1>4, StageParts
<1> QED
  BY <1>3, <1>4, <1>5 DEF JobsForward

\* No step of the core is one round of a circle: each brings a job, a submitter or the
\* pass of the loop nearer to its end, however events and failures interleave.
THEOREM CoreStepsCounted == Spec => CoreAdvances
<1>1. Init => PreparingIsStarting /\ StoringIsTorn
  BY DEF Init, PreparingIsStarting, StoringIsTorn
<1>2. TypeOK /\ SchedulingInv /\ PreparingIsStarting /\ StoringIsTorn /\ [Next]_vars
        => PreparingIsStarting' /\ StoringIsTorn'
  BY NextPreparing, NextStoring
<1> DEFINE Advanced ==
             /\ \A s \in Submitter : /\ SubmitterStage(s) <= SubmitterStage(s)'
                                     /\ SubmitterStage(s)' <= LastSubmitterStage(s)
             /\ \A j \in Job : /\ StatusRank(status[j]) <= StatusRank(status'[j])
                               /\ JobStage(j) <= JobStage(j)'
                               /\ JobStage(j)' <= LastJobStage
             /\ \/ \E s \in Submitter : SubmitterStage(s) < SubmitterStage(s)'
                \/ \E j \in Job : JobStage(j) < JobStage(j)'
                \/ PassLeft' < PassLeft
<1>3. ASSUME TypeOK, TypeOK', SchedulingInv, SchedulingInv', PreparingIsStarting, StoringIsTorn,
             Next
      PROVE  crashed' \/ Advanced
  <2>1. /\ \A s \in Submitter : SubmitterStage(s)' <= LastSubmitterStage(s)
        /\ \A j \in Job : JobStage(j)' <= LastJobStage
    <3>1. ASSUME NEW s \in Submitter PROVE SubmitterStage(s)' <= LastSubmitterStage(s)
      <4>1. /\ next'[s] \in Int /\ Len(Batch[s]) \in Int /\ next'[s] <= Len(Batch[s]) + 1
        BY <1>3, BatchAssumption DEF TypeOK, SchedulingInv, SubmittedQueued
      <4> QED
        BY <4>1 DEF SubmitterStage, LastSubmitterStage
    <3> QED
      BY <1>3, <3>1, StageParts
  <2>2. ASSUME UNCHANGED <<next, subpc>> PROVE SubmittersForward
    <3>1. ASSUME NEW s \in Submitter PROVE SubmitterStage(s) <= SubmitterStage(s)'
      <4>1. SubmitterStage(s)' = SubmitterStage(s)
        BY <2>2 DEF SubmitterStage
      <4> QED
        BY <1>3, <4>1, SubmitterParts DEF SchedulingInv
    <3> QED
      BY <3>1 DEF SubmittersForward
  <2>3. CASE Crash
    BY <2>3 DEF Crash
  <2>4. CASE \E s \in Submitter : SubmitterStep(s) \/ ReceiveSubmitted(s)
    BY <1>3, <2>1, <2>4, SubmitterAdvances DEF SubmittersForward, JobsForward, Closer
  <2>5. CASE \/ Collect \/ NothingRunnable \/ StartJob
             \/ \E j \in Job : UpdateJob(j) \/ GetNextRunnable(j)
    <3>1. UNCHANGED <<next, subpc>>
      BY <2>5 DEF Collect, NothingRunnable, StartJob, UpdateJob, GetNextRunnable, subVars
    <3>2. JobsForward /\ PassLeft' < PassLeft
      BY <1>3, <2>5, PassAdvances
    <3> QED
      BY <2>1, <2>2, <3>1, <3>2 DEF SubmittersForward, JobsForward
  <2>6. ASSUME NEW j \in Job,
               \/ ReceiveFinished(j) \/ ReceivePending(j)
               \/ JobStep(j) \/ ContainerExits(j) \/ MonitorStep(j)
        PROVE  Advanced
    <3>1. UNCHANGED <<next, subpc>>
      BY <2>6 DEF ReceiveFinished, ReceivePending, ContainerExits, MonitorStep, MonitorReports,
         MonitorFails, JobStep, NewRunnerFails, PrepareFails, CreateFails, Create, StoreRunning,
         StartFails, Start, MonitorMissing, LogEnds, LogFails, CloseRunner, Release, subVars
    <3>2. JobsForward /\ JobStage(j) < JobStage(j)'
      BY <1>3, <2>6, JobAdvances
    <3> QED
      BY <2>1, <2>2, <3>1, <3>2 DEF SubmittersForward, JobsForward
  <2> QED
    BY <1>3, <2>3, <2>4, <2>5, <2>6 DEF Next, LoopStep
<1>4. TypeOK /\ TypeOK' /\ SchedulingInv /\ SchedulingInv' /\ PreparingIsStarting
        /\ StoringIsTorn /\ [Next]_vars => [crashed' \/ Advanced]_vars
  BY <1>3
<1> QED
  BY <1>1, <1>2, <1>4, TypeCorrect, SchedulingInvariant, PTL DEF Spec, CoreAdvances
=============================================================================
