--------------------- MODULE DockerComputeManager_proofs ---------------------
(***************************************************************************)
(* Theorems about the scheduling core, for every set of jobs, submitters,  *)
(* batches, dependencies and every concurrency.                            *)
(***************************************************************************)
EXTENDS DockerComputeManager, FiniteSetTheorems, TLAPS

-----------------------------------------------------------------------------
(* The type invariant *)

\* Concurrency 0 stands for one, so there is always a slot.
LEMMA CapacityPositive == Capacity \in Nat \ {0}
BY ConfigAssumption DEF Capacity

\* The job that a submitter adds is one of the jobs.
LEMMA BatchJob ==
    ASSUME NEW s \in Submitter, NEW i \in Nat \ {0}, i <= Len(Batch[s])
    PROVE  i \in 1 .. Len(Batch[s]) /\ Batch[s][i] \in Job
BY BatchAssumption

\* MapDependencies yields submitted jobs and the empty identifier, whatever the
\* manifest names.
LEMMA MapDependenciesType ==
    ASSUME NEW s \in Submitter, NEW D,
           next[s] \in Nat \ {0}, next[s] <= Len(Batch[s]) + 1
    PROVE  /\ Submitted(s) \subseteq Job
           /\ MapDependencies(s, D) \subseteq Submitted(s) \cup {NoJob}
<1>1. Submitted(s) \subseteq Job
  <2>1. SUFFICES ASSUME NEW i \in 1 .. (next[s] - 1)
                 PROVE  Batch[s][i] \in Job
    BY DEF Submitted
  <2>2. Batch[s] \in Seq(Job) /\ Len(Batch[s]) \in Nat
    BY BatchAssumption
  <2>3. i \in Nat \ {0} /\ i <= Len(Batch[s])
    BY <2>2
  <2> QED
    BY <2>3, BatchJob
<1> QED
  BY <1>1 DEF MapDependencies

LEMMA InitType == Init => TypeOK
<1> SUFFICES ASSUME Init PROVE TypeOK
  OBVIOUS
<1>1. limiter \in 0 .. Capacity
  BY CapacityPositive DEF Init
<1>2. mon \in [Job -> BOOLEAN] /\ crashed \in BOOLEAN
  BY DEF Init
<1>3. next \in [Submitter -> Nat \ {0}]
  BY DEF Init
<1> QED
  BY <1>1, <1>2, <1>3 DEF Init, TypeOK, JobStatus, GorState, Finished

\* Each step keeps every variable in its type; the limiter stays within its
\* capacity because StartJob waits for a free token.
LEMMA NextType == TypeOK /\ [Next]_vars => TypeOK'
<1> SUFFICES ASSUME TypeOK, [Next]_vars PROVE TypeOK'
  OBVIOUS
<1> USE DEF TypeOK, JobStatus, GorState, Finished,
            vars, subVars, queueVars, loopVars, chanVars, runVars
<1>1. ASSUME NEW s \in Submitter, AddJob(s) PROVE TypeOK'
  <2> DEFINE j == Batch[s][next[s]]
  <2>1. j \in Job
    BY <1>1, BatchJob DEF AddJob
  <2>2. ASSUME NEW D PROVE MapDependencies(s, D) \subseteq Job \cup {NoJob}
    <3>1. next[s] <= Len(Batch[s]) + 1
      BY <1>1, BatchAssumption DEF AddJob
    <3> QED
      BY <3>1, MapDependenciesType
  <2>3. PICK D \in ManifestDeps[j] :
          dependsOn' = [dependsOn EXCEPT ![j] = MapDependencies(s, D)]
    BY <1>1 DEF AddJob
  <2>4. dependsOn' \in [Job -> SUBSET (Job \cup {NoJob})]
    BY <2>2, <2>3
  <2> QED
    BY <1>1, <2>1, <2>4 DEF AddJob
<1>2. ASSUME NEW s \in Submitter, RegistryMiss(s) PROVE TypeOK'
  BY <1>2 DEF RegistryMiss
<1>3. ASSUME NEW s \in Submitter, ReceiveSubmitted(s) PROVE TypeOK'
  BY <1>3 DEF ReceiveSubmitted
<1>4. ASSUME NEW j \in Job, ReceiveFinished(j) \/ ReceivePending(j) PROVE TypeOK'
  BY <1>4 DEF ReceiveFinished, ReceivePending
<1>5. ASSUME Collect PROVE TypeOK'
  BY <1>5 DEF Collect
<1>6. ASSUME NEW j \in Job, UpdateJob(j) PROVE TypeOK'
  <2>1. NewStatus(j) \in JobStatus
    BY DEF NewStatus
  <2> QED
    BY <1>6, <2>1 DEF UpdateJob
<1>7. ASSUME NEW j \in Job, GetNextRunnable(j) PROVE TypeOK'
  BY <1>7 DEF GetNextRunnable
<1>8. ASSUME NothingRunnable PROVE TypeOK'
  BY <1>8 DEF NothingRunnable
<1>9. ASSUME StartJob PROVE TypeOK'
  <2>1. limiter' \in 0 .. Capacity
    BY <1>9, CapacityPositive DEF StartJob, SlotFree
  <2>2. gor' \in [Job -> GorState]
    BY <1>9 DEF StartJob
  <2> QED
    BY <1>9, <2>1, <2>2 DEF StartJob
<1>10. ASSUME NEW j \in Job, JobStep(j) PROVE TypeOK'
  <2>1. CASE NewRunnerFails(j)
    BY <2>1 DEF NewRunnerFails
  <2>2. CASE PrepareFails(j)
    BY <2>2 DEF PrepareFails
  <2>3. CASE CreateFails(j)
    BY <2>3 DEF CreateFails
  <2>4. CASE Create(j)
    BY <2>4 DEF Create
  <2>5. CASE StoreRunning(j)
    BY <2>5 DEF StoreRunning
  <2>6. CASE StartFails(j)
    BY <2>6 DEF StartFails
  <2>7. CASE Start(j)
    BY <2>7 DEF Start
  <2>8. CASE MonitorMissing(j)
    BY <2>8 DEF MonitorMissing
  <2>9. CASE LogEnds(j) \/ LogFails(j)
    BY <2>9 DEF LogEnds, LogFails
  <2>10. CASE CloseRunner(j)
    BY <2>10 DEF CloseRunner
  <2>11. CASE Release(j)
    <3>1. limiter' \in 0 .. Capacity
      BY <2>11, CapacityPositive DEF Release
    <3> QED
      BY <2>11, <3>1 DEF Release
  <2> QED
    BY <1>10, <2>1, <2>2, <2>3, <2>4, <2>5, <2>6, <2>7, <2>8, <2>9, <2>10, <2>11
       DEF JobStep
<1>11. ASSUME NEW j \in Job, ContainerExits(j) PROVE TypeOK'
  BY <1>11 DEF ContainerExits
<1>12. ASSUME NEW j \in Job, MonitorStep(j) PROVE TypeOK'
  <2>1. mon' \in [Job -> BOOLEAN]
    BY <1>12 DEF MonitorStep, MonitorReports, MonitorFails
  <2>2. status' \in [Job -> JobStatus]
    BY <1>12 DEF MonitorStep, MonitorReports, MonitorFails
  <2> QED
    BY <1>12, <2>1, <2>2 DEF MonitorStep, MonitorReports, MonitorFails
<1>13. ASSUME Crash PROVE TypeOK'
  BY <1>13 DEF Crash
<1>14. ASSUME UNCHANGED vars PROVE TypeOK'
  BY <1>14
<1> QED
  BY <1>1, <1>2, <1>3, <1>4, <1>5, <1>6, <1>7, <1>8, <1>9, <1>10, <1>11, <1>12, <1>13,
     <1>14 DEF Next, SubmitterStep, LoopStep

\* Every reachable state is well typed; the limiter never holds more tokens than
\* its capacity.
THEOREM TypeCorrect == Spec => []TypeOK
<1> QED
  BY InitType, NextType, PTL DEF Spec

-----------------------------------------------------------------------------
(* The queue and the goroutines *)

LEMMA InitOrder == Init => OrderInv
<1> SUFFICES ASSUME Init PROVE OrderInv
  OBVIOUS
<1> USE DEF Init
<1>1. SubmittedQueued
  BY BatchAssumption DEF SubmittedQueued
<1>2. QueuedSubmitted /\ QueueClosed /\ OneWriter
  BY DEF QueuedSubmitted, QueueClosed, OneWriter, Finished
<1>3. NoTornStatus /\ PromotedInOrder
  BY DEF NoTornStatus, PromotedInOrder
<1>4. PreparingIsStarting
  BY DEF PreparingIsStarting
<1> QED
  BY <1>1, <1>2, <1>3, <1>4 DEF OrderInv, SchedulingInv

\* The batches are disjoint, so the job a submitter adds is new to the queue.
LEMMA AddedJobIsNew ==
    ASSUME TypeOK, QueuedSubmitted, NEW s \in Submitter, AddJob(s)
    PROVE  Batch[s][next[s]] \in Job \ queue
<1>1. next[s] \in 1 .. Len(Batch[s]) /\ Batch[s][next[s]] \in Job
  BY BatchJob DEF AddJob, TypeOK
<1>2. SUFFICES ASSUME Batch[s][next[s]] \in queue PROVE FALSE
  BY <1>1
<1>3. PICK t \in Submitter : \E i \in 1 .. Len(Batch[t]) :
         /\ Batch[s][next[s]] = Batch[t][i]
         /\ i < next[t] \/ (i = next[t] /\ subpc[t] = "send")
  BY <1>2 DEF QueuedSubmitted
<1>4. PICK i \in 1 .. Len(Batch[t]) :
         /\ Batch[s][next[s]] = Batch[t][i]
         /\ i < next[t] \/ (i = next[t] /\ subpc[t] = "send")
  BY <1>3
<1>5. DOMAIN Batch[s] = 1 .. Len(Batch[s]) /\ DOMAIN Batch[t] = 1 .. Len(Batch[t])
  BY BatchAssumption
<1>6. s = t /\ next[s] = i
  BY <1>1, <1>4, <1>5, BatchAssumption
<1> QED
  BY <1>4, <1>6 DEF AddJob, TypeOK

\* It depends on jobs that the same submitter has queued before it.
LEMMA AddedDependencies ==
    ASSUME TypeOK, SubmittedQueued, NEW s \in Submitter, AddJob(s)
    PROVE  \E E \in SUBSET (queue \cup {NoJob}) :
              dependsOn' = [dependsOn EXCEPT ![Batch[s][next[s]]] = E]
<1>1. next[s] \in 1 .. Len(Batch[s])
  BY BatchJob DEF AddJob, TypeOK
<1>2. PICK D \in ManifestDeps[Batch[s][next[s]]] :
        dependsOn' = [dependsOn EXCEPT ![Batch[s][next[s]]] = MapDependencies(s, D)]
  BY DEF AddJob
<1>3. Submitted(s) \subseteq queue
  BY <1>1 DEF Submitted, SubmittedQueued, TypeOK
<1>4. MapDependencies(s, D) \subseteq Submitted(s) \cup {NoJob}
  BY <1>1, MapDependenciesType DEF SubmittedQueued, TypeOK
<1> QED
  BY <1>2, <1>3, <1>4

\* What the steps of goroutines, containers and monitors have in common: they
\* touch neither the queue nor the submitters, and write the status only of a job
\* whose goroutine has started, to a value beyond Starting.
LEMMA GoroutineFrame ==
    ASSUME TypeOK, OneWriter, NEW j \in Job,
           JobStep(j) \/ ContainerExits(j) \/ MonitorStep(j)
    PROVE  /\ UNCHANGED <<queue, dependsOn, next, subpc, loop, todo, canStart, picked, wake>>
           /\ gor[j] # "idle" \/ UNCHANGED <<status, gor, mon>>
           /\ status' = status \/ \E v \in JobStatus \ {"Submitted", "Pending", "Runnable", "Starting"} :
                                    status' = [status EXCEPT ![j] = v]
           /\ gor' = gor \/ \E g \in GorState \ {"idle", "prepare"} :
                                    gor' = [gor EXCEPT ![j] = g]
           /\ \/ mon' = mon
              \/ mon' = [mon EXCEPT ![j] = FALSE]
              \/ mon' = [mon EXCEPT ![j] = TRUE] /\ gor' = [gor EXCEPT ![j] = "wait"]
           /\ mon[j] => gor'[j] \notin {"storing", "created"}
           /\ gor'[j] = "prepare" => status' = status
<1> USE DEF TypeOK, GorState, JobStatus, Finished, subVars, queueVars, loopVars, chanVars, runVars
<1>1. CASE NewRunnerFails(j) \/ PrepareFails(j) \/ CreateFails(j)
  BY <1>1 DEF NewRunnerFails, PrepareFails, CreateFails
<1>2. CASE Create(j) \/ StoreRunning(j)
  BY <1>2 DEF Create, StoreRunning, OneWriter
<1>3. CASE StartFails(j) \/ Start(j) \/ MonitorMissing(j)
  BY <1>3 DEF StartFails, Start, MonitorMissing
<1>4. CASE LogEnds(j) \/ LogFails(j) \/ CloseRunner(j) \/ Release(j)
  BY <1>4 DEF LogEnds, LogFails, CloseRunner, Release
<1>5. CASE ContainerExits(j)
  BY <1>5 DEF ContainerExits, OneWriter
<1>6. CASE MonitorStep(j)
  BY <1>6 DEF MonitorStep, MonitorReports, MonitorFails, OneWriter
<1> QED
  BY <1>1, <1>2, <1>3, <1>4, <1>5, <1>6 DEF JobStep

\* A goroutine that has begun has begun.
LEMMA GoroutineKept ==
    ASSUME TypeOK, OneWriter, [Next]_vars, NEW j \in Job, gor[j] # "idle"
    PROVE  gor'[j] # "idle"
<1>1. ASSUME NEW k \in Job, JobStep(k) \/ ContainerExits(k) \/ MonitorStep(k)
      PROVE  gor'[j] # "idle"
  BY <1>1, GoroutineFrame DEF TypeOK
<1>2. CASE StartJob
  BY <1>2 DEF StartJob, TypeOK
<1>3. ASSUME NEW k \in Job, ReceiveFinished(k)
      PROVE  gor'[j] # "idle"
  BY <1>3 DEF ReceiveFinished, TypeOK
<1>4. ASSUME \/ \E s \in Submitter : SubmitterStep(s) \/ ReceiveSubmitted(s)
             \/ \E k \in Job : ReceivePending(k) \/ UpdateJob(k) \/ GetNextRunnable(k)
             \/ Collect \/ NothingRunnable \/ Crash \/ UNCHANGED vars
      PROVE  gor'[j] # "idle"
  BY <1>4 DEF SubmitterStep, AddJob, RegistryMiss, ReceiveSubmitted, ReceivePending, UpdateJob,
     GetNextRunnable, Collect, NothingRunnable, Crash, vars, runVars
<1> QED
  BY <1>1, <1>2, <1>3, <1>4 DEF Next, LoopStep

LEMMA NextScheduling ==
    ASSUME TypeOK, SchedulingInv, [Next]_vars
    PROVE  SchedulingInv'
<1> USE DEF SchedulingInv
<1>a. ASSUME NEW s \in Submitter, AddJob(s) PROVE SchedulingInv'
  <2> DEFINE j == Batch[s][next[s]]
  <2> USE <1>a DEF AddJob, TypeOK, loopVars, chanVars, runVars
  <2>1. j \in Job \ queue /\ status[j] = "Submitted"
    BY AddedJobIsNew DEF QueueClosed
  <2>2. next[s] \in 1 .. Len(Batch[s])
    BY BatchJob
  <2>3. PICK E \in SUBSET (queue \cup {NoJob}) : dependsOn' = [dependsOn EXCEPT ![j] = E]
    BY AddedDependencies
  <2>5. dependsOn'[j] \cap Job \subseteq queue
    BY <2>1, <2>3, JobAssumption
  <2>6. SubmittedQueued'
    BY <2>2 DEF SubmittedQueued
  <2>7. QueuedSubmitted'
    <3> SUFFICES ASSUME NEW k \in queue'
                 PROVE  \E t \in Submitter : \E i \in 1 .. Len(Batch[t]) :
                           /\ k = Batch[t][i]
                           /\ i < next'[t] \/ (i = next'[t] /\ subpc'[t] = "send")
      BY Zenon DEF QueuedSubmitted
    <3>0. k \in queue \cup {j} /\ next' = next /\ subpc' = [subpc EXCEPT ![s] = "send"]
      OBVIOUS
    <3>1. CASE k = j
      BY <2>2, <3>0, <3>1
    <3>2. CASE k \in queue
      <4>1. PICK t \in Submitter : \E i \in 1 .. Len(Batch[t]) :
               k = Batch[t][i] /\ (i < next[t] \/ (i = next[t] /\ subpc[t] = "send"))
        BY <3>2 DEF QueuedSubmitted
      <4> QED
        BY <3>0, <4>1
    <3> QED
      BY <3>0, <3>1, <3>2
  <2>8. QueueClosed'
    BY <2>1, <2>3, <2>5 DEF QueueClosed
  <2>9. OneWriter'
    BY DEF OneWriter
  <2> QED
    BY <2>6, <2>7, <2>8, <2>9
<1>b. ASSUME NEW s \in Submitter, RegistryMiss(s) PROVE SchedulingInv'
  <2> USE <1>b DEF RegistryMiss, TypeOK, loopVars, chanVars, runVars, queueVars
  <2>1. SubmittedQueued' /\ QueuedSubmitted'
    BY DEF SubmittedQueued, QueuedSubmitted
  <2>2. QueueClosed' /\ OneWriter'
    BY DEF QueueClosed, OneWriter
  <2> QED
    BY <2>1, <2>2
<1>c. ASSUME NEW s \in Submitter, ReceiveSubmitted(s) PROVE SchedulingInv'
  <2> USE <1>c DEF ReceiveSubmitted, TypeOK, chanVars, runVars, queueVars
  <2>1. SubmittedQueued'
    BY BatchAssumption DEF SubmittedQueued
  <2>2. QueuedSubmitted'
    <3> SUFFICES ASSUME NEW j \in queue
                 PROVE  \E t \in Submitter : \E i \in 1 .. Len(Batch[t]) :
                           /\ j = Batch[t][i]
                           /\ i < next'[t] \/ (i = next'[t] /\ subpc'[t] = "send")
      BY DEF QueuedSubmitted
    <3>1. PICK t \in Submitter : \E i \in 1 .. Len(Batch[t]) :
             j = Batch[t][i] /\ (i < next[t] \/ (i = next[t] /\ subpc[t] = "send"))
      BY DEF QueuedSubmitted
    <3>2. PICK i \in 1 .. Len(Batch[t]) :
             j = Batch[t][i] /\ (i < next[t] \/ (i = next[t] /\ subpc[t] = "send"))
      BY <3>1
    <3>3. i < next'[t] \/ (i = next'[t] /\ subpc'[t] = "send")
      BY <3>2
    <3> QED
      BY <3>2, <3>3
  <2>3. QueueClosed' /\ OneWriter'
    BY DEF QueueClosed, OneWriter
  <2> QED
    BY <2>1, <2>2, <2>3
<1>d. ASSUME NEW j \in Job, ReceiveFinished(j) \/ ReceivePending(j) PROVE SchedulingInv'
  <2> USE <1>d DEF ReceiveFinished, ReceivePending, TypeOK, subVars, chanVars, runVars,
                   queueVars
  <2>1. SubmittedQueued' /\ QueuedSubmitted'
    BY DEF SubmittedQueued, QueuedSubmitted
  <2>2. QueueClosed'
    BY DEF QueueClosed
  <2>3. OneWriter'
    BY DEF OneWriter
  <2> QED
    BY <2>1, <2>2, <2>3
<1>e. ASSUME Collect \/ NothingRunnable PROVE SchedulingInv'
  <2> USE <1>e DEF Collect, NothingRunnable, TypeOK, subVars, chanVars, runVars, queueVars
  <2>1. SubmittedQueued' /\ QueuedSubmitted'
    BY DEF SubmittedQueued, QueuedSubmitted
  <2>2. QueueClosed' /\ OneWriter'
    BY DEF QueueClosed, OneWriter
  <2> QED
    BY <2>1, <2>2
<1>g. ASSUME NEW j \in Job, UpdateJob(j) PROVE SchedulingInv'
  <2> USE <1>g DEF UpdateJob, TypeOK, subVars, chanVars, runVars
  <2>1. j \in queue
    BY DEF QueueClosed
  <2>2. NewStatus(j) = status[j] \/ status[j] \in {"Submitted", "Pending"}
    BY DEF NewStatus
  <2>3. NewStatus(j) \in {status[j], "Pending", "Runnable"}
    BY DEF NewStatus
  <2>4. SubmittedQueued' /\ QueuedSubmitted'
    BY DEF SubmittedQueued, QueuedSubmitted
  <2>5. QueueClosed'
    BY <2>1 DEF QueueClosed
  <2>6. OneWriter'
    BY <2>2, <2>3 DEF OneWriter, Finished
  <2> QED
    BY <2>4, <2>5, <2>6
<1>h. ASSUME NEW j \in Job, GetNextRunnable(j) PROVE SchedulingInv'
  <2> USE <1>h DEF GetNextRunnable, TypeOK, subVars, chanVars, runVars
  <2>1. SubmittedQueued' /\ QueuedSubmitted'
    BY DEF SubmittedQueued, QueuedSubmitted
  <2>2. QueueClosed'
    BY DEF QueueClosed
  <2>3. OneWriter'
    BY DEF OneWriter, Finished
  <2> QED
    BY <2>1, <2>2, <2>3
<1>i. ASSUME StartJob PROVE SchedulingInv'
  <2> USE <1>i DEF StartJob, TypeOK, subVars, queueVars
  <2>1. SubmittedQueued' /\ QueuedSubmitted'
    BY DEF SubmittedQueued, QueuedSubmitted
  <2>2. QueueClosed'
    BY DEF QueueClosed
  <2>3. OneWriter'
    BY DEF OneWriter
  <2> QED
    BY <2>1, <2>2, <2>3
<1>j. ASSUME NEW j \in Job, JobStep(j) \/ ContainerExits(j) \/ MonitorStep(j) PROVE SchedulingInv'
  <2> USE DEF TypeOK
  <2>0. UNCHANGED <<queue, dependsOn, next, subpc, loop, todo, picked>>
    BY <1>j, GoroutineFrame
  <2>1. SubmittedQueued' /\ QueuedSubmitted'
    BY <2>0 DEF SubmittedQueued, QueuedSubmitted
  <2>2. QueueClosed'
    BY <1>j, GoroutineFrame DEF QueueClosed, OneWriter
  <2>3. OneWriter'
    <3>1. \A k \in Job \ {j} : /\ gor'[k] = gor[k]
                               /\ status'[k] = status[k]
                               /\ mon'[k] = mon[k]
      BY <1>j, GoroutineFrame
    <3>2. status'[j] \in {"Submitted", "Pending", "Runnable"} => gor'[j] = "idle"
      BY <1>j, GoroutineFrame DEF OneWriter, GorState
    <3>3. mon'[j] => gor'[j] \notin {"idle", "prepare", "storing", "created"}
      BY <1>j, GoroutineFrame DEF OneWriter, GorState
    <3>4. loop' = "limit" =>
            picked' \in Job /\ gor'[picked'] = "idle" /\ status'[picked'] = "Starting"
      BY <1>j, <3>1, GoroutineFrame DEF OneWriter
    <3>5. gor'[j] = "idle" => status'[j] \notin {"Running", "Torn"} \cup Finished
      BY <1>j, GoroutineFrame DEF OneWriter
    <3> QED
      BY <3>1, <3>2, <3>3, <3>4, <3>5 DEF OneWriter
  <2> QED
    BY <2>1, <2>2, <2>3
<1>k. ASSUME Crash \/ UNCHANGED vars PROVE SchedulingInv'
  <2> USE <1>k DEF Crash, vars, subVars, queueVars, loopVars, chanVars, runVars
  <2>1. SubmittedQueued' /\ QueuedSubmitted' /\ QueueClosed'
    BY DEF SubmittedQueued, QueuedSubmitted, QueueClosed
  <2>2. OneWriter'
    BY DEF PromotedInOrder, DepsFinished, NoTornStatus, OneWriter
  <2> QED
    BY <2>1, <2>2
<1> QED
  BY <1>a, <1>b, <1>c, <1>d, <1>e, <1>g, <1>h, <1>i, <1>j, <1>k
     DEF Next, SubmitterStep, LoopStep

-----------------------------------------------------------------------------
(* DependencyOrder, when a status is stored in one piece *)

\* Once a status is final it stays final: the goroutine writes Running only to a
\* job that is Starting, and no monitor of that job exists yet.
LEMMA FinalStatusStays ==
    ASSUME TypeOK, NoTornStatus, PreparingIsStarting, SchedulingInv, [Next]_vars,
           NEW j \in Job, status[j] \in Finished
    PROVE  status'[j] \in Finished
<1> USE DEF SchedulingInv, TypeOK, Finished, vars, subVars, queueVars, loopVars, chanVars, runVars
<1>1. ASSUME NEW s \in Submitter, SubmitterStep(s) \/ ReceiveSubmitted(s)
      PROVE  status' = status
  BY <1>1 DEF SubmitterStep, AddJob, RegistryMiss, ReceiveSubmitted
<1>2. ASSUME \/ \E k \in Job : ReceiveFinished(k) \/ ReceivePending(k)
             \/ Collect \/ NothingRunnable \/ StartJob
             \/ Crash \/ UNCHANGED vars \/ \E k \in Job : ContainerExits(k)
      PROVE  status' = status
  BY <1>2 DEF ReceiveFinished, ReceivePending, Collect, NothingRunnable, StartJob, Crash,
              ContainerExits
<1>3. ASSUME NEW k \in Job, UpdateJob(k) \/ GetNextRunnable(k)
      PROVE  status'[j] = status[j]
  BY <1>3 DEF UpdateJob, NewStatus, GetNextRunnable
<1>4. ASSUME NEW k \in Job, JobStep(k)
      PROVE  status'[j] \in Finished
  <2>1. CASE Create(k) \/ StoreRunning(k)
    <3>1. k # j
      BY <2>1 DEF Create, StoreRunning, PreparingIsStarting, NoTornStatus
    <3> QED
      BY <2>1, <3>1 DEF Create, StoreRunning
  <2>2. CASE NewRunnerFails(k) \/ CreateFails(k) \/ StartFails(k) \/ MonitorMissing(k)
             \/ LogFails(k)
    BY <2>2 DEF NewRunnerFails, CreateFails, StartFails, MonitorMissing, LogFails
  <2>3. CASE PrepareFails(k) \/ Start(k) \/ LogEnds(k) \/ CloseRunner(k) \/ Release(k)
    BY <2>3 DEF PrepareFails, Start, LogEnds, CloseRunner, Release
  <2> QED
    BY <1>4, <2>1, <2>2, <2>3 DEF JobStep
<1>5. ASSUME NEW k \in Job, MonitorStep(k)
      PROVE  status'[j] \in Finished
  BY <1>5 DEF MonitorStep, MonitorReports, MonitorFails
<1> QED
  BY <1>1, <1>2, <1>3, <1>4, <1>5 DEF Next, LoopStep

\* No step of the core but StartJob lets a goroutine begin, and none writes the
\* status of a job whose goroutine has only begun without moving it on.
LEMMA NextPreparing ==
    ASSUME TypeOK, SchedulingInv, PreparingIsStarting, [Next]_vars
    PROVE  PreparingIsStarting'
<1> USE DEF SchedulingInv, PreparingIsStarting
<1>1. CASE StartJob
  BY <1>1 DEF StartJob, TypeOK, queueVars, OneWriter
<1>2. ASSUME NEW j \in Job, JobStep(j) \/ ContainerExits(j) \/ MonitorStep(j)
      PROVE  PreparingIsStarting'
  <2>1. \A k \in Job \ {j} : gor'[k] = gor[k] /\ status'[k] = status[k]
    BY <1>2, GoroutineFrame DEF TypeOK
  <2>2. gor'[j] = "prepare" => gor[j] = "prepare" /\ status' = status
    BY <1>2, GoroutineFrame DEF TypeOK
  <2> QED
    BY <2>1, <2>2
<1>3. ASSUME NEW j \in Job, UpdateJob(j) \/ GetNextRunnable(j) PROVE PreparingIsStarting'
  <2>1. NewStatus(j) = status[j] \/ status[j] \in {"Submitted", "Pending"}
    BY DEF NewStatus
  <2> QED
    BY <1>3, <2>1 DEF UpdateJob, GetNextRunnable, TypeOK, runVars, OneWriter
<1>4. ASSUME NEW j \in Job, ReceiveFinished(j) PROVE PreparingIsStarting'
  BY <1>4 DEF ReceiveFinished, TypeOK, queueVars
<1>5. ASSUME \/ \E s \in Submitter : SubmitterStep(s) \/ ReceiveSubmitted(s)
             \/ \E j \in Job : ReceivePending(j)
             \/ Collect \/ NothingRunnable \/ Crash \/ UNCHANGED vars
      PROVE  PreparingIsStarting'
  <2>1. UNCHANGED <<status, gor>>
    BY <1>5 DEF SubmitterStep, AddJob, RegistryMiss, ReceiveSubmitted, ReceivePending, Collect,
       NothingRunnable, Crash, vars, queueVars, runVars
  <2> QED
    BY <2>1
<1> QED
  BY <1>1, <1>2, <1>3, <1>4, <1>5 DEF Next, LoopStep

\* A status is stored in one piece.
LEMMA NextWhole ==
    ASSUME ~TornReads, TypeOK, NoTornStatus, [Next]_vars
    PROVE  NoTornStatus'
<1> USE DEF NoTornStatus, TypeOK
<1>1. ASSUME NEW j \in Job, JobStep(j) PROVE NoTornStatus'
  BY <1>1 DEF JobStep, NewRunnerFails, PrepareFails, CreateFails, Create, StoreRunning,
     StartFails, Start, MonitorMissing, LogEnds, LogFails, CloseRunner, Release, queueVars
<1>2. ASSUME NEW j \in Job, ContainerExits(j) \/ MonitorStep(j) PROVE NoTornStatus'
  BY <1>2 DEF ContainerExits, MonitorStep, MonitorReports, MonitorFails, Finished, queueVars
<1>3. ASSUME NEW j \in Job, UpdateJob(j) \/ GetNextRunnable(j) PROVE NoTornStatus'
  <2>1. NewStatus(j) # "Torn"
    BY DEF NewStatus
  <2> QED
    BY <1>3, <2>1 DEF UpdateJob, GetNextRunnable, runVars
<1>4. ASSUME NEW j \in Job, ReceiveFinished(j) PROVE NoTornStatus'
  BY <1>4 DEF ReceiveFinished, queueVars
<1>5. CASE StartJob
  BY <1>5 DEF StartJob, queueVars
<1>6. ASSUME \/ \E s \in Submitter : SubmitterStep(s) \/ ReceiveSubmitted(s)
             \/ \E j \in Job : ReceivePending(j)
             \/ Collect \/ NothingRunnable \/ Crash \/ UNCHANGED vars
      PROVE  NoTornStatus'
  <2>1. UNCHANGED <<status, gor>>
    BY <1>6 DEF SubmitterStep, AddJob, RegistryMiss, ReceiveSubmitted, ReceivePending, Collect,
       NothingRunnable, Crash, vars, queueVars, runVars
  <2> QED
    BY <2>1
<1> QED
  BY <1>1, <1>2, <1>3, <1>4, <1>5, <1>6 DEF Next, LoopStep

\* A pass moves a job to Runnable only when its dependencies have a final status.
LEMMA PassInOrder ==
    ASSUME TypeOK, SchedulingInv, NoTornStatus, NEW j \in queue
    PROVE  \/ NewStatus(j) = status[j]
           \/ status[j] = "Submitted" /\ NewStatus(j) = "Pending"
           \/ NewStatus(j) = "Runnable" /\ DepsFinished(j)
<1>1. CASE status[j] = "Submitted"
  BY <1>1 DEF NewStatus, DepsFinished
<1>2. CASE status[j] = "Pending" /\ ~HasUnfinishedDependencies(j)
  <2>1. JobDeps(j) = dependsOn[j] \cap Job
    BY DEF JobDeps, SchedulingInv, QueueClosed, TypeOK
  <2>2. DepsFinished(j)
    BY <1>2, <2>1 DEF HasUnfinishedDependencies, DepsFinished, UnfinishedDepStatusList,
                      JobStatus, NoTornStatus, TypeOK
  <2> QED
    BY <1>2, <2>2 DEF NewStatus
<1>3. CASE status[j] # "Submitted" /\ ~(status[j] = "Pending" /\ ~HasUnfinishedDependencies(j))
  BY <1>3 DEF NewStatus
<1> QED
  BY <1>1, <1>2, <1>3

LEMMA NextOrder ==
    ASSUME ~TornReads, TypeOK, OrderInv, [Next]_vars
    PROVE  PromotedInOrder'
<1> USE DEF OrderInv
<1>f. \A j \in Job : status[j] \in Finished => status'[j] \in Finished
  BY FinalStatusStays
<1>a. ASSUME NEW s \in Submitter, AddJob(s) PROVE PromotedInOrder'
  <2> DEFINE j == Batch[s][next[s]]
  <2>1. j \in Job \ queue /\ status[j] = "Submitted"
    BY <1>a, AddedJobIsNew DEF SchedulingInv, QueueClosed
  <2>2. PICK D \in ManifestDeps[j] :
          dependsOn' = [dependsOn EXCEPT ![j] = MapDependencies(s, D)]
    BY <1>a DEF AddJob
  <2> QED
    BY <1>a, <2>1, <2>2 DEF AddJob, TypeOK, PromotedInOrder, DepsFinished
<1>b. ASSUME NEW j \in Job, UpdateJob(j) PROVE PromotedInOrder'
  <2>1. j \in queue
    BY <1>b DEF UpdateJob, SchedulingInv, QueueClosed
  <2>2. \/ NewStatus(j) = status[j]
        \/ status[j] = "Submitted" /\ NewStatus(j) = "Pending"
        \/ NewStatus(j) = "Runnable" /\ DepsFinished(j)
    BY <2>1, PassInOrder
  <2> QED
    BY <1>b, <1>f, <2>2 DEF UpdateJob, TypeOK, PromotedInOrder, DepsFinished
<1>c. ASSUME NEW j \in Job, GetNextRunnable(j) PROVE PromotedInOrder'
  BY <1>c, <1>f DEF GetNextRunnable, TypeOK, PromotedInOrder, DepsFinished
<1>d. ASSUME NEW j \in Job, JobStep(j) \/ ContainerExits(j) \/ MonitorStep(j)
      PROVE  PromotedInOrder'
  BY <1>d, <1>f, GoroutineFrame
     DEF TypeOK, SchedulingInv, OneWriter, PromotedInOrder, DepsFinished
<1>e. ASSUME \/ \E s \in Submitter : RegistryMiss(s) \/ ReceiveSubmitted(s)
             \/ \E k \in Job : ReceiveFinished(k) \/ ReceivePending(k)
             \/ Collect \/ NothingRunnable \/ StartJob \/ Crash \/ UNCHANGED vars
      PROVE  PromotedInOrder'
  <2>1. UNCHANGED <<status, dependsOn>>
    BY <1>e DEF RegistryMiss, ReceiveSubmitted, ReceiveFinished, ReceivePending, Collect,
       NothingRunnable, StartJob, Crash, vars, queueVars
  <2> QED
    BY <2>1 DEF PromotedInOrder, DepsFinished
<1> QED
  BY <1>a, <1>b, <1>c, <1>d, <1>e DEF Next, SubmitterStep, LoopStep

LEMMA OrderInvImplies == TypeOK /\ OrderInv => DependencyOrder
BY DEF OrderInv, SchedulingInv, OneWriter, PromotedInOrder, DepsFinished, DependencyOrder,
       TypeOK

\* The queue and the goroutines agree in every reachable state: what is queued was
\* submitted, and only the loop writes the status of a job that has not started.
THEOREM SchedulingInvariant == Spec => []SchedulingInv
<1>1. Init => SchedulingInv
  BY InitOrder DEF OrderInv
<1>2. TypeOK /\ SchedulingInv /\ [Next]_vars => SchedulingInv'
  BY NextScheduling
<1> QED
  BY <1>1, <1>2, TypeCorrect, PTL DEF Spec

\* The inductive invariant holds when a status is stored in one piece.
THEOREM OrderInvariant == ASSUME ~TornReads PROVE Spec => []OrderInv
<1>1. TypeOK /\ OrderInv /\ [Next]_vars => OrderInv'
  BY NextOrder, NextPreparing, NextWhole, NextScheduling DEF OrderInv
<1> QED
  BY <1>1, InitOrder, TypeCorrect, PTL DEF Spec

\* No job is started before everything it depends on is over: for every event,
\* every order of submission, every interleaving of goroutines and every fault.
THEOREM JobsStartInOrder == ASSUME ~TornReads PROVE Spec => []DependencyOrder
<1> QED
  BY OrderInvariant, TypeCorrect, OrderInvImplies, PTL

-----------------------------------------------------------------------------
(* The tokens of the limiter *)

Holders == {j \in Job : gor[j] \in Holding}

LEMMA HoldersFinite == IsFiniteSet(Holders) /\ Cardinality(Holders) \in Nat
BY JobAssumption, FS_Subset, FS_CardinalityType DEF Holders

\* Only StartJob and Release change the holders: every other step of a goroutine
\* stays on the same side, whichever way its run ends.
LEMMA NextLimiter ==
    ASSUME TypeOK, SchedulingInv, LimiterAccount, [Next]_vars
    PROVE  LimiterAccount'
<1> USE DEF TypeOK
<1>0. LimiterAccount <=> limiter = Cardinality(Holders)
  BY DEF LimiterAccount, Holders
<1>1. LimiterAccount' <=> limiter' = Cardinality(Holders')
  BY DEF LimiterAccount, Holders
<1>2. CASE StartJob
  <2>1. picked \in Job /\ gor[picked] = "idle"
    BY <1>2 DEF StartJob, SchedulingInv, OneWriter
  <2>2. Holders' = Holders \cup {picked} /\ picked \notin Holders
    BY <1>2, <2>1 DEF StartJob, Holders, Holding
  <2>3. Cardinality(Holders') = Cardinality(Holders) + 1
    BY <2>2, HoldersFinite, FS_AddElement
  <2> QED
    BY <1>0, <1>1, <1>2, <2>3 DEF StartJob
<1>3. ASSUME NEW j \in Job, Release(j) PROVE LimiterAccount'
  <2>1. Holders' = Holders \ {j} /\ j \in Holders
    BY <1>3 DEF Release, Holders, Holding
  <2>2. Cardinality(Holders') = Cardinality(Holders) - 1
    BY <2>1, HoldersFinite, FS_RemoveElement
  <2> QED
    BY <1>0, <1>1, <1>3, <2>2 DEF Release
<1>4. ASSUME Holders' = Holders, limiter' = limiter PROVE LimiterAccount'
  BY <1>0, <1>1, <1>4
<1>5. ASSUME NEW j \in Job, JobStep(j), ~Release(j) PROVE LimiterAccount'
  <2>1. limiter' = limiter
    BY <1>5 DEF JobStep, NewRunnerFails, PrepareFails, CreateFails, Create, StoreRunning,
       StartFails, Start, MonitorMissing, LogEnds, LogFails, CloseRunner, chanVars
  <2>2. \E g \in Holding : gor[j] \in Holding /\ gor' = [gor EXCEPT ![j] = g]
    BY <1>5 DEF JobStep, NewRunnerFails, PrepareFails, CreateFails, Create, StoreRunning,
       StartFails, Start, MonitorMissing, LogEnds, LogFails, CloseRunner, Holding
  <2>3. Holders' = Holders
    BY <2>2 DEF Holders
  <2> QED
    BY <1>4, <2>1, <2>3
<1>6. ASSUME NEW j \in Job, ReceiveFinished(j) \/ ReceivePending(j) PROVE LimiterAccount'
  <2>1. Holders' = Holders
    BY <1>6 DEF ReceiveFinished, ReceivePending, Holders, Holding, runVars
  <2> QED
    BY <1>4, <1>6, <2>1 DEF ReceiveFinished, ReceivePending, chanVars
<1>7. ASSUME \/ \E s \in Submitter : SubmitterStep(s) \/ ReceiveSubmitted(s)
             \/ \E j \in Job : \/ UpdateJob(j) \/ GetNextRunnable(j)
                               \/ ContainerExits(j) \/ MonitorStep(j)
             \/ Collect \/ NothingRunnable \/ Crash \/ UNCHANGED vars
      PROVE  LimiterAccount'
  <2>1. UNCHANGED <<gor, limiter>>
    BY <1>7 DEF SubmitterStep, AddJob, RegistryMiss, ReceiveSubmitted, UpdateJob,
       GetNextRunnable, ContainerExits, MonitorStep, MonitorReports, MonitorFails, Collect,
       NothingRunnable, Crash, vars, runVars, chanVars
  <2>2. Holders' = Holders
    BY <2>1 DEF Holders
  <2> QED
    BY <1>4, <2>1, <2>2
<1> QED
  BY <1>2, <1>3, <1>5, <1>6, <1>7 DEF Next, LoopStep

\* The limiter counts the goroutines that have a token to give back, so none is
\* ever lost or given back twice.
THEOREM LimiterAccounts == Spec => []LimiterAccount
<1>1. Init => LimiterAccount
  <2> SUFFICES ASSUME Init PROVE LimiterAccount
    OBVIOUS
  <2>1. {j \in Job : gor[j] \in Holding} = {}
    BY DEF Init, Holding
  <2> QED
    BY <2>1, FS_EmptySet DEF Init, LimiterAccount
<1>2. TypeOK /\ SchedulingInv /\ LimiterAccount /\ [Next]_vars => LimiterAccount'
  BY NextLimiter
<1> QED
  BY <1>1, <1>2, TypeCorrect, SchedulingInvariant, PTL DEF Spec

-----------------------------------------------------------------------------
(* The core implements the scheduler *)

\* What the scheduler sees does not change when these do not.
LEMMA SchedulerStutter ==
    ASSUME UNCHANGED <<dependsOn, limiter>>,
           Holders' = Holders,
           \A k \in Job : PhaseOf(k)' = PhaseOf(k)
    PROVE  UNCHANGED Scheduler!vars
BY DEF Scheduler!vars, Holders

\* A step of one job is seen by the scheduler as Finish, Release or nothing.
LEMMA GoroutineImplements ==
    ASSUME TypeOK, OrderInv, NEW j \in Job,
           JobStep(j) \/ ContainerExits(j) \/ MonitorStep(j),
           status[j] \in Finished => status'[j] \in Finished
    PROVE  [Scheduler!Next]_(Scheduler!vars)
<1> USE DEF TypeOK, OrderInv, SchedulingInv
<1>1. /\ UNCHANGED <<queue, dependsOn>>
      /\ gor[j] # "idle" \/ UNCHANGED <<status, gor>>
      /\ \A k \in Job \ {j} : gor'[k] = gor[k] /\ status'[k] = status[k]
      /\ gor[j] # "idle" => gor'[j] # "idle"
  BY GoroutineFrame
<1>2. \A k \in Job \ {j} : PhaseOf(k)' = PhaseOf(k)
  BY <1>1 DEF PhaseOf
<1>3. gor[j] # "idle" => j \in queue
  BY DEF QueueClosed, OneWriter
<1>4. CASE Release(j)
  <2>1. /\ Holders' = Holders \ {j} /\ j \in Holders
        /\ status' = status /\ limiter' = limiter - 1
    BY <1>4 DEF Release, Holders, Holding, queueVars
  <2>2. PhaseOf(j) \in {"active", "over"}
    BY <1>3, <1>4 DEF Release, PhaseOf
  <2>3. PhaseOf(j)' = PhaseOf(j)
    BY <1>1, <1>3, <1>4, <2>1 DEF Release, PhaseOf
  <2>4. Scheduler!Release(j)
    BY <1>1, <1>2, <2>1, <2>2, <2>3 DEF Scheduler!Release, Holders
  <2> QED
    BY <2>4 DEF Scheduler!Next
<1>5. CASE ~Release(j)
  <2>1. Holders' = Holders
    <3>1. CASE JobStep(j)
      <4>1. \E g \in Holding : gor[j] \in Holding /\ gor' = [gor EXCEPT ![j] = g]
        BY <1>5, <3>1 DEF JobStep, NewRunnerFails, PrepareFails, CreateFails, Create,
           StoreRunning, StartFails, Start, MonitorMissing, LogEnds, LogFails, CloseRunner,
           Holding
      <4> QED
        BY <4>1 DEF Holders
    <3>2. CASE ContainerExits(j) \/ MonitorStep(j)
      BY <3>2 DEF ContainerExits, MonitorStep, MonitorReports, MonitorFails, Holders
    <3> QED
      BY <3>1, <3>2
  <2>4. limiter' = limiter
    BY <1>5 DEF JobStep, NewRunnerFails, PrepareFails, CreateFails, Create, StoreRunning,
       StartFails, Start, MonitorMissing, LogEnds, LogFails, CloseRunner, ContainerExits,
       MonitorStep, MonitorReports, MonitorFails, chanVars
  <2>2. CASE PhaseOf(j)' = PhaseOf(j)
    BY <1>1, <1>2, <2>1, <2>2, <2>4, SchedulerStutter
  <2>3. CASE PhaseOf(j)' # PhaseOf(j)
    <3>1. PhaseOf(j) = "active" /\ PhaseOf(j)' = "over"
      BY <1>1, <1>3, <2>3 DEF PhaseOf
    <3>2. Scheduler!Finish(j)
      BY <1>1, <1>2, <2>1, <2>4, <3>1 DEF Scheduler!Finish, Holders
    <3> QED
      BY <3>2 DEF Scheduler!Next
  <2> QED
    BY <2>2, <2>3
<1> QED
  BY <1>4, <1>5

LEMMA AddImplements ==
    ASSUME TypeOK, OrderInv, NEW s \in Submitter, AddJob(s)
    PROVE  [Scheduler!Next]_(Scheduler!vars)
<1> PICK j : j = Batch[s][next[s]]
  OBVIOUS
<1> USE DEF TypeOK, OrderInv, SchedulingInv
<1>1. j \in Job \ queue /\ gor[j] = "idle"
  <2>1. j \in Job \ queue
    BY AddedJobIsNew
  <2> QED
    BY <2>1 DEF QueueClosed, OneWriter
<1>2. queue' = queue \cup {j} /\ UNCHANGED <<gor, status, limiter>>
  BY DEF AddJob, runVars, chanVars
<1>3. PICK E \in SUBSET (queue \cup {NoJob}) : dependsOn' = [dependsOn EXCEPT ![j] = E]
  BY AddedDependencies
<1>4. E \cap Job \in SUBSET Job /\ \A d \in E \cap Job : PhaseOf(d) # "absent"
  BY <1>3, JobAssumption DEF PhaseOf
<1>5. PhaseOf(j) = "absent" /\ PhaseOf(j)' = "waiting"
  BY <1>1, <1>2 DEF PhaseOf
<1>6. \A k \in Job \ {j} : PhaseOf(k)' = PhaseOf(k)
  BY <1>2 DEF PhaseOf
<1>7. Scheduler!Submit(j, E \cap Job)
  BY <1>1, <1>2, <1>3, <1>4, <1>5, <1>6 DEF Scheduler!Submit
<1> QED
  BY <1>1, <1>4, <1>7 DEF Scheduler!Next

LEMMA StartImplements ==
    ASSUME TypeOK, OrderInv, StartJob
    PROVE  [Scheduler!Next]_(Scheduler!vars)
<1> USE DEF TypeOK, OrderInv, SchedulingInv
<1> PICK p : p = picked
  OBVIOUS
<1>1. p \in Job /\ gor[p] = "idle" /\ status[p] = "Starting"
  BY DEF StartJob, OneWriter
<1>2. p \in queue
  BY <1>1 DEF QueueClosed
<1>3. gor' = [gor EXCEPT ![p] = "prepare"] /\ UNCHANGED <<queue, status, dependsOn>>
  BY DEF StartJob, queueVars
<1>4. \A d \in dependsOn[p] \cap Job : PhaseOf(d) = "over"
  <2> SUFFICES ASSUME NEW d \in dependsOn[p] \cap Job PROVE PhaseOf(d) = "over"
    OBVIOUS
  <2>1. status[d] \in Finished
    BY <1>1 DEF PromotedInOrder, DepsFinished
  <2>2. d \in queue
    BY <1>2 DEF QueueClosed
  <2>3. gor[d] # "idle"
    BY <2>1 DEF OneWriter
  <2> QED
    BY <2>1, <2>2, <2>3 DEF PhaseOf
<1>5. PhaseOf(p) = "waiting" /\ PhaseOf(p)' = "active"
  BY <1>1, <1>2, <1>3 DEF PhaseOf, Finished
<1>6. \A k \in Job \ {p} : PhaseOf(k)' = PhaseOf(k)
  BY <1>3 DEF PhaseOf
<1>7. limiter < Capacity /\ limiter' = limiter + 1
  BY DEF StartJob, SlotFree
<1>8. Holders' = Holders \cup {p}
  BY <1>1, <1>3 DEF Holders, Holding
<1>9. Scheduler!Start(p)
  BY <1>1, <1>3, <1>4, <1>5, <1>6, <1>7, <1>8 DEF Scheduler!Start, Holders
<1> QED
  BY <1>1, <1>9 DEF Scheduler!Next

\* Every other step of the loop moves jobs only among the states that the
\* scheduler calls waiting.
LEMMA LoopImplements ==
    ASSUME TypeOK, OrderInv,
           \/ \E s \in Submitter : RegistryMiss(s) \/ ReceiveSubmitted(s)
           \/ \E j \in Job : \/ ReceiveFinished(j) \/ ReceivePending(j)
                             \/ UpdateJob(j) \/ GetNextRunnable(j)
           \/ Collect \/ NothingRunnable \/ Crash \/ UNCHANGED vars
    PROVE  UNCHANGED Scheduler!vars
<1> USE DEF TypeOK, OrderInv, SchedulingInv
<1>1. UNCHANGED <<queue, dependsOn, limiter>>
  BY DEF RegistryMiss, ReceiveSubmitted, ReceiveFinished, ReceivePending, UpdateJob,
     GetNextRunnable, Collect, NothingRunnable, Crash, vars, queueVars, chanVars
<1>2. \A k \in Job : gor'[k] = gor[k] \/ (gor[k] = "send" /\ gor'[k] = "done")
  BY DEF RegistryMiss, ReceiveSubmitted, ReceiveFinished, ReceivePending, UpdateJob,
     GetNextRunnable, Collect, NothingRunnable, Crash, vars, runVars
<1>3. Holders' = Holders
  BY <1>2 DEF Holders, Holding
<1>4. \A k \in Job : status'[k] = status[k] \/ gor[k] = "idle"
  <2>1. ASSUME NEW j \in Job, UpdateJob(j), NEW k \in Job
        PROVE  status'[k] = status[k] \/ gor[k] = "idle"
    <3>1. NewStatus(j) = status[j] \/ status[j] \in {"Submitted", "Pending"}
      BY DEF NewStatus
    <3> QED
      BY <2>1, <3>1 DEF UpdateJob, OneWriter
  <2>2. ASSUME NEW j \in Job, GetNextRunnable(j), NEW k \in Job
        PROVE  status'[k] = status[k] \/ gor[k] = "idle"
    BY <2>2 DEF GetNextRunnable, OneWriter
  <2>3. CASE ~\E j \in Job : UpdateJob(j) \/ GetNextRunnable(j)
    BY <2>3 DEF RegistryMiss, ReceiveSubmitted, ReceiveFinished, ReceivePending, Collect,
       NothingRunnable, Crash, vars, queueVars
  <2> QED
    BY <2>1, <2>2, <2>3
<1>5. \A k \in Job : PhaseOf(k)' = PhaseOf(k)
  BY <1>1, <1>2, <1>4 DEF PhaseOf
<1> QED
  BY <1>1, <1>3, <1>5, SchedulerStutter

LEMMA NextImplements ==
    ASSUME ~TornReads, TypeOK, OrderInv, [Next]_vars
    PROVE  [Scheduler!Next]_(Scheduler!vars)
<1>1. ASSUME NEW j \in Job, JobStep(j) \/ ContainerExits(j) \/ MonitorStep(j)
      PROVE  [Scheduler!Next]_(Scheduler!vars)
  <2>1. status[j] \in Finished => status'[j] \in Finished
    BY FinalStatusStays DEF OrderInv
  <2> QED
    BY <1>1, <2>1, GoroutineImplements
<1> QED
  BY <1>1, AddImplements, StartImplements, LoopImplements
     DEF Next, SubmitterStep, LoopStep

\* Refinement: when a status is stored in one piece, every behaviour of the queue,
\* the loop, the channels and the goroutines is a behaviour of the scheduler.
THEOREM CoreImplementsScheduler == ASSUME ~TornReads PROVE Spec => ImplementsScheduler
<1>1. Init => Scheduler!Init
  <2> SUFFICES ASSUME Init PROVE Scheduler!Init
    OBVIOUS
  <2>1. \A j \in Job : PhaseOf(j) = "absent" /\ dependsOn[j] \cap Job = {}
    BY DEF Init, PhaseOf
  <2>2. {j \in Job : gor[j] \in Holding} = {}
    BY DEF Init, Holding
  <2> QED
    BY <2>1, <2>2 DEF Init, Scheduler!Init
<1>2. TypeOK /\ OrderInv /\ [Next]_vars
        => [Scheduler!Next]_(Scheduler!vars)
  BY NextImplements
<1> QED
  BY <1>1, <1>2, TypeCorrect, OrderInvariant, PTL
     DEF Spec, ImplementsScheduler, Scheduler!Spec
=============================================================================
