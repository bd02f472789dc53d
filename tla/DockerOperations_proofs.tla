------------------------ MODULE DockerOperations_proofs ------------------------
(***************************************************************************)
(* What the client calls leave of the core's guarantees, for every         *)
(* instance: any jobs, submitters, queries, faults and overlapping calls.  *)
(***************************************************************************)
EXTENDS DockerOperations, DockerEvents_proofs

-----------------------------------------------------------------------------
(* The steps *)

CoreStep ==
    \/ \E s \in Submitter : SubmitterRuns(s)
    \/ \E j \in Job : JobRuns(j)
    \/ OthersRun

\* A step of the core beside the calls is a step of the core, or sets a runner.
LEMMA CoreStepFrame ==
    ASSUME ~crashed, CoreStep
    PROVE  /\ [Next]_vars
           /\ UNCHANGED <<op, before, found, toStop, victim, slots, asked, stopped>>
           /\ ended' = ended \cup {j \in Job : status'[j] \in Finished}
           /\ careless => careless'
           /\ \/ runner' = runner
              \/ \E j \in Job : gor[j] = "prepare" /\ runner' = runner \cup {j} /\ UNCHANGED vars
<1>1. ASSUME NEW j \in Job, KeepsRunner(j)
      PROVE  JobStep(j) /\ runner' = runner
  BY <1>1 DEF KeepsRunner, JobStep
<1>2. CASE \E s \in Submitter : SubmitterRuns(s)
  BY <1>2 DEF SubmitterRuns, Recorded, Next
<1>3. ASSUME NEW j \in Job, JobRuns(j)
      PROVE  /\ [Next]_vars /\ UNCHANGED callVars /\ Recorded
             /\ \/ runner' = runner
                \/ \E k \in Job : /\ gor[k] = "prepare" /\ runner' = runner \cup {k}
                                  /\ UNCHANGED vars
  BY <1>1, <1>3 DEF JobRuns, SetRunner, Next
<1>4. CASE OthersRun
  BY <1>4 DEF OthersRun, Recorded, Next, callVars
<1> QED
  BY <1>2, <1>3, <1>4 DEF CoreStep, callVars, Recorded

\* A call changes the core only where it stops a container, marks a job or ends the
\* process.
LEMMA CallStepFrame ==
    ASSUME CallStep
    PROVE  /\ UNCHANGED <<subVars, queue, dependsOn, loopVars, chanVars, gor, mon, doomed, runner>>
           /\ \/ UNCHANGED <<status, container, stopped, ended>>
              \/ \E j \in Job : StopContainer(j) /\ UNCHANGED <<status, ended>>
              \/ MarkFailed /\ UNCHANGED <<container, stopped>>
<1> USE DEF vars, opVars, callVars, queueVars, runVars
<1>1. CASE CallTerminate \/ CallStatus \/ StatusRangesAgain \/ MonitorPass
  BY <1>1 DEF CallTerminate, CallStatus, StatusRangesAgain, MonitorPass, BeginRange
<1>2. CASE TerminateLists \/ TerminateReturns \/ StatusCounts \/ StatusFills
  BY <1>2 DEF TerminateLists, TerminateReturns, StatusCounts, StatusFills
<1>3. ASSUME NEW j \in Job, TerminateNil(j)
      PROVE  UNCHANGED <<subVars, queueVars, loopVars, chanVars, runVars, runner, stopped, ended>>
  BY <1>3 DEF TerminateNil
<1>4. ASSUME NEW j \in Job, StopContainer(j)
      PROVE  UNCHANGED <<subVars, queueVars, loopVars, chanVars, gor, mon, doomed, runner, ended>>
  BY <1>4 DEF StopContainer
<1>5. CASE MarkFailed
  BY <1>5 DEF MarkFailed
<1>6. ASSUME NEW s \in Submitter, MapFatal(s)
      PROVE  UNCHANGED <<subVars, queueVars, loopVars, chanVars, runVars, runner, stopped, ended>>
  BY <1>6 DEF MapFatal
<1> QED
  BY <1>1, <1>2, <1>3, <1>4, <1>5, <1>6 DEF CallStep

LEMMA OperationsSteps ==
    ASSUME [OperationsNext]_allVars
    PROVE  \/ ~crashed /\ CoreStep
           \/ ~crashed /\ CallStep
           \/ UNCHANGED <<vars, runner, op, before, found, toStop, victim, slots, asked, careless,
                          stopped, ended>>
BY DEF OperationsNext, CoreStep, allVars, opVars, callVars

-----------------------------------------------------------------------------
(* Types, and what the core keeps *)

LEMMA OperationsInitType == OperationsInit => OperationsTypeOK
<1> SUFFICES ASSUME OperationsInit PROVE OperationsTypeOK
  OBVIOUS
<1>1. TypeOK
  BY InitType DEF OperationsInit
<1>2. op \in [Reader -> OpState]
  BY DEF OperationsInit, OpState
<1>3. before \in [Reader -> SUBSET Job]
  BY DEF OperationsInit
<1> QED
  BY <1>1, <1>2, <1>3 DEF OperationsInit, OperationsTypeOK

LEMMA OperationsNextType ==
    ASSUME OperationsTypeOK, RunnersStarted, [OperationsNext]_allVars
    PROVE  OperationsTypeOK'
<1>t. TypeOK /\ queue \in SUBSET Job
  BY DEF OperationsTypeOK, TypeOK
<1>1. CASE ~crashed /\ CoreStep
  <2>1. TypeOK'
    BY <1>1, <1>t, CoreStepFrame, NextType
  <2>2. runner' \subseteq Job /\ ended' \subseteq Job
    BY <1>1, CoreStepFrame DEF OperationsTypeOK
  <2>3. careless' \in BOOLEAN
    BY <1>1 DEF CoreStep, SubmitterRuns, JobRuns, OthersRun, callVars, OperationsTypeOK
  <2> QED
    BY <1>1, <2>1, <2>2, <2>3, CoreStepFrame DEF OperationsTypeOK
<1>2. CASE ~crashed /\ CallStep
  <2>0. "terminate" \in Reader /\ "status" \in Reader /\ "monitor" \in Reader
    BY DEF Reader
  <2>1. TypeOK'
    <3>1. /\ status' \in [Job -> JobStatus]
          /\ container' \in [Job -> {"none", "created", "up", "exited", "removed"}]
      <4>1. CASE MarkFailed
        BY <4>1, <1>t DEF MarkFailed, TypeOK, JobStatus, Finished, runVars
      <4>2. ASSUME NEW j \in Job, StopContainer(j)
            PROVE  container' \in [Job -> {"none", "created", "up", "exited", "removed"}]
        BY <4>2, <1>t DEF StopContainer, TypeOK
      <4> QED
        BY <1>2, <1>t, <4>1, <4>2, CallStepFrame DEF TypeOK
    <3>2. crashed' \in BOOLEAN
      <4>1. CASE StatusFills
        BY <4>1 DEF StatusFills
      <4>2. CASE ~StatusFills
        BY <1>2, <1>t, <4>2
           DEF CallStep, CallTerminate, CallStatus, StatusRangesAgain, MonitorPass, BeginRange,
           TerminateLists, TerminateReturns, TerminateNil, StatusCounts, MapFatal, StopContainer,
           MarkFailed, TypeOK, vars
      <4> QED
        BY <4>1, <4>2
    <3> QED
      BY <1>2, <1>t, <3>1, <3>2, CallStepFrame DEF TypeOK, subVars, loopVars, chanVars
  <2>2. op' \in [Reader -> OpState]
    BY <1>2 DEF CallStep, CallTerminate, CallStatus, StatusRangesAgain, MonitorPass, BeginRange,
       TerminateLists, TerminateReturns, TerminateNil, StatusCounts, StatusFills, MapFatal,
       StopContainer, MarkFailed, opVars, callVars, OperationsTypeOK, OpState
  <2>3. before' \in [Reader -> SUBSET Job]
    BY <1>2, <1>t DEF CallStep, CallTerminate, CallStatus, StatusRangesAgain, MonitorPass, BeginRange,
       TerminateLists, TerminateReturns, TerminateNil, StatusCounts, StatusFills, MapFatal, EndRange,
       StopContainer, MarkFailed, opVars, callVars, OperationsTypeOK
  <2>4. /\ found' \subseteq Job /\ toStop' \subseteq Matching /\ asked' \subseteq Job
        /\ stopped' \subseteq Matching /\ victim' \in Matching \cup {NoJob}
    BY <1>2, <1>t DEF CallStep, CallTerminate, CallStatus, StatusRangesAgain, MonitorPass, BeginRange,
       TerminateLists, TerminateReturns, TerminateNil, StatusCounts, StatusFills, MapFatal, Matches,
       StopContainer, MarkFailed, opVars, callVars, OperationsTypeOK
  <2>5. slots' \in Nat
    <3>1. \A jobs \in SUBSET queue : Cardinality(jobs) \in Nat
      BY <1>t, CountedFinite
    <3> QED
      BY <1>2, <3>1 DEF CallStep, CallTerminate, CallStatus, StatusRangesAgain, MonitorPass,
         BeginRange, TerminateLists, TerminateReturns, TerminateNil, StatusCounts, StatusFills,
         MapFatal, StopContainer, MarkFailed, opVars, callVars, OperationsTypeOK
  <2>6. careless' \in BOOLEAN
    BY <1>2 DEF CallStep, CallTerminate, CallStatus, StatusRangesAgain, MonitorPass, BeginRange,
       TerminateLists, TerminateReturns, TerminateNil, StatusCounts, StatusFills, MapFatal,
       StopContainer, MarkFailed, opVars, callVars, OperationsTypeOK
  <2>7. runner' \subseteq Job /\ ended' \subseteq Job
    <3>1. CASE MarkFailed
      BY <3>1 DEF MarkFailed, RunnersStarted, OperationsTypeOK
    <3>2. CASE ~MarkFailed
      BY <1>2, <3>2, CallStepFrame DEF OperationsTypeOK
    <3> QED
      BY <3>1, <3>2
  <2> QED
    BY <2>1, <2>2, <2>3, <2>4, <2>5, <2>6, <2>7 DEF OperationsTypeOK
<1>3. CASE UNCHANGED <<vars, runner, op, before, found, toStop, victim, slots, asked, careless,
                       stopped, ended>>
  <2>1. TypeOK'
    BY <1>3, <1>t, NextType
  <2> QED
    BY <1>3, <2>1 DEF OperationsTypeOK
<1> QED
  BY <1>1, <1>2, <1>3, OperationsSteps

\* The queue and the goroutines agree beside the calls too: the job marked Failed
\* has a goroutine.
LEMMA OperationsNextScheduling ==
    ASSUME OperationsTypeOK, SchedulingInv, RunnersStarted, [OperationsNext]_allVars
    PROVE  SchedulingInv' /\ RunnersStarted'
<1>t. TypeOK /\ runner \subseteq Job
  BY DEF OperationsTypeOK
<1>1. CASE ~crashed /\ CoreStep
  <2>1. SchedulingInv'
    BY <1>1, <1>t, CoreStepFrame, NextScheduling
  <2>2. \A j \in Job : gor[j] # "idle" => gor'[j] # "idle"
    BY <1>1, <1>t, CoreStepFrame, GoroutineKept DEF SchedulingInv
  <2>3. RunnersStarted'
    BY <1>1, <1>t, <2>2, CoreStepFrame DEF RunnersStarted
  <2> QED
    BY <2>1, <2>3
<1>2. CASE ~crashed /\ CallStep
  <2>0. UNCHANGED <<next, subpc, queue, dependsOn, loop, todo, picked, gor, mon, runner>>
    BY <1>2, CallStepFrame DEF subVars, loopVars
  <2>1. status' = status \/ \E j \in Job : gor[j] # "idle" /\ status' = [status EXCEPT ![j] = "Failed"]
    <3>1. CASE MarkFailed
      BY <3>1, <1>t DEF MarkFailed, RunnersStarted
    <3>2. CASE ~MarkFailed
      BY <1>2, <3>2, CallStepFrame
    <3> QED
      BY <3>1, <3>2
  <2>2. SubmittedQueued' /\ QueuedSubmitted'
    BY <2>0 DEF SchedulingInv, SubmittedQueued, QueuedSubmitted
  <2>3. QueueClosed'
    BY <2>0, <2>1, <1>t DEF SchedulingInv, QueueClosed, OneWriter, TypeOK
  <2>4. OneWriter'
    BY <2>0, <2>1, <1>t DEF SchedulingInv, OneWriter, TypeOK, Finished
  <2>5. RunnersStarted'
    <3>1. op'["terminate"] = "mark" => victim' \in runner
      BY <1>2 DEF CallStep, CallTerminate, CallStatus, StatusRangesAgain, MonitorPass, BeginRange,
         TerminateLists, TerminateReturns, TerminateNil, StatusCounts, StatusFills, MapFatal,
         StopContainer, MarkFailed, opVars, callVars, OperationsTypeOK, Reader, RunnersStarted
    <3> QED
      BY <2>0, <3>1 DEF RunnersStarted
  <2> QED
    BY <2>2, <2>3, <2>4, <2>5 DEF SchedulingInv
<1>3. CASE UNCHANGED <<vars, runner, op, before, found, toStop, victim, slots, asked, careless,
                       stopped, ended>>
  <2>1. SchedulingInv'
    BY <1>3, <1>t, NextScheduling
  <2>2. RunnersStarted'
    BY <1>3 DEF RunnersStarted, vars, runVars
  <2> QED
    BY <2>1, <2>2
<1> QED
  BY <1>1, <1>2, <1>3, OperationsSteps

-----------------------------------------------------------------------------
(* Limiter and order *)

\* The calls give no token back and take none.
LEMMA OperationsNextLimiter ==
    ASSUME OperationsTypeOK, SchedulingInv, LimiterAccount, [OperationsNext]_allVars
    PROVE  LimiterAccount'
<1>t. TypeOK
  BY DEF OperationsTypeOK
<1>1. CASE ~crashed /\ CoreStep
  BY <1>1, <1>t, CoreStepFrame, NextLimiter
<1>2. CASE ~crashed /\ CallStep
  BY <1>2, CallStepFrame DEF LimiterAccount, chanVars
<1>3. CASE UNCHANGED vars
  BY <1>3, <1>t, NextLimiter
<1> QED
  BY <1>1, <1>2, <1>3, OperationsSteps

\* A status that Terminate has set may be taken back, but that the job had ended
\* once is not.
LEMMA OperationsNextEnded ==
    ASSUME ~TornReads, OperationsTypeOK, SchedulingInv, RunnersStarted, NoTornStatus, EndedRecorded,
           [OperationsNext]_allVars
    PROVE  NoTornStatus' /\ EndedRecorded'
<1>t. TypeOK
  BY DEF OperationsTypeOK
<1>n. ended \subseteq ended'
  <2>1. CASE MarkFailed
    BY <2>1 DEF MarkFailed
  <2> QED
    BY <2>1, CoreStepFrame, CallStepFrame, OperationsSteps
<1>1. CASE ~crashed /\ CoreStep
  <2>0. [Next]_vars /\ \A j \in Job : status'[j] \in Finished => j \in ended'
    BY <1>1, CoreStepFrame
  <2>1. NoTornStatus'
    BY <1>t, <2>0, NextWhole
  <2>2. ASSUME NEW j \in Job, status'[j] \notin {"Submitted", "Pending"}
        PROVE  dependsOn'[j] \cap Job \subseteq ended
    <3>1. CASE \E s \in Submitter : AddJob(s)
      <4>1. PICK s \in Submitter : AddJob(s)
        BY <3>1
      <4>2. /\ Batch[s][next[s]] \in Job \ queue
            /\ \E E : dependsOn' = [dependsOn EXCEPT ![Batch[s][next[s]]] = E]
        BY <1>t, <4>1, AddedJobIsNew, AddedDependencies DEF SchedulingInv
      <4> QED
        BY <1>t, <2>2, <4>1, <4>2 DEF AddJob, SchedulingInv, QueueClosed, TypeOK, EndedRecorded
    <3>2. ASSUME NEW k \in Job, UpdateJob(k)
          PROVE  dependsOn'[j] \cap Job \subseteq ended
      <4>1. k \in queue
        BY <3>2 DEF UpdateJob, SchedulingInv, QueueClosed
      <4>2. \/ NewStatus(k) = status[k]
            \/ status[k] = "Submitted" /\ NewStatus(k) = "Pending"
            \/ NewStatus(k) = "Runnable" /\ DepsFinished(k)
        BY <1>t, <4>1, PassInOrder
      <4> QED
        BY <1>t, <2>2, <3>2, <4>2 DEF UpdateJob, TypeOK, EndedRecorded, DepsFinished
    <3>3. ASSUME NEW k \in Job, GetNextRunnable(k)
          PROVE  dependsOn'[j] \cap Job \subseteq ended
      BY <1>t, <2>2, <3>3 DEF GetNextRunnable, TypeOK, EndedRecorded
    <3>4. ASSUME NEW k \in Job, JobStep(k) \/ ContainerExits(k) \/ MonitorStep(k)
          PROVE  dependsOn'[j] \cap Job \subseteq ended
      BY <1>t, <2>2, <3>4, GoroutineFrame DEF TypeOK, SchedulingInv, OneWriter, EndedRecorded
    <3>5. ASSUME \/ \E s \in Submitter : RegistryMiss(s) \/ ReceiveSubmitted(s)
                 \/ \E k \in Job : ReceiveFinished(k) \/ ReceivePending(k)
                 \/ Collect \/ NothingRunnable \/ StartJob \/ Crash \/ UNCHANGED vars
          PROVE  dependsOn'[j] \cap Job \subseteq ended
      <4>1. UNCHANGED <<status, dependsOn>>
        BY <3>5 DEF RegistryMiss, ReceiveSubmitted, ReceiveFinished, ReceivePending, Collect,
           NothingRunnable, StartJob, Crash, vars, queueVars
      <4> QED
        BY <2>2, <4>1 DEF EndedRecorded
    <3> QED
      BY <2>0, <3>1, <3>2, <3>3, <3>4, <3>5 DEF Next, SubmitterStep, LoopStep
  <2> QED
    BY <1>n, <2>0, <2>1, <2>2 DEF EndedRecorded
<1>2. CASE ~crashed /\ CallStep
  <2>1. UNCHANGED <<dependsOn, gor>>
    BY <1>2, CallStepFrame
  <2>2. CASE MarkFailed
    <3>1. victim \in Job /\ gor[victim] # "idle"
      BY <2>2 DEF MarkFailed, RunnersStarted, OperationsTypeOK
    <3>2. status' = [status EXCEPT ![victim] = "Failed"] /\ ended' = ended \cup {victim}
      BY <2>2 DEF MarkFailed
    <3>3. status[victim] \notin {"Submitted", "Pending"}
      BY <3>1 DEF SchedulingInv, OneWriter
    <3> QED
      BY <1>t, <2>1, <3>1, <3>2, <3>3 DEF EndedRecorded, NoTornStatus, TypeOK
  <2>3. CASE ~MarkFailed
    BY <1>2, <2>1, <2>3, CallStepFrame DEF EndedRecorded, NoTornStatus
  <2> QED
    BY <2>2, <2>3
<1>3. CASE UNCHANGED <<vars, ended>>
  BY <1>3 DEF EndedRecorded, NoTornStatus, vars, queueVars, runVars
<1> QED
  BY <1>1, <1>2, <1>3, OperationsSteps

-----------------------------------------------------------------------------
(* The theorems about the core beside the calls *)

LEMMA OperationsInitInv ==
    OperationsInit => /\ SchedulingInv /\ RunnersStarted /\ LimiterAccount /\ NoTornStatus
                      /\ EndedRecorded
<1> SUFFICES ASSUME OperationsInit
             PROVE  /\ SchedulingInv /\ RunnersStarted /\ LimiterAccount /\ NoTornStatus
                    /\ EndedRecorded
  OBVIOUS
<1>1. SchedulingInv /\ NoTornStatus
  BY InitOrder DEF OperationsInit, OrderInv
<1>2. RunnersStarted /\ EndedRecorded
  <2>1. op["terminate"] \in {"idle", "absent"}
    BY DEF OperationsInit, Reader
  <2> QED
    BY <2>1 DEF OperationsInit, Init, RunnersStarted, EndedRecorded, Finished
<1>3. LimiterAccount
  <2>1. {j \in Job : gor[j] \in Holding} = {}
    BY DEF OperationsInit, Init, Holding
  <2> QED
    BY <2>1, FS_EmptySet DEF OperationsInit, Init, LimiterAccount
<1> QED
  BY <1>1, <1>2, <1>3

\* Every variable keeps its type, and the queue agrees with the goroutines, while
\* clients terminate jobs and ask for their status.
THEOREM OperationsTypeCorrect ==
    OperationsSpec => [](OperationsTypeOK /\ SchedulingInv /\ RunnersStarted)
<1>1. OperationsInit => OperationsTypeOK /\ SchedulingInv /\ RunnersStarted
  BY OperationsInitType, OperationsInitInv
<1>2. OperationsTypeOK /\ SchedulingInv /\ RunnersStarted /\ [OperationsNext]_allVars
        => (OperationsTypeOK /\ SchedulingInv /\ RunnersStarted)'
  BY OperationsNextType, OperationsNextScheduling
<1> QED
  BY <1>1, <1>2, PTL DEF OperationsSpec

\* Termination neither leaks a token nor gives one back twice.
THEOREM OperationsLimiter == OperationsSpec => []LimiterAccount
<1>1. OperationsTypeOK /\ SchedulingInv /\ LimiterAccount /\ [OperationsNext]_allVars
        => LimiterAccount'
  BY OperationsNextLimiter
<1>2. OperationsInit => LimiterAccount
  BY OperationsInitInv
<1> QED
  BY <1>1, <1>2, OperationsTypeCorrect, PTL DEF OperationsSpec

\* No job is started before each of its dependencies has ended or was terminated,
\* although termination writes statuses from outside and Run may take them back.
THEOREM StartsAfterEnds == ASSUME ~TornReads PROVE OperationsSpec => []StartedAfterEnded
<1>1. OperationsTypeOK /\ SchedulingInv /\ RunnersStarted /\ NoTornStatus /\ EndedRecorded
        /\ [OperationsNext]_allVars
      => (NoTornStatus /\ EndedRecorded)'
  BY OperationsNextEnded
<1>2. OperationsInit => NoTornStatus /\ EndedRecorded
  BY OperationsInitInv
<1>3. SchedulingInv /\ EndedRecorded => StartedAfterEnded
  BY DEF SchedulingInv, OneWriter, EndedRecorded, StartedAfterEnded
<1> QED
  BY <1>1, <1>2, <1>3, OperationsTypeCorrect, PTL DEF OperationsSpec

-----------------------------------------------------------------------------
(* What TerminateJobs has stopped *)

LEMMA NextContainers ==
    ASSUME TypeOK, SchedulingInv, ContainersStarted, [Next]_vars
    PROVE  ContainersStarted'
<1> USE DEF TypeOK, ContainersStarted
<1>1. ASSUME NEW j \in Job, JobStep(j) PROVE ContainersStarted'
  <2>1. CASE NewRunnerFails(j) \/ PrepareFails(j) \/ CreateFails(j) \/ Create(j) \/ StoreRunning(j)
    BY <2>1 DEF NewRunnerFails, PrepareFails, CreateFails, Create, StoreRunning
  <2>2. CASE StartFails(j) \/ Start(j) \/ MonitorMissing(j)
    BY <2>2 DEF StartFails, Start, MonitorMissing
  <2>3. CASE LogEnds(j) \/ LogFails(j) \/ CloseRunner(j) \/ Release(j)
    BY <2>3 DEF LogEnds, LogFails, CloseRunner, Release
  <2> QED
    BY <1>1, <2>1, <2>2, <2>3 DEF JobStep
<1>2. ASSUME NEW j \in Job, ContainerExits(j) PROVE ContainersStarted'
  BY <1>2 DEF ContainerExits
<1>3. CASE StartJob
  BY <1>3 DEF StartJob, SchedulingInv, OneWriter
<1>4. ASSUME NEW j \in Job, ReceiveFinished(j) PROVE ContainersStarted'
  BY <1>4 DEF ReceiveFinished
<1>5. ASSUME \/ \E s \in Submitter : SubmitterStep(s) \/ ReceiveSubmitted(s)
             \/ \E j \in Job : \/ ReceivePending(j) \/ UpdateJob(j) \/ GetNextRunnable(j)
                               \/ MonitorStep(j)
             \/ Collect \/ NothingRunnable \/ Crash \/ UNCHANGED vars
      PROVE  ContainersStarted'
  <2>1. UNCHANGED <<gor, container>>
    BY <1>5 DEF SubmitterStep, AddJob, RegistryMiss, ReceiveSubmitted, ReceivePending, UpdateJob,
       GetNextRunnable, MonitorStep, MonitorReports, MonitorFails, Collect, NothingRunnable, Crash,
       vars, runVars
  <2> QED
    BY <2>1
<1> QED
  BY <1>1, <1>2, <1>3, <1>4, <1>5 DEF Next, LoopStep

\* Nothing in the core brings a container up again, or takes a final status back
\* from a job whose goroutine is past its start.
LEMMA DownStaysDown ==
    ASSUME TypeOK, SchedulingInv, ContainersStarted, [Next]_vars,
           NEW j \in Job, container[j] \in {"exited", "removed"}
    PROVE  /\ container'[j] \in {"exited", "removed"}
           /\ status[j] \in Finished => status'[j] \in Finished
<1> USE DEF TypeOK, Finished
<1>0. gor[j] \notin {"idle", "prepare", "storing", "created"}
  BY DEF ContainersStarted
<1>1. ASSUME NEW k \in Job, JobStep(k)
      PROVE  /\ container'[j] \in {"exited", "removed"}
             /\ status[j] \in Finished => status'[j] \in Finished
  <2>1. CASE NewRunnerFails(k) \/ PrepareFails(k) \/ CreateFails(k) \/ Create(k) \/ StoreRunning(k)
    <3>1. k # j
      BY <1>0, <2>1 DEF NewRunnerFails, PrepareFails, CreateFails, Create, StoreRunning
    <3> QED
      BY <2>1, <3>1 DEF NewRunnerFails, PrepareFails, CreateFails, Create, StoreRunning, queueVars
  <2>2. CASE StartFails(k) \/ Start(k) \/ MonitorMissing(k)
    <3>1. k # j
      BY <1>0, <2>2 DEF StartFails, Start, MonitorMissing
    <3> QED
      BY <2>2, <3>1 DEF StartFails, Start, MonitorMissing, queueVars
  <2>3. CASE LogEnds(k) \/ LogFails(k) \/ CloseRunner(k) \/ Release(k)
    BY <2>3 DEF LogEnds, LogFails, CloseRunner, Release, queueVars
  <2> QED
    BY <1>1, <2>1, <2>2, <2>3 DEF JobStep
<1>2. ASSUME NEW k \in Job, ContainerExits(k) \/ MonitorStep(k)
      PROVE  /\ container'[j] \in {"exited", "removed"}
             /\ status[j] \in Finished => status'[j] \in Finished
  BY <1>2 DEF ContainerExits, MonitorStep, MonitorReports, MonitorFails, queueVars
<1>3. ASSUME NEW k \in Job, UpdateJob(k) \/ GetNextRunnable(k)
      PROVE  container' = container /\ status'[j] = status[j]
  <2>1. status[j] \notin {"Submitted", "Pending", "Runnable"}
    BY <1>0 DEF SchedulingInv, OneWriter
  <2> QED
    BY <1>3, <2>1 DEF UpdateJob, NewStatus, GetNextRunnable, runVars
<1>4. ASSUME \/ \E s \in Submitter : SubmitterStep(s) \/ ReceiveSubmitted(s)
             \/ \E k \in Job : ReceivePending(k) \/ ReceiveFinished(k)
             \/ Collect \/ NothingRunnable \/ StartJob \/ Crash \/ UNCHANGED vars
      PROVE  UNCHANGED <<container, status>>
  BY <1>4 DEF SubmitterStep, AddJob, RegistryMiss, ReceiveSubmitted, ReceivePending,
     ReceiveFinished, StartJob, Collect, NothingRunnable, Crash, vars, runVars, queueVars
<1> QED
  BY <1>1, <1>2, <1>3, <1>4 DEF Next, LoopStep

LEMMA OperationsNextStopped ==
    ASSUME OperationsTypeOK, SchedulingInv, RunnersStarted, ContainersStarted, StoppedOver,
           [OperationsNext]_allVars
    PROVE  ContainersStarted' /\ StoppedOver'
<1>t. TypeOK /\ stopped \subseteq Job
  BY OperationsAssumption DEF OperationsTypeOK
<1>1. CASE ~crashed /\ CoreStep
  <2>1. ContainersStarted'
    BY <1>1, <1>t, CoreStepFrame, NextContainers
  <2>2. \A j \in stopped : /\ container'[j] \in {"exited", "removed"}
                           /\ status[j] \in Finished => status'[j] \in Finished
    BY <1>1, <1>t, CoreStepFrame, DownStaysDown DEF StoppedOver
  <2> QED
    BY <1>1, <2>1, <2>2, CoreStepFrame DEF StoppedOver
<1>2. CASE ~crashed /\ CallStep
  <2>0. gor' = gor
    BY <1>2, CallStepFrame
  <2>1. CASE MarkFailed
    <3>1. container' = container /\ stopped' = stopped
      BY <2>1 DEF MarkFailed, runVars
    <3>2. \A j \in stopped : status'[j] \in Finished
      BY <1>t, <2>1 DEF MarkFailed, StoppedOver, TypeOK, Finished
    <3> QED
      BY <2>0, <3>1, <3>2 DEF ContainersStarted, StoppedOver
  <2>2. ASSUME NEW j \in Job, StopContainer(j) PROVE ContainersStarted' /\ StoppedOver'
    <3>1. ContainersStarted'
      BY <1>t, <2>0, <2>2 DEF StopContainer, ContainersStarted, TypeOK
    <3>2. op["terminate"] = "jobs" /\ op'["terminate"] = "mark" /\ victim' = j
          /\ status' = status
      BY <2>2 DEF StopContainer, OperationsTypeOK, Reader, queueVars
    <3>3. \A k \in stopped' : container'[k] \in {"exited", "removed"} /\ (k = j \/ k \in stopped)
      BY <1>t, <2>2 DEF StopContainer, StoppedOver, TypeOK
    <3> QED
      BY <3>1, <3>2, <3>3 DEF StoppedOver
  <2>3. CASE UNCHANGED <<status, container, stopped>> /\ ~MarkFailed
             /\ ~\E j \in Job : StopContainer(j)
    <3>1. op["terminate"] = "mark" => op'["terminate"] = "mark" /\ victim' = victim
      BY <1>2, <2>3 DEF CallStep, CallTerminate, CallStatus, StatusRangesAgain, MonitorPass,
         BeginRange, TerminateLists, TerminateReturns, TerminateNil, StatusCounts, StatusFills,
         MapFatal, opVars, callVars, OperationsTypeOK, Reader
    <3> QED
      BY <2>0, <2>3, <3>1 DEF ContainersStarted, StoppedOver
  <2> QED
    BY <1>2, <2>1, <2>2, <2>3, CallStepFrame
<1>3. CASE UNCHANGED <<vars, op, victim, stopped>>
  BY <1>3 DEF ContainersStarted, StoppedOver, vars, queueVars, runVars
<1> QED
  BY <1>1, <1>2, <1>3, OperationsSteps

\* When TerminateJobs returns, what it has stopped is down and over, whatever the
\* goroutines and monitors of these jobs did in between.
THEOREM TerminationHolds == OperationsSpec => []TerminatedAreOver
<1>1. OperationsInit => ContainersStarted /\ StoppedOver
  BY DEF OperationsInit, Init, ContainersStarted, StoppedOver
<1>2. OperationsTypeOK /\ SchedulingInv /\ RunnersStarted /\ ContainersStarted /\ StoppedOver
        /\ [OperationsNext]_allVars
      => (ContainersStarted /\ StoppedOver)'
  BY OperationsNextStopped
<1>3. StoppedOver => TerminatedAreOver
  BY DEF StoppedOver, TerminatedAreOver
<1> QED
  BY <1>1, <1>2, <1>3, OperationsTypeCorrect, PTL DEF OperationsSpec

-----------------------------------------------------------------------------
(* What the calls find *)

LEMMA OperationsNextCareful ==
    ASSUME OperationsTypeOK, CarefulCalls, SafeWhenQuiet, [OperationsNext]_allVars
    PROVE  CarefulCalls' /\ SafeWhenQuiet'
<1> USE DEF CarefulCalls, SafeWhenQuiet
<1>t. /\ op \in [Reader -> OpState] /\ before \in [Reader -> SUBSET Job]
      /\ "terminate" \in Reader /\ "status" \in Reader /\ "monitor" \in Reader
      /\ queue \subseteq Job
  BY DEF OperationsTypeOK, TypeOK, Reader
<1>1. CASE ~crashed /\ CoreStep
  <2>1. CarefulCalls'
    BY <1>1, CoreStepFrame
  <2>2. crashed' => doomed' # {}
    BY <1>1, CoreStepFrame DEF Next, SubmitterStep, LoopStep, JobStep, MonitorStep, AddJob,
       RegistryMiss, ReceiveSubmitted, ReceiveFinished, ReceivePending, Collect, UpdateJob,
       GetNextRunnable, NothingRunnable, StartJob, NewRunnerFails, PrepareFails, CreateFails,
       Create, StoreRunning, StartFails, Start, MonitorMissing, LogEnds, LogFails, CloseRunner,
       Release, ContainerExits, MonitorReports, MonitorFails, Crash, vars, runVars
  <2> QED
    BY <2>1, <2>2
<1>2. CASE ~crashed /\ CallStep
  <2>r. runner' = runner /\ queue' = queue
    BY <1>2, CallStepFrame
  <2>1. CASE CallTerminate
    BY <1>2, <1>t, <2>r, <2>1 DEF CallTerminate, BeginRange, vars
  <2>2. CASE TerminateLists
    <3>1. PICK jobs \in SUBSET queue :
             /\ toStop' = {j \in jobs : Matches(j)}
             /\ careless' = (careless \/ jobs # before["terminate"])
      BY <2>2 DEF TerminateLists
    <3>2. /\ crashed' = crashed /\ op["terminate"] = "range"
          /\ op'["terminate"] = "jobs" /\ op'["status"] = op["status"]
          /\ before'["status"] = before["status"] /\ slots' = slots
      BY <1>t, <2>2 DEF TerminateLists, EndRange, vars
    <3> QED
      BY <1>2, <2>r, <3>1, <3>2
  <2>3. ASSUME NEW j \in Job, TerminateNil(j) PROVE CarefulCalls' /\ SafeWhenQuiet'
    BY <1>2, <2>r, <2>3 DEF TerminateNil, opVars, callVars
  <2>4. ASSUME NEW j \in Job, StopContainer(j) PROVE CarefulCalls' /\ SafeWhenQuiet'
    BY <1>2, <1>t, <2>r, <2>4 DEF StopContainer
  <2>5. CASE MarkFailed \/ TerminateReturns
    BY <1>2, <1>t, <2>r, <2>5 DEF MarkFailed, TerminateReturns, vars
  <2>6. CASE CallStatus
    BY <1>2, <1>t, <2>r, <2>6 DEF CallStatus, BeginRange, vars
  <2>11. CASE StatusCounts
    <3>0. PICK jobs \in SUBSET queue : careless' = (careless \/ jobs # before["status"])
      BY <2>11 DEF StatusCounts
    <3>1. /\ crashed' = crashed
          /\ op'["status"] = "counted" /\ op'["terminate"] = op["terminate"]
          /\ before'["terminate"] = before["terminate"] /\ toStop' = toStop
      BY <1>t, <2>11 DEF StatusCounts, EndRange, vars
    <3> QED
      BY <1>2, <2>r, <3>0, <3>1
  <2>7. CASE StatusRangesAgain
    BY <1>2, <1>t, <2>r, <2>7 DEF StatusRangesAgain, BeginRange, vars
  <2>8. CASE StatusFills
    <3>1. PICK jobs \in SUBSET queue :
             /\ careless' = (careless \/ jobs # before["status"])
             /\ crashed' = (Cardinality(jobs) > slots)
      BY <2>8 DEF StatusFills
    <3>2. /\ op["status"] = "again" /\ op'["status"] = "returned"
          /\ op'["terminate"] = op["terminate"] /\ toStop' = toStop
          /\ before'["terminate"] = before["terminate"]
      BY <1>t, <2>8 DEF StatusFills, EndRange
    <3>3. ~careless' => ~crashed'
      <4>1. SUFFICES ASSUME ~careless' PROVE Cardinality(jobs) = slots
        BY <3>1 DEF OperationsTypeOK
      <4> QED
        BY <3>1, <3>2, <4>1
    <3> QED
      BY <2>r, <3>1, <3>2, <3>3
  <2>9. CASE MonitorPass
    BY <1>2, <1>t, <2>r, <2>9 DEF MonitorPass, BeginRange, vars
  <2>10. ASSUME NEW s \in Submitter, MapFatal(s) PROVE CarefulCalls' /\ SafeWhenQuiet'
    BY <2>10 DEF MapFatal
  <2> QED
    BY <1>2, <2>1, <2>2, <2>3, <2>4, <2>5, <2>6, <2>7, <2>8, <2>9, <2>10, <2>11 DEF CallStep
<1>3. CASE UNCHANGED <<vars, runner, op, before, found, toStop, victim, slots, asked, careless,
                       stopped, ended>>
  BY <1>3 DEF vars, runVars
<1> QED
  BY <1>1, <1>2, <1>3, OperationsSteps

\* Only a call that overlaps an Add, or that meets a job without a runner, ends the
\* process (but for the panics of job goroutines).
THEOREM QuietCallsSafe == OperationsSpec => []SafeWhenQuiet
<1>1. OperationsInit => CarefulCalls /\ SafeWhenQuiet
  <2> SUFFICES ASSUME OperationsInit PROVE CarefulCalls /\ SafeWhenQuiet
    OBVIOUS
  <2>1. op["terminate"] \in {"idle", "absent"} /\ op["status"] \in {"idle", "absent"}
    BY DEF OperationsInit, Reader
  <2> QED
    BY <2>1 DEF OperationsInit, Init, CarefulCalls, SafeWhenQuiet
<1>2. OperationsTypeOK /\ CarefulCalls /\ SafeWhenQuiet /\ [OperationsNext]_allVars
        => (CarefulCalls /\ SafeWhenQuiet)'
  BY OperationsNextCareful
<1> QED
  BY <1>1, <1>2, OperationsTypeCorrect, PTL DEF OperationsSpec

\* Jobs stay in the queue.
LEMMA QueueGrows ==
    ASSUME [Next]_vars
    PROVE  queue \subseteq queue'
BY DEF Next, SubmitterStep, LoopStep, JobStep, MonitorStep, AddJob, RegistryMiss,
   ReceiveSubmitted, ReceiveFinished, ReceivePending, Collect, UpdateJob, GetNextRunnable,
   NothingRunnable, StartJob, NewRunnerFails, PrepareFails, CreateFails, Create, StoreRunning,
   StartFails, Start, MonitorMissing, LogEnds, LogFails, CloseRunner, Release, ContainerExits,
   MonitorReports, MonitorFails, Crash, vars, queueVars

LEMMA OperationsNextStatus ==
    ASSUME OperationsTypeOK, OperationsTypeOK', StatusAccount, StatusComplete,
           [OperationsNext]_allVars
    PROVE  StatusAccount' /\ StatusComplete'
<1> USE DEF StatusAccount, StatusComplete
<1>t. /\ op \in [Reader -> OpState] /\ before \in [Reader -> SUBSET Job]
      /\ "terminate" \in Reader /\ "status" \in Reader /\ "monitor" \in Reader
      /\ queue \subseteq Job /\ queue' \subseteq Job /\ slots \in Nat
  BY DEF OperationsTypeOK, TypeOK, Reader
<1>c. ASSUME NEW S \in SUBSET Job, NEW T \in SUBSET S
      PROVE  Cardinality(T) <= Cardinality(S) /\ Cardinality(S) \in Nat /\ Cardinality(T) \in Nat
  <2>1. IsFiniteSet(S)
    BY JobAssumption, FS_Subset
  <2> QED
    BY <2>1, FS_Subset, FS_CardinalityType
<1>1. CASE ~crashed /\ CoreStep
  <2>1. queue \subseteq queue'
    BY <1>1, CoreStepFrame, QueueGrows
  <2>2. Cardinality(queue) <= Cardinality(queue') /\ Cardinality(queue) \in Nat
        /\ Cardinality(queue') \in Nat
    BY <1>c, <1>t, <2>1
  <2>3. UNCHANGED <<op, before, found, slots, asked>>
    BY <1>1, CoreStepFrame
  <2> QED
    BY <1>1, <1>t, <2>1, <2>2, <2>3
<1>2. CASE ~crashed /\ CallStep
  <2>r. queue' = queue
    BY <1>2, CallStepFrame
  <2>1. CASE CallTerminate \/ TerminateLists \/ MonitorPass
    BY <1>2, <1>t, <2>r, <2>1 DEF CallTerminate, TerminateLists, MonitorPass, BeginRange, EndRange,
       vars
  <2>2. CASE MarkFailed \/ TerminateReturns \/ \E j \in Job : TerminateNil(j) \/ StopContainer(j)
    BY <1>2, <1>t, <2>r, <2>2 DEF MarkFailed, TerminateReturns, TerminateNil, StopContainer, vars,
       opVars, callVars
  <2>3. CASE CallStatus
    BY <1>t, <2>r, <2>3 DEF CallStatus, BeginRange
  <2>4. CASE StatusCounts
    <3>1. PICK jobs \in SUBSET queue : EndRange("status", jobs) /\ slots' = Cardinality(jobs)
      BY <2>4 DEF StatusCounts
    <3>2. Cardinality(jobs) <= Cardinality(queue)
      BY <1>c, <1>t
    <3>3. /\ op["status"] = "range" /\ op'["status"] = "counted" /\ asked' = asked
          /\ before'["status"] = {}
      BY <1>t, <2>4 DEF StatusCounts, EndRange
    <3> QED
      BY <2>r, <3>1, <3>2, <3>3
  <2>5. CASE StatusRangesAgain
    BY <1>t, <2>r, <2>5 DEF StatusRangesAgain, BeginRange
  <2>6. CASE StatusFills
    <3>1. PICK jobs \in SUBSET queue :
             /\ EndRange("status", jobs)
             /\ found' = jobs
             /\ crashed' = (Cardinality(jobs) > slots)
      BY <2>6 DEF StatusFills
    <3>2. /\ op["status"] = "again" /\ op'["status"] = "returned" /\ asked' = asked
          /\ before'["status"] = {} /\ slots' = slots
      BY <1>t, <2>6 DEF StatusFills, EndRange
    <3>3. before["status"] \subseteq jobs
      BY <3>1 DEF EndRange, Visible
    <3>4. /\ Cardinality(before["status"]) <= Cardinality(jobs)
          /\ Cardinality(jobs) \in Nat /\ Cardinality(before["status"]) \in Nat
      BY <1>c, <1>t, <3>3
    <3>5. ~crashed' => Cardinality(jobs) = slots
      <4>1. ~crashed' => ~(Cardinality(jobs) > slots)
        BY <3>1
      <4>2. slots <= Cardinality(before["status"])
        BY <3>2
      <4> QED
        BY <1>t, <3>4, <4>1, <4>2
    <3> QED
      BY <2>r, <3>1, <3>2, <3>3, <3>5
  <2>7. ASSUME NEW s \in Submitter, MapFatal(s) PROVE StatusAccount' /\ StatusComplete'
    BY <2>7, <2>r DEF MapFatal
  <2> QED
    BY <1>2, <2>1, <2>2, <2>3, <2>4, <2>5, <2>6, <2>7 DEF CallStep
<1>3. CASE UNCHANGED <<vars, runner, op, before, found, toStop, victim, slots, asked, careless,
                       stopped, ended>>
  BY <1>3 DEF vars, queueVars
<1> QED
  BY <1>1, <1>2, <1>3, OperationsSteps

\* A Status that returns has a summary for every job that was there, and leaves no
\* slot blank, although it looks at the queue twice.
THEOREM StatusIsComplete == OperationsSpec => []StatusComplete
<1>1. OperationsInit => StatusAccount /\ StatusComplete
  <2> SUFFICES ASSUME OperationsInit PROVE StatusAccount /\ StatusComplete
    OBVIOUS
  <2>1. op["status"] \in {"idle", "absent"} /\ before["status"] = {}
    BY DEF OperationsInit, Reader
  <2> QED
    BY <2>1 DEF StatusAccount, StatusComplete
<1>2. OperationsTypeOK /\ OperationsTypeOK' /\ StatusAccount /\ StatusComplete
        /\ [OperationsNext]_allVars
      => (StatusAccount /\ StatusComplete)'
  BY OperationsNextStatus
<1> QED
  BY <1>1, <1>2, OperationsTypeCorrect, PTL DEF OperationsSpec
=============================================================================
