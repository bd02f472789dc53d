--------------------------- MODULE DockerOperations ---------------------------
(***************************************************************************)
(* The calls a client makes on the Docker provider while its jobs run:     *)
(* TerminateJobs, Status, and the passes of StartMonitor, beside the       *)
(* scheduling core. The three range over the queue without its lock, and   *)
(* TerminateJobs uses the runner of a job from outside its goroutine.      *)
(***************************************************************************)
EXTENDS DockerComputeManager

CONSTANTS
    Clients,        \* the sets of readers that may be at work at once
    Matching,       \* the jobs whose name contains the compute of the query
    StopMayFail     \* TRUE: the daemon may refuse ContainerStop

\* Each client calls once; the monitor goes round for ever.
Reader == {"terminate", "status", "monitor"}

ASSUME OperationsAssumption ==
    /\ Clients \subseteq SUBSET Reader
    /\ Matching \subseteq Job
    /\ StopMayFail \in BOOLEAN

VARIABLES
    runner,     \* the jobs whose DockerJob.runner is set
    op,         \* where each reader stands
    before,     \* the jobs in the queue when its loop over the map began
    found,      \* the jobs that the second loop of Status returned
    toStop,     \* the matching jobs TerminateJobs has not come to yet
    victim,     \* the job on whose runner Terminate is being called
    slots,      \* the length of the summaries that Status has made
    \* kept only for the properties
    asked,      \* the jobs in the queue when Status was called
    stopped,    \* the jobs whose container was up when it was stopped
    ended,      \* the jobs that have had a final status
    careless    \* a call overlapped an Add, or met a job without a runner

callVars == <<op, before, found, toStop, victim, slots, asked, careless>>
opVars   == <<runner, callVars, stopped, ended>>
allVars  == <<vars, opVars>>

OpState == {"absent", "idle", "range", "counted", "again", "jobs", "mark", "returned"}

OperationsTypeOK ==
    /\ TypeOK
    /\ runner \subseteq Job
    /\ op \in [Reader -> OpState]
    /\ before \in [Reader -> SUBSET Job]
    /\ found \subseteq Job
    /\ toStop \subseteq Matching
    /\ victim \in Matching \cup {NoJob}
    /\ slots \in Nat
    /\ asked \subseteq Job
    /\ stopped \subseteq Matching
    /\ ended \subseteq Job
    /\ careless \in BOOLEAN

OperationsInit ==
    /\ Init
    /\ runner = {}
    /\ \E R \in Clients : op = [r \in Reader |-> IF r \in R THEN "idle" ELSE "absent"]
    /\ before = [r \in Reader |-> {}]
    /\ found = {}
    /\ toStop = {}
    /\ victim = NoJob
    /\ slots = 0
    /\ asked = {}
    /\ stopped = {}
    /\ ended = {}
    /\ careless = FALSE

-----------------------------------------------------------------------------
(* Jobs *)

Ranging(r) == op[r] \in {"range", "again"}

\* Jobs starts to range over the map.
BeginRange(r, from, to) ==
    /\ op[r] = from
    /\ op' = [op EXCEPT ![r] = to]
    /\ before' = [before EXCEPT ![r] = queue]
    /\ UNCHANGED <<vars, runner, found, toStop, victim, slots, stopped, ended>>

\* Mutation: the finished jobs are left out, as Jobs(statuses) can do.
VisibleUnfinished(j) == status[j] \notin Finished

\* Called without statuses, Jobs returns every job it meets.
Visible(j) == TRUE

\* It returns the jobs that were there all the time, and may or may not have met
\* those that were added meanwhile.
EndRange(r, jobs) ==
    /\ before' = [before EXCEPT ![r] = {}]
    /\ {j \in before[r] : Visible(j)} \subseteq jobs
    /\ jobs \subseteq {j \in queue : Visible(j)}

\* Add writes the map while somebody ranges over it: the Go runtime may notice,
\* and then ends the process.
MapFatal(s) ==
    /\ \E r \in Reader : Ranging(r)
    /\ subpc[s] = "submit"
    /\ next[s] <= Len(Batch[s])
    /\ crashed' = TRUE
    /\ careless' = TRUE
    /\ UNCHANGED <<subVars, queueVars, loopVars, chanVars, runVars, runner, op, before,
                   found, toStop, victim, slots, asked, stopped, ended>>

-----------------------------------------------------------------------------
(* TerminateJobs *)

Matches(j) == j \in Matching

CallTerminate ==
    /\ BeginRange("terminate", "idle", "range")
    /\ careless' = (careless \/ \E j \in queue : Matches(j) /\ j \notin runner)
    /\ UNCHANGED asked

TerminateLists ==
    /\ op["terminate"] = "range"
    /\ \E jobs \in SUBSET queue :
          /\ EndRange("terminate", jobs)
          /\ toStop' = {j \in jobs : Matches(j)}
          /\ careless' = (careless \/ jobs # before["terminate"])
    /\ op' = [op EXCEPT !["terminate"] = "jobs"]
    /\ UNCHANGED <<vars, runner, found, victim, slots, asked, stopped, ended>>

\* Terminate is called on the runner of a job that has none: it reads containerId
\* through a nil pointer, and the panic of the caller ends the process.
TerminateNil(j) ==
    /\ op["terminate"] = "jobs"
    /\ j \in toStop \ runner
    /\ crashed' = TRUE
    /\ UNCHANGED <<subVars, queueVars, loopVars, chanVars, runVars, opVars>>

\* Mutation: Terminate does not wait for the container to stop.
StopContainerLater(j) ==
    /\ op["terminate"] = "jobs"
    /\ j \in toStop \cap runner
    /\ op' = [op EXCEPT !["terminate"] = "mark"]
    /\ toStop' = toStop \ {j}
    /\ victim' = j
    /\ stopped' = IF container[j] = "up" THEN stopped \cup {j} ELSE stopped
    /\ UNCHANGED <<vars, runner, before, found, slots, asked, ended, careless>>

\* ContainerStop ends a container that is up and returns when it is down. For one
\* that is not up, or not made yet (the id is empty), it changes nothing; it may
\* also be refused.
StopContainer(j) ==
    /\ op["terminate"] = "jobs"
    /\ j \in toStop \cap runner
    /\ op' = [op EXCEPT !["terminate"] = "mark"]
    /\ toStop' = toStop \ {j}
    /\ victim' = j
    /\ \/ /\ container[j] = "up"
          /\ container' = [container EXCEPT ![j] = "exited"]
          /\ stopped' = stopped \cup {j}
       \/ /\ container[j] # "up" \/ StopMayFail
          /\ UNCHANGED <<container, stopped>>
    /\ UNCHANGED <<subVars, queueVars, loopVars, chanVars, gor, mon, doomed, crashed, runner,
                   before, found, slots, asked, ended, careless>>

\* Mutation: Terminate also gives the job's token back.
MarkFailedReleasing ==
    /\ op["terminate"] = "mark"
    /\ status' = [status EXCEPT ![victim] = "Failed"]
    /\ ended' = ended \cup {victim}
    /\ limiter' = limiter - 1
    /\ op' = [op EXCEPT !["terminate"] = "jobs"]
    /\ victim' = NoJob
    /\ UNCHANGED <<queue, dependsOn, wake, subVars, loopVars, runVars, crashed, runner, before,
                   found, toStop, slots, asked, stopped, careless>>

\* Whatever ContainerStop said and whatever has become of the job meanwhile, its
\* status is now Failed.
MarkFailed ==
    /\ op["terminate"] = "mark"
    /\ status' = [status EXCEPT ![victim] = "Failed"]
    /\ ended' = ended \cup {victim}
    /\ op' = [op EXCEPT !["terminate"] = "jobs"]
    /\ victim' = NoJob
    /\ UNCHANGED <<queue, dependsOn, subVars, loopVars, chanVars, runVars, crashed, runner,
                   before, found, toStop, slots, asked, stopped, careless>>

TerminateReturns ==
    /\ op["terminate"] = "jobs"
    /\ toStop = {}
    /\ op' = [op EXCEPT !["terminate"] = "returned"]
    /\ UNCHANGED <<vars, runner, before, found, toStop, victim, slots, asked, stopped, ended,
                   careless>>

-----------------------------------------------------------------------------
(* Status and StartMonitor *)

CallStatus ==
    /\ BeginRange("status", "idle", "range")
    /\ asked' = queue
    /\ UNCHANGED careless

\* The first call of Jobs gives the number of summaries.
StatusCounts ==
    /\ op["status"] = "range"
    /\ \E jobs \in SUBSET queue :
          /\ EndRange("status", jobs)
          /\ slots' = Cardinality(jobs)
          /\ careless' = (careless \/ jobs # before["status"])
    /\ op' = [op EXCEPT !["status"] = "counted"]
    /\ UNCHANGED <<vars, runner, found, toStop, victim, asked, stopped, ended>>

\* The second gives their contents.
StatusRangesAgain ==
    /\ BeginRange("status", "counted", "again")
    /\ careless' = (careless \/ Cardinality(queue) # slots)
    /\ UNCHANGED asked

\* One summary for each job, unless there are more jobs than summaries: then the
\* index is out of range and the caller panics.
StatusFills ==
    /\ op["status"] = "again"
    /\ \E jobs \in SUBSET queue :
          /\ EndRange("status", jobs)
          /\ found' = jobs
          /\ careless' = (careless \/ jobs # before["status"])
          /\ crashed' = (Cardinality(jobs) > slots)
    /\ op' = [op EXCEPT !["status"] = "returned"]
    /\ UNCHANGED <<subVars, queueVars, loopVars, chanVars, runVars, runner, toStop, victim,
                   slots, asked, stopped, ended>>

\* A pass of the monitor counts the statuses that it meets.
MonitorPass ==
    \/ /\ BeginRange("monitor", "idle", "range")
       /\ UNCHANGED <<asked, careless>>
    \/ /\ op["monitor"] = "range"
       /\ op' = [op EXCEPT !["monitor"] = "idle"]
       /\ before' = [before EXCEPT !["monitor"] = {}]
       /\ UNCHANGED <<vars, runner, found, toStop, victim, slots, asked, stopped, ended,
                      careless>>

-----------------------------------------------------------------------------
(* The core beside them *)

\* Mutation: the reference to the runner is dropped when the job is over.
KeepsRunnerUntilClosed(j) ==
    \/ NewRunnerFails(j) /\ j \notin runner /\ UNCHANGED runner
    \/ /\ j \in runner
       /\ PrepareFails(j) \/ CreateFails(j) \/ Create(j)
       /\ UNCHANGED runner
    \/ gor[j] # "prepare" /\ JobStep(j) /\ runner' = IF gor[j] = "close" THEN runner \ {j}
                                                      ELSE runner

\* Run begins when NewRunner has made the runner and the job refers to it.
KeepsRunner(j) ==
    \/ NewRunnerFails(j) /\ j \notin runner /\ UNCHANGED runner
    \/ /\ j \in runner
       /\ PrepareFails(j) \/ CreateFails(j) \/ Create(j)
       /\ UNCHANGED runner
    \/ gor[j] # "prepare" /\ JobStep(j) /\ UNCHANGED runner

\* The goroutine sets dockerJob.runner.
SetRunner(j) ==
    /\ gor[j] = "prepare"
    /\ j \notin runner
    /\ runner' = runner \cup {j}
    /\ UNCHANGED vars

\* What the core does is recorded for the properties.
Recorded ==
    /\ ended' = ended \cup {j \in Job : status'[j] \in Finished}
    /\ UNCHANGED stopped

\* An Add that is not noticed by whoever ranges over the map.
SubmitterRuns(s) ==
    /\ SubmitterStep(s)
    /\ careless' = (careless \/ (queue' # queue /\ \E r \in Reader : Ranging(r)))
    /\ UNCHANGED <<runner, op, before, found, toStop, victim, slots, asked>>
    /\ Recorded

JobRuns(j) == (KeepsRunner(j) \/ SetRunner(j)) /\ UNCHANGED callVars /\ Recorded

OthersRun ==
    /\ LoopStep \/ (\E j \in Job : ContainerExits(j) \/ MonitorStep(j)) \/ Crash
    /\ UNCHANGED <<runner, callVars>>
    /\ Recorded

CallStep ==
    \/ CallTerminate \/ TerminateLists \/ MarkFailed \/ TerminateReturns
    \/ \E j \in Job : TerminateNil(j) \/ StopContainer(j)
    \/ CallStatus \/ StatusCounts \/ StatusRangesAgain \/ StatusFills
    \/ MonitorPass
    \/ \E s \in Submitter : MapFatal(s)

OperationsNext ==
    /\ ~crashed
    /\ \/ \E s \in Submitter : SubmitterRuns(s)
       \/ \E j \in Job : JobRuns(j)
       \/ OthersRun
       \/ CallStep

OperationsSpec == OperationsInit /\ [][OperationsNext]_allVars

\* The Go scheduler runs every job's goroutine. Nothing is assumed of plugins, whose
\* containers may run for ever, nor of the loop and the clients.
OperationsFairSpec ==
    OperationsSpec /\ \A j \in Job : WF_allVars(~crashed /\ JobRuns(j))

-----------------------------------------------------------------------------
(* Properties *)

\* When TerminateJobs returns, the jobs whose container it stopped while it was up
\* are down and have a final status, whatever their monitors and goroutines wrote
\* in the meantime.
TerminatedAreOver ==
    op["terminate"] = "returned" =>
        \A j \in stopped : container[j] # "up" /\ status[j] \in Finished

\* Termination writes statuses beside the core and may even be undone (Run sets
\* Running after it), but still no job is started before each of its dependencies
\* has ended or has been terminated once.
StartedAfterEnded == \A j \in Job : gor[j] # "idle" => dependsOn[j] \cap Job \subseteq ended

\* A call made while nothing is being added, on jobs whose runners exist, does not
\* end the process: a runner that is there stays there, and the two loops of
\* Status find the same jobs.
SafeWhenQuiet == crashed /\ doomed = {} => careless

\* If Status survives, it has a summary for every job that was there when it was
\* called and no summary is left blank, although it looks at the queue twice.
StatusComplete ==
    op["status"] = "returned" /\ ~crashed =>
        asked \subseteq found /\ Cardinality(found) = slots

\* A job that was stopped while its container was up gives its token back, even if
\* its plugin would have run for ever and whatever all the others do.
StoppedFreesSlot == \A j \in Job : j \in stopped ~> (gor[j] \in {"send", "done"} \/ crashed)

-----------------------------------------------------------------------------
(* Why they hold: the parts of an inductive invariant. SchedulingInv of the core *)
(* still holds; PreparingIsStarting does not, since a job may be terminated      *)
(* before its container is made.                                                 *)

\* Only a job whose goroutine has begun has a runner.
RunnersStarted ==
    /\ \A j \in runner : gor[j] # "idle"
    /\ op["terminate"] = "mark" => victim \in runner

\* Every job with a final status, and every dependency of a job that can start,
\* has ended.
EndedRecorded ==
    /\ \A j \in Job : status[j] \in Finished => j \in ended
    /\ \A j \in Job : status[j] \notin {"Submitted", "Pending"} =>
          dependsOn[j] \cap Job \subseteq ended

\* A container that has been up belongs to a goroutine that has started it.
ContainersStarted ==
    \A j \in Job : container[j] \in {"up", "exited", "removed"} =>
        gor[j] \notin {"idle", "prepare", "storing", "created"}

\* What was stopped stays down, and is over but for the moment before MarkFailed.
StoppedOver ==
    \A j \in stopped :
        /\ container[j] \in {"exited", "removed"}
        /\ status[j] \in Finished \/ (op["terminate"] = "mark" /\ victim = j)

\* The jobs a careful call has in hand have runners, and the second loop of a
\* careful Status finds as many jobs as the first.
CarefulCalls ==
    ~careless =>
        /\ op["terminate"] = "range" => \A j \in before["terminate"] : Matches(j) => j \in runner
        /\ op["terminate"] \in {"jobs", "mark"} => toStop \subseteq runner
        /\ op["status"] = "again" => Cardinality(before["status"]) = slots

\* What Status has in hand: jobs do not leave the queue.
StatusAccount ==
    /\ before["status"] \subseteq queue
    /\ op["status"] \in {"range", "again"} => asked \subseteq before["status"]
    /\ op["status"] = "counted" => asked \subseteq queue /\ slots <= Cardinality(queue)
    /\ op["status"] = "again" => slots <= Cardinality(before["status"])

OperationsInv ==
    /\ SchedulingInv
    /\ RunnersStarted
    /\ EndedRecorded
    /\ ContainersStarted
    /\ StoppedOver
    /\ CarefulCalls
    /\ StatusAccount
=============================================================================
