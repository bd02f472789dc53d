------------------------ MODULE DockerComputeManager ------------------------
(***************************************************************************)
(* The scheduling core of the local Docker provider                        *)
(* (providers/docker): the in-memory job queue, the runner loop that owns  *)
(* the queueEvents channel, the goroutine spawned for each job, the log    *)
(* and container monitors of that job, and the callers of SubmitJobs.      *)
(*                                                                         *)
(* queueEvents is unbuffered, so a send and its receive are one step, taken *)
(* when the loop stands at its select: Receive... below.                   *)
(***************************************************************************)
EXTENDS Naturals, Sequences, FiniteSets

CONSTANTS
    Job,            \* the jobs that may be submitted
    NoJob,          \* an identifier no submitted job carries: the "" of MapDependencies
    Submitter,      \* the goroutines that call SubmitJobs, one event each
    Batch,          \* Batch[s]: the jobs of the event that s submits, in order
    ManifestDeps,   \* ManifestDeps[j]: the dependency sets the manifest of j may carry
    Concurrency,    \* DockerComputeManagerConfig.Concurrency
    Faults,         \* the external failures that may occur
    TornReads       \* TRUE: a racing reader may see a half-written Status string

FaultKind == {"registry", "client", "prepare", "create", "start", "logs",
              "logread", "wait"}

ASSUME JobAssumption == IsFiniteSet(Job) /\ NoJob \notin Job

ASSUME SubmitterAssumption == IsFiniteSet(Submitter)

\* No job is in two batches or twice in one: RunParallel makes a new job, with a
\* new identifier, for every manifest of every event.
ASSUME BatchAssumption ==
    /\ Batch \in [Submitter -> Seq(Job)]
    /\ \A s, t \in Submitter : \A m \in DOMAIN Batch[s], n \in DOMAIN Batch[t] :
          Batch[s][m] = Batch[t][n] => s = t /\ m = n

ASSUME DepsAssumption == ManifestDeps \in [Job -> SUBSET SUBSET (Job \cup {NoJob})]

ASSUME ConfigAssumption ==
    /\ Concurrency \in Nat
    /\ Faults \subseteq FaultKind
    /\ TornReads \in BOOLEAN

-----------------------------------------------------------------------------
Finished == {"Succeeded", "Failed"}

\* The job states of the code, and the value a reader sees between the two
\* words of the store Starting -> Running.
JobStatus == {"Submitted", "Pending", "Runnable", "Starting", "Running", "Torn"}
             \cup Finished

\* Mutation: a dependency being started counts as finished.
UnfinishedWithoutStarting == {"Submitted", "Pending", "Runnable", "Running"}

UnfinishedDepStatusList == {"Submitted", "Pending", "Runnable", "Starting", "Running"}

\* Concurrency 0 stands for the default of one.
Capacity == IF Concurrency = 0 THEN 1 ELSE Concurrency

VARIABLES
    queue,       \* the jobs in InMemoryJobQueue.queue
    status,      \* DockerJob.Status
    dependsOn,   \* Job.DependsOn, as MapDependencies filled it in
    next,        \* next[s]: index in Batch[s] of the job to submit
    subpc,       \* where the SubmitJobs call of s stands
    loop,        \* where the runner loop stands
    todo,        \* jobsToUpdate not yet visited by UpdateJobs
    canStart,    \* pendingThatCanStart
    picked,      \* the job GetNextRunnable returned
    limiter,     \* the number of tokens in the limiter channel
    wake,        \* jobs whose PENDING ... CAN START goroutine waits to send
    gor,         \* where the goroutine of each job stands
    mon,         \* jobs whose container monitor is running
    container,   \* the container of each job, as the Docker daemon knows it
    doomed,      \* jobs whose goroutine is unwinding a panic
    crashed      \* the process has died of a panic

subVars   == <<next, subpc>>
queueVars == <<queue, status, dependsOn>>
loopVars  == <<loop, todo, canStart, picked>>
chanVars  == <<limiter, wake>>
runVars   == <<gor, mon, container, doomed>>
vars      == <<subVars, queueVars, loopVars, chanVars, runVars, crashed>>

GorState == {"idle", "prepare", "storing", "created", "wait", "close", "release",
             "send", "done"}

\* The goroutines that hold a token of the limiter.
Holding == {"prepare", "storing", "created", "wait", "close", "release"}

TypeOK ==
    /\ queue \subseteq Job
    /\ status \in [Job -> JobStatus]
    /\ dependsOn \in [Job -> SUBSET (Job \cup {NoJob})]
    /\ next \in [Submitter -> Nat \ {0}]
    /\ subpc \in [Submitter -> {"submit", "send", "failed"}]
    /\ loop \in {"select", "collect", "update", "limit"}
    /\ todo \subseteq Job
    /\ canStart \subseteq Job
    /\ picked \in Job \cup {NoJob}
    /\ limiter \in 0 .. Capacity
    /\ wake \subseteq Job
    /\ gor \in [Job -> GorState]
    /\ mon \in [Job -> BOOLEAN]
    /\ container \in [Job -> {"none", "created", "up", "exited", "removed"}]
    /\ doomed \subseteq Job
    /\ crashed \in BOOLEAN

Init ==
    /\ queue = {}
    /\ status = [j \in Job |-> "Submitted"]
    /\ dependsOn = [j \in Job |-> {}]
    /\ next = [s \in Submitter |-> 1]
    /\ subpc = [s \in Submitter |-> "submit"]
    /\ loop = "select"
    /\ todo = {}
    /\ canStart = {}
    /\ picked = NoJob
    /\ limiter = 0
    /\ wake = {}
    /\ gor = [j \in Job |-> "idle"]
    /\ mon = [j \in Job |-> FALSE]
    /\ container = [j \in Job |-> "none"]
    /\ doomed = {}
    /\ crashed = FALSE

-----------------------------------------------------------------------------
(* SubmitJobs and AddJob *)

\* The keys of SubmissionIdMap when s submits its next job: the manifests of the
\* jobs that s has already submitted.
Submitted(s) == {Batch[s][i] : i \in 1 .. (next[s] - 1)}

\* A dependency that is not in the map leaves its slot of DependsOn empty.
MapDependencies(s, D) == {IF d \in Submitted(s) THEN d ELSE NoJob : d \in D}

AddJob(s) ==
    /\ subpc[s] = "submit"
    /\ next[s] <= Len(Batch[s])
    /\ LET j == Batch[s][next[s]]
       IN  /\ \E D \in ManifestDeps[j] :
                 dependsOn' = [dependsOn EXCEPT ![j] = MapDependencies(s, D)]
           /\ queue' = queue \cup {j}
    /\ subpc' = [subpc EXCEPT ![s] = "send"]
    /\ UNCHANGED <<next, status, loopVars, chanVars, runVars, crashed>>

\* The job's plugin is not registered: SubmitJobs returns, the rest of the batch
\* is never added.
RegistryMiss(s) ==
    /\ "registry" \in Faults
    /\ subpc[s] = "submit"
    /\ next[s] <= Len(Batch[s])
    /\ subpc' = [subpc EXCEPT ![s] = "failed"]
    /\ UNCHANGED <<next, queueVars, loopVars, chanVars, runVars, crashed>>

-----------------------------------------------------------------------------
(* The runner loop *)

\* The select takes a SUBMITTED event; AddJob returns to the submitter.
ReceiveSubmitted(s) ==
    /\ loop = "select"
    /\ subpc[s] = "send"
    /\ loop' = "collect"
    /\ subpc' = [subpc EXCEPT ![s] = "submit"]
    /\ next' = [next EXCEPT ![s] = @ + 1]
    /\ UNCHANGED <<todo, canStart, picked, queueVars, chanVars, runVars, crashed>>

\* A FINISHED event, sent by the deferred function of a job goroutine.
ReceiveFinished(j) ==
    /\ loop = "select"
    /\ gor[j] = "send"
    /\ loop' = "collect"
    /\ gor' = [gor EXCEPT ![j] = "done"]
    /\ UNCHANGED <<todo, canStart, picked, subVars, queueVars, chanVars, mon,
                   container, doomed, crashed>>

\* A PENDING ... CAN START event.
ReceivePending(j) ==
    /\ loop = "select"
    /\ j \in wake
    /\ loop' = "collect"
    /\ wake' = wake \ {j}
    /\ UNCHANGED <<todo, canStart, picked, subVars, queueVars, limiter, runVars,
                   crashed>>

\* UpdateJobs copies the queue under its lock, then works on the copy.
Collect ==
    /\ loop = "collect"
    /\ todo' = queue
    /\ canStart' = {}
    /\ loop' = "update"
    /\ UNCHANGED <<picked, subVars, queueVars, chanVars, runVars, crashed>>

\* The dependencies that getJobDeps finds in the queue (the others are nil).
JobDeps(j) == dependsOn[j] \cap queue

HasUnfinishedDependencies(j) == \E d \in JobDeps(j) : status[d] \in UnfinishedDepStatusList

\* Mutation: a job without dependencies is runnable whatever its status.
NewStatusUnguarded(j) ==
    CASE dependsOn[j] = {} -> "Runnable"
      [] dependsOn[j] # {} /\ status[j] = "Submitted" -> "Pending"
      [] dependsOn[j] # {} /\ status[j] = "Pending" /\ ~HasUnfinishedDependencies(j)
           -> "Runnable"
      [] OTHER -> status[j]

\* One job moves by at most one state in one pass.
NewStatus(j) ==
    CASE dependsOn[j] = {} /\ status[j] = "Submitted" -> "Runnable"
      [] dependsOn[j] # {} /\ status[j] = "Submitted" -> "Pending"
      [] dependsOn[j] # {} /\ status[j] = "Pending" /\ ~HasUnfinishedDependencies(j)
           -> "Runnable"
      [] OTHER -> status[j]

UpdateJob(j) ==
    /\ loop = "update"
    /\ j \in todo
    /\ todo' = todo \ {j}
    /\ status' = [status EXCEPT ![j] = NewStatus(j)]
    /\ canStart' = IF status[j] = "Pending" /\ NewStatus(j) = "Runnable"
                   THEN canStart \cup {j} ELSE canStart
    /\ UNCHANGED <<queue, dependsOn, loop, picked, subVars, chanVars, runVars, crashed>>

GetNextRunnable(j) ==
    /\ loop = "update"
    /\ todo = {}
    /\ j \in queue
    /\ status[j] = "Runnable"
    /\ status' = [status EXCEPT ![j] = "Starting"]
    /\ picked' = j
    /\ loop' = "limit"
    /\ UNCHANGED <<queue, dependsOn, todo, canStart, subVars, chanVars, runVars, crashed>>

\* GetNextRunnable returns nil: the loop goes back to its select.
NothingRunnable ==
    /\ loop = "update"
    /\ todo = {}
    /\ \A j \in queue : status[j] # "Runnable"
    /\ loop' = "select"
    /\ UNCHANGED <<todo, canStart, picked, queueVars, subVars, chanVars, runVars, crashed>>

\* Mutation: the loop does not wait for a token.
SlotAlwaysFree == TRUE

SlotFree == limiter < Capacity

\* Mutation: no goroutine is spawned for the promoted jobs.
StartJobWithoutWake ==
    /\ loop = "limit"
    /\ SlotFree
    /\ limiter' = limiter + 1
    /\ gor' = [gor EXCEPT ![picked] = "prepare"]
    /\ picked' = NoJob
    /\ canStart' = {}
    /\ loop' = "select"
    /\ UNCHANGED <<todo, wake, queueVars, subVars, mon, container, doomed, crashed>>

\* The loop blocks here, receiving nothing, until a token is free; then it
\* spawns the job's goroutine and one goroutine for every promoted job.
StartJob ==
    /\ loop = "limit"
    /\ SlotFree
    /\ limiter' = limiter + 1
    /\ gor' = [gor EXCEPT ![picked] = "prepare"]
    /\ wake' = wake \cup canStart
    /\ picked' = NoJob
    /\ canStart' = {}
    /\ loop' = "select"
    /\ UNCHANGED <<todo, queueVars, subVars, mon, container, doomed, crashed>>

-----------------------------------------------------------------------------
(* The goroutine of a job: NewRunner, Run, Close, then the deferred send *)

\* Mutation: the function that gives the token back is deferred too late.
NewRunnerFailsKeepingToken(j) ==
    /\ "client" \in Faults
    /\ gor[j] = "prepare"
    /\ status' = [status EXCEPT ![j] = "Failed"]
    /\ gor' = [gor EXCEPT ![j] = "done"]
    /\ UNCHANGED <<queue, dependsOn, subVars, loopVars, chanVars, mon, container, doomed,
                   crashed>>

\* NewRunner fails: the status is set, but the code goes on with a nil runner
\* and panics; the deferred functions run before the process dies.
NewRunnerFails(j) ==
    /\ "client" \in Faults
    /\ gor[j] = "prepare"
    /\ status' = [status EXCEPT ![j] = "Failed"]
    /\ doomed' = doomed \cup {j}
    /\ gor' = [gor EXCEPT ![j] = "release"]
    /\ UNCHANGED <<queue, dependsOn, subVars, loopVars, chanVars, mon, container, crashed>>

\* The image pull or a configuration fails: Run returns the error, which is
\* logged; nothing sets the status.
PrepareFails(j) ==
    /\ "prepare" \in Faults
    /\ gor[j] = "prepare"
    /\ gor' = [gor EXCEPT ![j] = "close"]
    /\ UNCHANGED <<queueVars, subVars, loopVars, chanVars, mon, container, doomed, crashed>>

CreateFails(j) ==
    /\ "create" \in Faults
    /\ gor[j] = "prepare"
    /\ status' = [status EXCEPT ![j] = "Failed"]
    /\ gor' = [gor EXCEPT ![j] = "close"]
    /\ UNCHANGED <<queue, dependsOn, subVars, loopVars, chanVars, mon, container, doomed,
                   crashed>>

\* The container is created and Status becomes Running, in one store or in two.
Create(j) ==
    /\ gor[j] = "prepare"
    /\ container' = [container EXCEPT ![j] = "created"]
    /\ IF TornReads
       THEN /\ status' = [status EXCEPT ![j] = "Torn"]
            /\ gor' = [gor EXCEPT ![j] = "storing"]
       ELSE /\ status' = [status EXCEPT ![j] = "Running"]
            /\ gor' = [gor EXCEPT ![j] = "created"]
    /\ UNCHANGED <<queue, dependsOn, subVars, loopVars, chanVars, mon, doomed, crashed>>

\* The second word of the string reaches memory.
StoreRunning(j) ==
    /\ gor[j] = "storing"
    /\ status' = [status EXCEPT ![j] = "Running"]
    /\ gor' = [gor EXCEPT ![j] = "created"]
    /\ UNCHANGED <<queue, dependsOn, subVars, loopVars, chanVars, mon, container, doomed,
                   crashed>>

StartFails(j) ==
    /\ "start" \in Faults
    /\ gor[j] = "created"
    /\ status' = [status EXCEPT ![j] = "Failed"]
    /\ gor' = [gor EXCEPT ![j] = "close"]
    /\ UNCHANGED <<queue, dependsOn, subVars, loopVars, chanVars, mon, container, doomed,
                   crashed>>

\* The container starts; the log monitor and the container monitor are spawned.
Start(j) ==
    /\ gor[j] = "created"
    /\ container' = [container EXCEPT ![j] = "up"]
    /\ mon' = [mon EXCEPT ![j] = TRUE]
    /\ gor' = [gor EXCEPT ![j] = "wait"]
    /\ UNCHANGED <<queueVars, subVars, loopVars, chanVars, doomed, crashed>>

\* The container starts but its log cannot be opened: NewDockerRunMonitor
\* returns nil, and Run calls Wait on it and panics.
MonitorMissing(j) ==
    /\ "logs" \in Faults
    /\ gor[j] = "created"
    /\ container' = [container EXCEPT ![j] = "up"]
    /\ status' = [status EXCEPT ![j] = "Failed"]
    /\ doomed' = doomed \cup {j}
    /\ gor' = [gor EXCEPT ![j] = "close"]
    /\ UNCHANGED <<queue, dependsOn, subVars, loopVars, chanVars, mon, crashed>>

\* Mutation: the log is read without following it, and ends at once.
LogEndsUnfollowed(j) ==
    /\ gor[j] = "wait"
    /\ gor' = [gor EXCEPT ![j] = "close"]
    /\ UNCHANGED <<queueVars, subVars, loopVars, chanVars, mon, container, doomed, crashed>>

\* The log stream ends with the container: StdCopy returns nil and Wait returns.
LogEnds(j) ==
    /\ gor[j] = "wait"
    /\ container[j] = "exited"
    /\ gor' = [gor EXCEPT ![j] = "close"]
    /\ UNCHANGED <<queueVars, subVars, loopVars, chanVars, mon, container, doomed, crashed>>

\* Reading the log fails, because of the connection or because the container
\* monitor has closed the reader: Wait returns and the status is Failed.
LogFails(j) ==
    /\ gor[j] = "wait"
    /\ "logread" \in Faults \/ ~mon[j]
    /\ status' = [status EXCEPT ![j] = "Failed"]
    /\ gor' = [gor EXCEPT ![j] = "close"]
    /\ UNCHANGED <<queue, dependsOn, subVars, loopVars, chanVars, mon, container, doomed,
                   crashed>>

\* The deferred Close: a container that is up is not removed (Force is not set).
CloseRunner(j) ==
    /\ gor[j] = "close"
    /\ container' = [container EXCEPT ![j] =
                        IF @ \in {"created", "exited"} THEN "removed" ELSE @]
    /\ gor' = [gor EXCEPT ![j] = "release"]
    /\ UNCHANGED <<queueVars, subVars, loopVars, chanVars, mon, doomed, crashed>>

\* Mutation: the event is sent first, and the token given back once it is taken.
SendBeforeRelease(j) ==
    /\ gor[j] = "release"
    /\ loop = "select"
    /\ loop' = "collect"
    /\ limiter' = limiter - 1
    /\ gor' = [gor EXCEPT ![j] = "done"]
    /\ UNCHANGED <<todo, canStart, picked, wake, queueVars, subVars, mon, container, doomed,
                   crashed>>

\* The deferred function gives its token back, then sends the FINISHED event.
Release(j) ==
    /\ gor[j] = "release"
    /\ limiter > 0
    /\ limiter' = limiter - 1
    /\ gor' = [gor EXCEPT ![j] = "send"]
    /\ UNCHANGED <<wake, queueVars, subVars, loopVars, mon, container, doomed, crashed>>

\* The deferred functions have returned: the panic ends the process.
Crash ==
    /\ \E j \in doomed : gor[j] = "done"
    /\ crashed' = TRUE
    /\ UNCHANGED <<subVars, queueVars, loopVars, chanVars, runVars>>

-----------------------------------------------------------------------------
(* The container and its monitor *)

ContainerExits(j) ==
    /\ container[j] = "up"
    /\ container' = [container EXCEPT ![j] = "exited"]
    /\ UNCHANGED <<queueVars, subVars, loopVars, chanVars, gor, mon, doomed, crashed>>

\* ContainerWait delivers the exit code.
MonitorReports(j) ==
    /\ mon[j]
    /\ container[j] \in {"exited", "removed"}
    /\ \E outcome \in Finished : status' = [status EXCEPT ![j] = outcome]
    /\ mon' = [mon EXCEPT ![j] = FALSE]
    /\ UNCHANGED <<queue, dependsOn, subVars, loopVars, chanVars, gor, container, doomed,
                   crashed>>

\* ContainerWait fails, because of the daemon or because Close has already
\* removed the container.
MonitorFails(j) ==
    /\ mon[j]
    /\ "wait" \in Faults \/ container[j] = "removed"
    /\ status' = [status EXCEPT ![j] = "Failed"]
    /\ mon' = [mon EXCEPT ![j] = FALSE]
    /\ UNCHANGED <<queue, dependsOn, subVars, loopVars, chanVars, gor, container, doomed,
                   crashed>>

-----------------------------------------------------------------------------
SubmitterStep(s) == AddJob(s) \/ RegistryMiss(s)

\* The runner loop, and the sends it takes part in.
LoopStep ==
    \/ \E s \in Submitter : ReceiveSubmitted(s)
    \/ \E j \in Job : ReceiveFinished(j) \/ ReceivePending(j)
    \/ Collect
    \/ \E j \in Job : UpdateJob(j) \/ GetNextRunnable(j)
    \/ NothingRunnable
    \/ StartJob

\* A step of the goroutine of j (its send is a step of the loop).
JobStep(j) ==
    \/ NewRunnerFails(j) \/ PrepareFails(j) \/ CreateFails(j) \/ Create(j)
    \/ StoreRunning(j) \/ StartFails(j) \/ Start(j) \/ MonitorMissing(j)
    \/ LogEnds(j) \/ LogFails(j) \/ CloseRunner(j) \/ Release(j)

MonitorStep(j) == MonitorReports(j) \/ MonitorFails(j)

Next ==
    /\ ~crashed
    /\ \/ \E s \in Submitter : SubmitterStep(s)
       \/ LoopStep
       \/ \E j \in Job : JobStep(j) \/ ContainerExits(j) \/ MonitorStep(j)
       \/ Crash

Spec == Init /\ [][Next]_vars

-----------------------------------------------------------------------------
(* Fairness: every goroutine that can take a step eventually takes one (the Go  *)
(* scheduler), the loop receives while a sender waits, and a container that is  *)
(* up eventually exits, which is assumed of the plugins.                       *)

Alive(A) == ~crashed /\ A

Fairness ==
    /\ WF_vars(Alive(LoopStep))
    /\ \A s \in Submitter : WF_vars(Alive(SubmitterStep(s)))
    /\ \A j \in Job : /\ WF_vars(Alive(JobStep(j)))
                      /\ WF_vars(Alive(ContainerExits(j)))
                      /\ WF_vars(Alive(MonitorStep(j)))

FairSpec == Spec /\ Fairness

-----------------------------------------------------------------------------
(* Safety *)

\* A job is handed to a goroutine only when every dependency of it that was
\* submitted has reached a final status, and these stay final: the pass of
\* UpdateJobs reads them while the goroutines and monitors write them.
DependencyOrder ==
    \A j \in Job : gor[j] # "idle" =>
        \A d \in dependsOn[j] \cap Job : status[d] \in Finished

\* The tokens in the limiter are exactly those of the goroutines that have not
\* given theirs back, whichever way its run ended.
LimiterAccount == limiter = Cardinality({j \in Job : gor[j] \in Holding})

\* Every pass of the loop starts at most one job, so between passes there must be
\* an event still to come for every job left Runnable: the send of a submitter
\* or of a promoted job's goroutine. Otherwise a Runnable job would have to wait
\* for some other job to finish, although a slot may be free.
NoStrandedRunnable ==
    loop = "select" =>
        Cardinality({j \in queue : status[j] = "Runnable"})
            <= Cardinality({s \in Submitter : subpc[s] = "send"}) + Cardinality(wake)

\* "number of concurrent containers to allow on the host": the limiter counts
\* goroutines, which agrees with the containers that are up as long as no log or
\* wait request fails while its container runs on.
ContainersWithinLimit ==
    Faults \cap {"logs", "logread", "wait"} = {} =>
        Cardinality({j \in Job : container[j] = "up"}) <= Capacity

-----------------------------------------------------------------------------
(* Why DependencyOrder holds: the parts of an inductive invariant *)

\* A status is never half-written.
NoTornStatus == \A j \in Job : status[j] # "Torn" /\ gor[j] # "storing"

\* What s has submitted is in the queue.
SubmittedQueued ==
    \A s \in Submitter :
        /\ next[s] <= Len(Batch[s]) + 1
        /\ subpc[s] = "send" => next[s] <= Len(Batch[s])
        /\ \A i \in 1 .. Len(Batch[s]) :
              i < next[s] \/ (i = next[s] /\ subpc[s] = "send") => Batch[s][i] \in queue

\* Nothing else is in it.
QueuedSubmitted ==
    \A j \in queue : \E s \in Submitter : \E i \in 1 .. Len(Batch[s]) :
        j = Batch[s][i] /\ (i < next[s] \/ (i = next[s] /\ subpc[s] = "send"))

\* A job that is not queued is untouched, and the queue holds all that its jobs
\* depend on.
QueueClosed ==
    /\ \A j \in Job \ queue : status[j] = "Submitted"
    /\ \A j \in queue : dependsOn[j] \cap Job \subseteq queue
    /\ todo \subseteq queue

\* Only the loop moves a job up to Starting, and until then it has no goroutine
\* and no monitor that could write its status.
OneWriter ==
    /\ \A j \in Job : status[j] \in {"Submitted", "Pending", "Runnable"} => gor[j] = "idle"
    /\ \A j \in Job : gor[j] = "idle" => status[j] \notin {"Running", "Torn"} \cup Finished
    /\ \A j \in Job : mon[j] => gor[j] \notin {"idle", "prepare", "storing", "created"}
    /\ loop = "limit" => picked \in Job /\ gor[picked] = "idle" /\ status[picked] = "Starting"

\* Run may set Running: the job has no other status since the loop set Starting.
PreparingIsStarting == \A j \in Job : gor[j] = "prepare" => status[j] = "Starting"

DepsFinished(j) == \A d \in dependsOn[j] \cap Job : status[d] \in Finished

\* The dependencies of a job are over from the moment it is Runnable.
PromotedInOrder ==
    \A j \in Job : status[j] \notin {"Submitted", "Pending"} => DepsFinished(j)

\* This much holds even if half-written statuses can be seen.
SchedulingInv == SubmittedQueued /\ QueuedSubmitted /\ QueueClosed /\ OneWriter

OrderInv == SchedulingInv /\ PreparingIsStarting /\ NoTornStatus /\ PromotedInOrder

-----------------------------------------------------------------------------
(* Why NoStrandedRunnable and ContainersWithinLimit hold *)

\* The jobs that are Runnable or will be after the next pass, whatever it finds.
Due == {j \in queue : status[j] = "Runnable" \/ (status[j] = "Submitted" /\ dependsOn[j] = {})}

\* The submitters whose event is still to come.
Announcing == {s \in Submitter : subpc[s] = "send"}

\* The jobs promoted in the pass under way.
Promoted == IF loop \in {"update", "limit"} THEN canStart ELSE {}

\* The event that the pass under way has taken, until it has started a job.
Taken == IF loop \in {"collect", "update"} THEN 1 ELSE 0

EventsDue ==
    Cardinality(Due) <= Cardinality(Announcing) + Cardinality(wake)
                            + Cardinality(Promoted) + Taken

\* A job is promoted once.
PromotedOnce ==
    /\ \A j \in wake \cup Promoted : j \in queue /\ status[j] \notin {"Submitted", "Pending"}
    /\ wake \cap Promoted = {}

\* What the pass has visited and not moved on was added after it began.
PassComplete ==
    loop \in {"update", "limit"} =>
        \A j \in queue \ todo : status[j] = "Submitted" =>
            \/ dependsOn[j] # {}
            \/ \E s \in Announcing : j = Batch[s][next[s]]

EventInv == EventsDue /\ PromotedOnce /\ PassComplete

\* A container that is up has its goroutine at Wait and its monitor running.
UpMonitored == \A j \in Job : container[j] = "up" => gor[j] = "wait" /\ mon[j]

-----------------------------------------------------------------------------
(* How far submitters and jobs have come *)

SubmitterStage(s) == 2 * next[s] + (IF subpc[s] = "submit" THEN 0 ELSE 1)

LastSubmitterStage(s) == 2 * Len(Batch[s]) + 3

StatusRank(s) ==
    CASE s = "Submitted" -> 0
      [] s = "Pending"   -> 1
      [] s = "Runnable"  -> 2
      [] s = "Starting"  -> 3
      [] s = "Torn"      -> 4
      [] s = "Running"   -> 5
      [] s \in Finished  -> 6

GoroutineRank(g) ==
    CASE g = "idle"    -> 0
      [] g = "prepare" -> 1
      [] g = "storing" -> 2
      [] g = "created" -> 3
      [] g = "wait"    -> 4
      [] g = "close"   -> 5
      [] g = "release" -> 6
      [] g = "send"    -> 7
      [] g = "done"    -> 8

ContainerRank(c) ==
    CASE c = "none"    -> 0
      [] c = "created" -> 1
      [] c = "up"      -> 2
      [] c = "exited"  -> 3
      [] c = "removed" -> 4

\* The event of a promoted job: due, waiting to be sent, and otherwise none.
WakeRank(j) == IF j \in Promoted THEN 0 ELSE IF j \in wake THEN 1 ELSE 2

\* A promotion counts for more than the event it makes due, a step of the goroutine
\* for more than the container and the monitor that it sets going.
JobStage(j) ==
    3 * StatusRank(status[j]) + 4 * GoroutineRank(gor[j]) + ContainerRank(container[j])
    + (IF mon[j] THEN 0 ELSE 1) + WakeRank(j)

LastJobStage == 3 * 6 + 4 * 8 + 4 + 1 + 2

\* The steps until the loop is back at its select, at most.
PassLeft ==
    CASE loop = "collect" -> Cardinality(Job) + 3
      [] loop = "update"  -> Cardinality(todo) + 2
      [] loop = "limit"   -> 1
      [] loop = "select"  -> 0

\* Three goroutines write a job's status without a lock, and yet it is never taken
\* back. More: every step takes a submitter or a job nearer to its end, and none back,
\* or else the loop nearer to its select, and what is ahead of them is bounded: events
\* cannot keep the loop going round for ever.
CoreAdvances ==
    [][ \/ crashed'
        \/ /\ \A s \in Submitter : /\ SubmitterStage(s) <= SubmitterStage(s)'
                                   /\ SubmitterStage(s)' <= LastSubmitterStage(s)
           /\ \A j \in Job : /\ StatusRank(status[j]) <= StatusRank(status'[j])
                             /\ JobStage(j) <= JobStage(j)'
                             /\ JobStage(j)' <= LastJobStage
           /\ \/ \E s \in Submitter : SubmitterStage(s) < SubmitterStage(s)'
              \/ \E j \in Job : JobStage(j) < JobStage(j)'
              \/ PassLeft' < PassLeft
      ]_vars

-----------------------------------------------------------------------------
(* The scheduler that the core implements *)

\* How far the scheduler says a job has come.
PhaseOf(j) ==
    CASE j \notin queue -> "absent"
      [] j \in queue /\ gor[j] = "idle" -> "waiting"
      [] j \in queue /\ gor[j] # "idle" /\ status[j] \notin Finished -> "active"
      [] j \in queue /\ gor[j] # "idle" /\ status[j] \in Finished -> "over"

Scheduler == INSTANCE DependencyScheduler WITH
    Slots   <- Capacity,
    phase   <- [j \in Job |-> PhaseOf(j)],
    deps    <- [j \in Job |-> dependsOn[j] \cap Job],
    holding <- {j \in Job : gor[j] \in Holding},
    used    <- limiter

\* Every step of the core is a step of the scheduler or changes nothing it sees:
\* a job is started once, after its dependencies, with a slot, and is over for good.
ImplementsScheduler == Scheduler!Spec

-----------------------------------------------------------------------------
(* Liveness *)

\* AddJob always returns: the loop blocked on a full limiter is freed by a
\* goroutine that gives its token back before it sends to that same loop.
SubmitReturns == \A s \in Submitter : subpc[s] = "send" ~> (subpc[s] # "send" \/ crashed)

\* A job that became Runnable is started, whatever events compete for the loop.
RunnableStarts ==
    \A j \in Job : status[j] = "Runnable" ~> (status[j] # "Runnable" \/ crashed)

-----------------------------------------------------------------------------
(* What README.md says, which the code does not do *)

\* README.md: "A plugin runs once its required inputs are available, as
\* determined by the DAG structure". A pending job whose dependencies have all
\* finished is eventually started.
PendingJobStarts ==
    \A j \in Job :
        (status[j] = "Pending" /\ \A d \in dependsOn[j] \cap Job : status[d] \in Finished)
            ~> (status[j] # "Pending" \/ crashed)
=============================================================================
