# Specifications of cloudcompute

TLA+ models of the library in `src/`: how a compute is turned into events, how each event's
manifests are ordered and become jobs, and how the providers schedule, submit and stop them.
TLC checks the models on small instances; TLAPS proves, for every instance, every safety
property and action property that a passing run checks but one (`TakenBySameWords`), and two
refinements. Liveness is left to TLC.

## 1. The system

A *compute* is a set of events; an *event* is a set of *manifests* with dependencies among them;
a manifest becomes a *job* of one plugin (a container). `CloudCompute.RunParallel` takes events
from an event generator and hands each to a goroutine of its own, which sorts the manifests,
writes payloads, makes jobs and calls `SubmitJobs` of a provider. There are three providers
worth the name: Docker (a scheduler written here), AWS Batch and Argo (schedulers elsewhere).

| component (source) | state it keeps | operations | interacts with | what is hard | what makes it correct |
|---|---|---|---|---|---|
| Docker scheduling core (`providers/docker/docker-compute-manager.go`, `job-queue.go`, `docker-runner.go`, `docker-monitor.go`, `docker-compute-provider.go`) | queue of jobs with statuses, `queueEvents` channel, `limiter` channel, one goroutine and two monitors for each job | `SubmitJobs`/`AddJob`, the `runner` loop (`UpdateJobs`, `GetNextRunnable`), `Run`, `Close`, the monitors; `TerminateJobs`, `Status`, `StartMonitor` | Docker daemon, plugin registry, secrets; called by several event goroutines | statuses are written by goroutines and read by the loop without a lock; the loop blocks on the limiter while goroutines block on the loop; a pass starts one job; panics | order of dependencies; each slot has one holder; nobody is stuck; a job that can start does |
| Manifest ordering (`sort.go`, `NewArrayEventGenerator`) | a graph, indegrees, a stack | `TopologicalSort`, `SortManifests`, the constructor's loop | RunParallel, array generator | the graph knows only manifests that take part in a dependency; map iteration order; errors that are logged and ignored | an order that respects dependencies, cycles reported, no index out of range, it ends |
| Event generators (`eventgenerator.go`) | position, per-event loop position, scanner | `NextEvent` of four kinds | RunParallel | the last event, the last loop position, empty tokens, failed merges | every event once, in order, and an end |
| RunParallel and ConcurrentRunner (`cloudcompute.go`) | semaphore, goroutines, what the manifests of events share (Tags map, Environment array, payload identifier) | the loop, `Run`, `Wait`, the event goroutine | generator, provider, payload store, job store | several events at once on shared slices and maps; any step may fail | at most the given number of events at a time, all over before it returns, each job with its own environment and payload |
| AWS Batch provider (`providers/awsbatch/aws-batch.go`) | none; identifiers in `SubmissionIdMap` | `SubmitJobs`, `TerminateJobs`, `TerminateQueue`, `Status`, `QueueSummary`, registration, logs | AWS Batch | listings come in pages and states while jobs move on; which call is made depends on the state listed; a failed call is told only to the caller's function | dependencies kept; what is asked to stop stops, or its own call failed |
| Argo provider (`providers/k8sargo`) | none; templates and workflows on the server | `SubmitJobs`, `TerminateJobs`, `RegisterPlugin`, `UnregisterPlugin`, `Status` | Argo server | names made from identifiers, templates that disappear, one workflow for each event | whole workflows, distinct names, a termination that goes on after a failed stop |
| Payload and job store | external | `WritePayload`, `SaveJob` | event goroutine | either may fail | only their calls are modelled |
| k8ssimple, plugin registry, secrets manager, deep copy, job names, queries, CLI types | maps or nothing | single lookups, formatting, copies | | | not modelled, reasons in `PROJECT.json` |

## 2. Modules

| module | models | state and actions |
|---|---|---|
| `DockerComputeManager` | the Docker core: submitters, runner loop, job goroutines, monitors, container, limiter, crash by panic | One action for each point at which a goroutine can be interrupted: `AddJob`, `RegistryMiss`, `ReceiveSubmitted/Finished/Pending` (a send on the unbuffered channel with its receive), `Collect`, `UpdateJob`, `GetNextRunnable`, `NothingRunnable`, `StartJob`, then `NewRunnerFails` ... `Release` of the job, `MonitorReports`, `MonitorFails`, `Crash` |
| `DockerOperations` | `TerminateJobs`, `Status` and `StartMonitor` beside the core, and the field `runner` of a job | extends the core; each goroutine of it still takes the core's steps (`SubmitterRuns`, `JobRuns`, `OthersRun`), and the calls take theirs: `CallTerminate`, `TerminateLists`, `TerminateNil`, `StopContainer`, `MarkFailed`, `TerminateReturns`, `CallStatus`, `StatusCounts`, `StatusRangesAgain`, `StatusFills`, `MonitorPass`, `MapFatal` |
| `DependencyScheduler` | what the core promises: submit, start after dependencies with a slot, finish, release | the core implements it by `ImplementsScheduler` |
| `ManifestOrder` | `TopologicalSort` and both callers | `BuildGraph`, `Pop`, `FinishSort`, `PlaceManifest`, `PlaceForeign`, `PlacePastEnd`, `Rearrange` |
| `EventGenerators` | `NextEvent` of the four generators, as functions of the generator's state, and what each promises (`Promised`) | extended by `CloudComputeRun` |
| `CloudComputeRun` | `RunParallel`, `ConcurrentRunner`, the event goroutine, what events share | the loop (`EventError`, `FetchEvent`, `Dispatch`, `Wait`) and one action for each step of the goroutine (`Process`, `WritePayload`, `TagPayload`, `AppendEnv`, `CloneTags`, `SubmitJobs`, `SaveJob`, `StepFails`, `Release`), and the races that may end the process: `MapRace` between events, `MergeRace` between an event and the generator |
| `ParallelEvents` | what `RunParallel` promises | implemented by `CloudComputeRun` (`ImplementsPromise`) |
| `AwsBatchCompute` | submission and the three ways of stopping, with AWS Batch beside them | `SubmitJob`, `SubmitFails`, `Schedule`, `Run`, `Retry` (external), `Begin`, `ListPage`, `ListFails`, `StopJob`, `StopFails`, `NextPage` |
| `K8sArgo` | submission of workflows, names, termination, with the Argo server beside them | `BuildTask`, `TemplateMissing`, `CreateWorkflow`, `CreateRefused`, `UnregisterPlugin`, `ListWorkflows`, `ListFails`, `StopWorkflow`, `StopFails`, `StopEnds` |
| `MC...` | instances for TLC | |
| `..._proofs` | theorems about the module of that name; `DockerEvents_proofs` has those about the core's events and containers | section 4 |

`PROJECT.json` gives, for each definition, the lines of the source it stands for. Definitions
whose comment starts with "Mutation:" are never used by the models: each is a plausible bug that
some property is known to catch.

Choices of abstraction that a reader should know:

- A job, a manifest, an event identifier is a model value. Only where a property is about text
  (Argo's slugs) is text modelled, by a few characters of each class.
- The Docker channel `queueEvents` carries a message that nobody reads, so only who sends is
  kept. `limiter` is a number. A `select` takes any sender that waits.
- `UpdateJobs` is one action per job, between which any other goroutine may write a status:
  the queue's lock protects the map, not the jobs. `TornReads` adds the value that a racing
  reader may see between the two words of a store to a Go string. It is used for the store
  `Starting` to `Running`; the other stores of goroutines lead to a final value, with
  which a half-written one is equivalent for a reader, and the loop's own stores have no other
  reader.
- A panic in a job goroutine runs its deferred functions first, then ends the process: `doomed`
  is the time between. Nothing happens after `crashed`.
- In `CloudComputeRun` a manifest's environment is an array that several events may append to.
  `append` writes in place while the capacity lasts and copies otherwise; entry by entry it is
  recorded which event and manifest wrote last. An entry that is left out because the manifest
  already has it (`CC_EVENT_IDENTIFIER`), or whose value is set in place, is skipped or takes no
  room (`NextSlot`, `Room`).
- What events share depends on where they come from. All events of an array or a stream have one
  slice of manifests. Those of a batch have copies of the base event's manifests, but the copy
  assigns maps and slices (`deepcopy.go:190`) and the merge writes into the maps it finds, so they
  share the base event's Tags and Environment wherever it has any; an Environment that comes from
  the item is in turn shared by the manifests of its event. The fields `has` and `brings` of a
  compute say which of these there are. Events of a list are the caller's: the model takes them to
  have manifests of their own, as `eventgenerator.go:25` says they do.
- In `AwsBatchCompute` the pages of a listing are arbitrary, one at a time, each with states as
  they are at that moment. Retries take a job back to `RUNNABLE`, as AWS Batch does.
  A call that fails puts its job into `reported` and leaves it running.
- In `K8sArgo` a termination works on the list it was given, one stop after another, while events
  are submitted and workflows end.

## 3. Runs

State counts are of the complete state graphs; all runs finish.

| run | instance | checks | shows |
|---|---|---|---|
| `core_faults` | 1 event of 2 jobs, dependencies either way, limit 1, all 8 kinds of failure; 121 thousand states | `TypeOK`, `OrderInv`, `DependencyOrder`, `LimiterAccount`, `ImplementsScheduler`, `CoreAdvances` | whatever step fails, no job starts early, each token comes back once, the core stays a dependency scheduler, and no status is taken back |
| `core_live` | 3 jobs, two of which become runnable in one pass, limit 1 (configured as 0), torn reads; 75 thousand, `FairSpec` | `NoStrandedRunnable`, `ContainersWithinLimit`, `SubmitReturns`, `RunnableStarts` | a runnable job always has an event to come that starts it, the limit on goroutines is one on containers, and the loop and the limiter cannot block each other for ever |
| `operations` | 2 jobs in a chain, limit 2, one of `TerminateJobs`, `Status` and the monitor beside them; clients and creations may fail, the daemon may refuse to stop a container; 461 thousand, `OperationsFairSpec` | `OperationsTypeOK`, `LimiterAccount`, `StartedAfterEnded`, `TerminatedAreOver`, `SafeWhenQuiet`, `StatusComplete`, `StoppedFreesSlot` | termination from outside breaks neither the order nor the limiter, what it stopped is over and gives its token back; a call that overlaps no `Add` is harmless |
| `lost_wakeup` | 2 jobs, b after a, `FairSpec` | `PendingJobStarts` **violated** | section 6 |
| `order` | up to 3 manifests, every dependency relation among them and on a 4th outside, both callers; 57 thousand, `FairSpec` | `TypeOK`, `OrderRespectsDeps`, `CyclesFound`, `SortStaysInBounds`, `EventOrdered`, `SortAdvances`, `SortEnds` | the algorithm is right for every graph whatever the map order, and ends; the slice is outrun only by the array generator, and only when a dependency lies in another event |
| `run` | 13 computes: lists (two events, none, without tags, with `concurrency` 0), batches (sharing, merging, bringing Tags and Environment, with an item that lacks Actions), arrays (2 values with a loop of 2, identifiers already there, an end before the start), a stream with empty tokens; 1 or 2 at a time, spare capacity 0 to 5; all failures; 181 thousand, `FairSpec` | `TypeOK`, `EveryEventOnce`, `JobsOwnEnvironment`, `JobsOwnPayload`, `ImplementsPromise`, `RunAdvances`, `RunReturns` | events are neither lost nor repeated; where events do not use one map or array at once, jobs are submitted with what is theirs; all are over when the call returns; it returns, or the process dies of a cause named in `MayDie` |
| `stream_tail` | a stream ending in an empty token | `RunReturns` **violated** | section 6 |
| `env_alias` | an array of 2 values, spare capacity 5, one at a time | `JobsKeepEnvironment` **violated** | section 6 |
| `batch` | 4 jobs in 2 events, one dependency outside its event, one job that is retried once, each of the 3 ways of stopping; submission, listing and each stop call may fail; 3.0 million | `TypeOK`, `DependencyOrder`, `StopsAll`, `StopsWhatRan` | dependencies survive a failed sort; a job cannot slip through the listing except by a retry, nor through the handling except by its own call failing, of which the caller is told |
| `cancel_misses` | same without retries or failures | `QueryStopsAll` **violated** | section 6 |
| `argo` | 2 events; identifiers of up to 3 characters of 4 classes, two longer ones, loop positions 0 and 1; all failures; 181 thousand | `TypeOK`, `WorkflowComplete`, `TakenBySameWords`, `SlugIsLabel`, `ListedAreOver` | a workflow is whole or not created; an event is refused as a duplicate only if one of the same words (letters and digits, but for case) and loop position was there before; every workflow listed is over or its own stop failed |
| `argo_names` | events -1 and 1 of an array, no failures; 123 states | `NamesUnique` **violated** | section 6 |

Why the bounds are enough. Dependency order is about one job and one dependency; with both
orders of submission, each interleaving of submission, promotion and completion occurs, and the
property is proved for all sizes. Stranding a runnable job takes two promoted in one pass
(`core_live`); that two submitters do not do it either is the theorem `NoneStranded`. A call that
ranges over the queue can meet a job before it is added, queued, running or over; two in a chain
give every pair of these. A sort needs three nodes for an indegree of two with a separate source,
a cycle and an isolated node, and a fourth outside the event. Two events at a time are enough for
two to share a map or an array, four events to reuse a token and to go through a loop twice. What
is said of jobs whose events share something is said of one event at a time, where the hazard is
what the one before left behind: two events show it.
A listing is missed by a job that moves once while the listing does; four jobs give pages, a
dependency and a job that cannot be submitted.

`CHECK_DEADLOCK FALSE` is everywhere, since every system here ends (all jobs over, the call
returned) or dies of a panic; that it does not stop early is what the liveness properties say.

Fairness. `FairSpec` of the core is weak fairness of the loop, each submitter, each job goroutine,
each monitor, which is what the Go scheduler gives, and of each container's exit, which is an
assumption on plugins: a container that never exits rightly blocks its slot. No fairness among
senders on the channel is assumed (the other case of the loop's `select`, `control`, is never
sent to), nor among the jobs that `GetNextRunnable` may find (it ranges over a map);
`RunnableStarts` holds because there are finitely many. `FairSpec` of `CloudComputeRun` is weak
fairness of the loop and each goroutine;
that of `ManifestOrder` of its only thread. `OperationsFairSpec` assumes only that the goroutine
of each job runs: a stopped job must give its token back although its plugin, the loop and the
clients may do nothing more.

## 4. Proofs

Each module of theorems holds for any values of the constants that satisfy the assumptions
declared with them (finite sets of jobs, batches without repeated jobs, any dependencies, limit
and failures, and so on), and for nothing else unless the table says so.

| theorem | says | further assumption |
|---|---|---|
| `DockerComputeManager_proofs` | | |
| `TypeCorrect` | `Spec => []TypeOK`; in particular the limiter never exceeds its capacity | |
| `SchedulingInvariant` | the bookkeeping of queue, submitters and goroutines, even with torn reads | |
| `OrderInvariant`, `JobsStartInOrder` | `OrderInv`, and `DependencyOrder` from it | statuses are read whole |
| `LimiterAccounts` | the tokens are those of the goroutines that hold one | |
| `CoreImplementsScheduler` | the core implements `DependencyScheduler` | statuses are read whole |
| `DockerEvents_proofs` | | |
| `EventInvariant`, `NoneStranded` | `NoStrandedRunnable`, for any number of submitters | |
| `ContainersLimited` | `ContainersWithinLimit` (which speaks of runs without failing log or wait requests) | |
| `CoreStepsCounted` | `CoreAdvances`: what is ahead of the core shrinks with every step, torn reads and all failures included | |
| `DockerOperations_proofs` | | |
| `OperationsTypeCorrect`, `OperationsLimiter` | types and the limiter's account, whatever is called beside the core | |
| `StartsAfterEnds` | `StartedAfterEnded` | statuses are read whole |
| `TerminationHolds`, `QuietCallsSafe`, `StatusIsComplete` | `TerminatedAreOver`, `SafeWhenQuiet`, `StatusComplete` | |
| `DependencyScheduler_proofs` | `SchedulerTypes`, `SchedulerOrder`, `SchedulerSlots` | at least one slot |
| `ManifestOrder_proofs` | `SortInvariant`, and from it `SortTypes`, `DepsFirst`, `CyclesReported`, `BoundsHold`, `EventsOrdered`: every invariant of run `order`; `SortStepsCounted`: `SortAdvances` | |
| `CloudComputeRun_proofs` | | |
| `RunInvariant`, `RunTypes`, `PayloadsOwned` | the bookkeeping, `TypeOK`, `JobsOwnPayload` (which speaks of events that share no Tags map or run one at a time) | |
| `EnvironmentsOwned` | `JobsOwnEnvironment` (at submission, of events that share no Environment with room in it or run one at a time; later, of the former) | |
| `EveryEventTaken`, `RunKeepsPromise` | `EveryEventOnce`: no event skipped, repeated or out of order, and no end of the loop before the last (not that there is an end); `CloudComputeRun` implements `ParallelEvents` | |
| `RunStepsCounted` | `RunAdvances`: every step but an error of the generator brings the loop or an event nearer to its end | |
| `AwsBatchCompute_proofs` | `BatchInvariant`, and from it `BatchTypes`, `BatchOrder`, `QueueTerminated`, `RunningTerminated`: every invariant of run `batch`, failing calls included | |
| `K8sArgo_proofs` | `ArgoInvariant`, `ArgoTypes`, `WorkflowsWhole`, `WorkflowsEnded`, `SlugsAreLabels`: every invariant of run `argo` but `TakenBySameWords`, the slugs for identifiers of any length | |

No property is inductive as it stands; the arguments, module by module:

**Dependency order** (`OrderInv`). Nothing in `DependencyOrder` says that the status the loop
read is still the status when the goroutine starts, or that a finished dependency stays finished.
*OneWriter*: until a job is `Starting` only the loop writes its status, it has neither goroutine
nor monitor; afterwards the loop never does. *QueueClosed*: the dependencies that a job was
mapped to were queued before it, so `UpdateJobs` finds them all. *SubmittedQueued* and
*QueuedSubmitted* relate the queue to the submitters' positions, for *QueueClosed* and so that
`AddJob` adds a job only once. *PromotedInOrder* is the property itself from the moment of
promotion: a dependency not among the unfinished ones has a final status, and final statuses are
only replaced by final statuses. *NoTornStatus* excludes the value that is neither: torn reads
really break the order (section 6). The refinement follows: submission is `Submit` with earlier
jobs as dependencies, `StartJob` is `Start` (`PromotedInOrder` gives its guard), statuses becoming
final are `Finish`, `Release` is `Release`, the rest are stutters.

**No stranded job** (`EventInv`). *EventsDue* counts: the jobs that are `Runnable`, or
`Submitted` without dependencies and so promoted by whatever pass comes next, are no more than
the events still due: those of submitters, of finished jobs, of the jobs promoted in this pass
and the one just taken. A pass starts one job and consumes one event. *PromotedOnce* keeps two of
these from being the same event, *PassComplete* says that what a pass in progress has left
behind was added after it and has its submitter's event to come. `ContainersWithinLimit` follows
from *UpMonitored* (a container that is up has its goroutine at `Wait`, which holds a token) and
the limiter's account.

**Calls from outside** (`OperationsInv`). `SchedulingInv` survives termination;
`PreparingIsStarting` and `PromotedInOrder` do not, since a job may be terminated while its image
is pulled and be `Running` later. So order is stated, and proved, of the jobs that have *ended
once* (*EndedRecorded*). *StoppedOver*: a stopped container stays down, and its job is final but
for the moment before `Terminate` stores `Failed`. *CarefulCalls*: while no `Add` has overlapped
a call, the jobs it holds have their runners and both loops of `Status` see as many jobs.

**The sort** (`SortInv`). *Counted*: an indegree counts the dependencies not placed yet.
*Waiting*: the stack holds, once each, manifests that are not placed and whose dependencies all
are. *Remembered*: no manifest of the graph whose dependencies are placed is in neither stack nor
order. Then, when the stack is empty, what is left waits for something else that is left, which
is a cycle; and a cycle's members are never placed (*CyclesLeft*). Bounds: had the first
`Len(listing)` places all gone to manifests of the event, they would be all of its manifests, so
one that depends on the next would be among them, ahead of what it depends on.

**RunParallel** (`RunInv`, `PromiseKept`). *TokensCounted*: the semaphore holds the tokens of the
busy goroutines and of `Wait`. *EventsBounded*: what a generator's position and loop say it has
returned. *JobsInOrder*, *PayloadsNamed*, *EntriesOwned*: where the goroutine of an event is among
its manifests, and that what it has built is its own. For this either nothing it appends to is
shared or has room (*ArraysKept*), or no other goroutine is busy: with one token there is one
(`TokensCounted`), and what earlier events left in a shared array is written over before the job
is submitted (*ArraysApart*, *TagsApart*).
*PromiseKept* adds that the events so far are the promised ones.
An array's events are found by quotient and remainder of the position by the loop's length. A
stream's are what is left of its tokens without the empty ones, which is defined by recursion on
the tokens read: *StreamRead* counts what has been returned against what was kept of the tokens
passed (`Kept`, `Past`), an empty token adding to neither.

**AWS Batch** (`BatchInv`). *StatesCovered*: a job passes through the states in the order in which
`TerminateQueue` lists them, so its rank is never below the level listed and, once a level's last
page is there, a job of that rank has been seen. *RunningHandled*, *VendorJobsHandled*,
*PagesHandled*: what was listed is over, on the page in hand, or reported as failed.

**Argo** (`ArgoInv`). *TasksBuilt*: tasks and cloned templates grow together along the jobs;
*AllBuilt*: a workflow is created from a call's tasks when all are built. *ListedHandled*: what
`TerminateJobs` was given is over, still to be handled, or could not be stopped. That a slug is a
label is shown along `toSlugFast` (`WrittenUpTo`): after each character what has been written has
no two hyphens together, trimming takes the one at either end, and a label is written as it stands.

**Steps counted** (`SortAdvances`, `RunAdvances`, `CoreAdvances`). That these programs end is
liveness, but the half of it that an error in the code would break is a bound: a measure of what
is ahead that every step lowers. Of the sort it is one number (`StepsLeft`; the order repeats
no manifest, so there are no more of them than manifests). Of `RunParallel` and of the core it is kept for
the loop and for each event, submitter and job, so that the property also says that no actor is
set back by another, and for a job that its status never is. In the core a pass of the loop is a
circle and no progress of its own: `PassLeft` counts down to the `select`, and what leads out of
the `select` is an event, which brings its sender on. A promotion makes one event due and may
lower `WakeRank` by two, so it counts for three; a step of the goroutine may set a container and
its monitor going, and counts for four. What is left to TLC is that
they do not stop before their end, under the fairness of section 3: the liveness properties.

What is only model-checked: `TakenBySameWords`, which would need an induction along two
identifiers at once, and liveness (`SubmitReturns`, `RunnableStarts`, `StoppedFreesSlot`,
`SortEnds`, `RunReturns`), which needs fairness and `ENABLED` and is out of the prover's reach.
The library's induction theorems take an operator as a parameter, which the installed provers
cannot instantiate; the two recursive functions that proofs speak of (`Kept`, `WrittenUpTo`) are
reached by induction on a set of numbers instead, from the well-foundedness of `<` on them. All
findings of section 6 are counterexamples of TLC.

## 5. Not modelled, and why

- What a container is started with: `getContainerConfig` and `getHostConfig`. They are a function
  of the job and its plugin, but for one side effect, described at the end of section 6.
- `RegisterPlugin`, `JobLog` and `UnregisterPlugin` of AWS Batch, `RegisterPlugin`, `Status` and
  `JobLog` of Argo, pod patches and templates (`spec-overrides.go`): single calls to a server,
  whose request is a translation of the argument and whose answer changes nothing here.
- The simple Kubernetes provider: a prototype whose `SubmitJobs` does not satisfy the interface
  and runs one fixed image without dependencies.
- The values of merged manifests (mergo), the scanner's split function, the reflective copy,
  credentials, formatting of names and logs: pure functions over data without state or order.
- The stores: a payload is written and a job saved or the call fails; the library never reads
  either back.

What would come next: a composition of `CloudComputeRun` with `DependencyScheduler`, to state that
all jobs of a compute end; the environment of containers; more than one compute at a time on one
Docker provider, of which the several submitters of the core are the first half.

## 6. Where code and documentation disagree

Each has a run that ends in a counterexample.

- **A pending job that is never started** (`lost_wakeup`, `docker-compute-manager.go:84`). A job
  moves by one state in a pass. If the `FINISHED` event of its last dependency is handled before
  the pass that makes the job `Pending`, the later pass promotes nothing and starts nothing, and no
  further event is due. The repository's `README.md:17` says a plugin runs once its inputs are available.
- **RunParallel never returns** (`stream_tail`, `cloudcompute.go:81`). After an empty last token
  every call of `NextEvent` is an error, and the loop goes on without asking whether there is more.
- **Jobs with the next event's environment** (`env_alias`, `cloudcompute.go:127`). `append` writes
  into the spare capacity of a slice that all events of an array share, so a job that is with its
  provider gets the entries of the event built after it. `docs/EVENT-GENERATOR.md` has each event
  with its own `CC_EVENT_IDENTIFIER`.
- **A cancel that leaves jobs running** (`cancel_misses`, `aws-batch.go:223`). Jobs listed as
  pending are left alone, and `CancelJob` has no effect on a job that has started since.
- **Two events of an array with one workflow name** (`argo_names`, `k8sargo.go:105`). `toSlugFast`
  drops the sign of `-1`, so the events `-1` and `1` get the name of one workflow and the second is
  refused, though `cloudcompute.go:188` wants every event of an array to have its own. `A` and `a`
  collide likewise.

Further limits of the code that the models contain, and that the properties above leave room for:

- With torn reads `DependencyOrder` fails: a half-written status counts as finished.
- A manifest that neither depends on another nor is depended on is not in the graph (`sort.go:55`):
  `SortManifests` leaves it out when others do have dependencies, and the event ends in a zero
  manifest in its place. `EventOrdered` speaks only of manifests that take part in a dependency.
- A dependency that failed counts as finished with Docker (`job-queue.go:147`), not with AWS Batch.
- An image pull that fails leaves the job `Starting`; its dependents wait for ever.
- If reading a log fails, the job's token goes back while its container runs, so there may be
  more containers than the limit; if a log cannot be opened the process dies of a nil monitor.
- A dependency on a manifest later in the event, or of another event, is forgotten by Docker and
  refused by AWS Batch.
- The array generator goes on after a failed sort, with zero manifests, and can index past its
  slice when a dependency is outside the event.
- A batch generator counts the event it returns, so it always says there is more: when the batch is
  over it is asked once again and panics. `RunReturns` therefore says nothing of a batch, and the
  second half of `EveryEventOnce` is empty for one. An item with fewer Actions than the manifests
  is a panic as well; a merge that fails is tried again for ever.
- `NewEventList` with no events panics at the first call. An array generator whose end lies before
  its start yields the start as its only event.
- A manifest without tags ends the process when its payload is written.
- Events of an array, a stream or a batch share Tags maps. With two at a time one is assigned while
  another is cloned, which may end the process, and a job may carry the payload tag of another
  event (`JobsOwnPayload` leaves this case out). Events of an array write their payload again each
  time, although payloads are meant to be shared.
- What an item of a batch brings for a map that the base event has (Tags, payload attributes,
  attributes of Actions) is written into the base event's map, and so reaches the events after it
  and, at any `concurrency`, races with the events before it that still use the map (`MergeRace`).
  An Environment that an item brings is shared by all manifests of its event, whose jobs then
  write each other's entries if it has spare capacity.
- `TerminateJobs` and `TerminateQueue` of AWS Batch return nil though calls of `TerminateJob` or
  `CancelJob` failed; only `TerminateJobFunction`, if given, is told (`aws-batch.go:275`, `291`).
- `TerminateQueue` misses a job that is retried while the states are listed.
- `TerminateJobs` of the Docker provider ignores `VendorJobs`, and an empty compute in the query
  matches every job (`docker-compute-manager.go:150`). `Status` and `Jobs` ignore the query.
- A job that is terminated before its container exists runs nevertheless: `Run` sets `Running`
  over the `Failed` of `Terminate`, and the flag `terminated` is never read. A job that had
  succeeded is made `Failed`. A job that has not been started has no runner, and terminating it
  ends the process; so does ranging over the queue while a job is added.
- The environment of a job of `RunParallel` is a slice (see above) that Docker reads later than it
  is submitted, when the container is created.
- `getContainerConfig` (`docker-runner.go:184`) merges a job's environment, in place, into the
  plugin's `DefaultEnvironment`, which all its jobs share: a container may be started with a
  value that an earlier job of the plugin set. This is not modelled.
- `ComputeManifests.GetManifest` and `GetManifestByIndex` promise a deep copy on request
  (`cloudcompute.go:312`); `utils.Copy(..).To(..)` copies slices and maps by reference.
- Argo: tasks are named `j-` and dependencies `e-`, so an event with a dependency is refused; a
  failed stop is only logged. An identifier without letters or digits has an empty slug, and the
  name that ends in a dot is refused (`NoName`).
