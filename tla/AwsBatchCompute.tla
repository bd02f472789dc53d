-------------------------- MODULE AwsBatchCompute --------------------------
(***************************************************************************)
(* The AWS Batch provider (providers/awsbatch): SubmitJobs, called at once   *)
(* by the goroutines of several events, and the three ways to stop jobs,     *)
(* which list them page by page while AWS Batch moves them on.               *)
(* AWS Batch itself is external: its job states, its dependencies, retries,  *)
(* and what its TerminateJob and CancelJob do.                               *)
(***************************************************************************)
EXTENDS Naturals, Sequences, FiniteSets

CONSTANTS
    Job,
    NoJob,          \* the "" that MapDependencies leaves for an unknown manifest
    Caller,         \* the goroutines that call SubmitJobs, one event each
    Events,         \* Events[e]: the jobs of the event of e, in order
    ManifestDeps,   \* ManifestDeps[j]: Job.ManifestDependencies
    Retries,        \* Retries[j]: how often j may be retried (RetryAttempts - 1)
    Faults          \* the API calls that may fail: "submit", "list", "stop"

ASSUME BatchAssumption ==
    /\ IsFiniteSet(Job) /\ NoJob \notin Job
    /\ Events \in [Caller -> Seq(Job)]
    /\ ManifestDeps \in [Job -> SUBSET Job]
    /\ \A e, f \in Caller : \A m \in DOMAIN Events[e], n \in DOMAIN Events[f] :
          Events[e][m] = Events[f][n] => e = f /\ m = n

ASSUME OperationAssumption ==
    /\ Retries \in [Job -> Nat]
    /\ Faults \subseteq {"submit", "list", "stop"}

-----------------------------------------------------------------------------
\* Mutation: the states are listed from the last to the first.
BackwardStatusList == <<"RUNNING", "STARTING", "RUNNABLE", "PENDING", "SUBMITTED">>

\* statusList of QueueSummary.
StatusList == <<"SUBMITTED", "PENDING", "RUNNABLE", "STARTING", "RUNNING">>

\* TerminateJobs is given a query, or the VendorJobs themselves.
Operation == {"TerminateJobs", "TerminateQueue", "VendorJobs"}

Active == {"SUBMITTED", "PENDING", "RUNNABLE", "STARTING", "RUNNING"}

BatchStatus == Active \cup {"none", "SUCCEEDED", "FAILED"}

VARIABLES
    status,      \* the state of each job in AWS Batch
    dependsOn,   \* the dependencies it was submitted with
    retried,     \* how often it has been retried
    next,        \* next[e]: index in Events[e] of the job to submit
    subpc,       \* where the SubmitJobs call of e stands
    what,        \* the stop operation called
    op,          \* where it stands
    level,       \* index in StatusList (QueueSummary)
    seen,        \* the jobs on the pages of the listing under way
    more,        \* whether nextToken is set
    page,        \* the summaries of the last page not yet handled
    present,     \* the jobs that were active when the operation began
    running,     \* the jobs it was told were starting or running
    reported     \* the jobs whose TerminateJobOutput holds an error

subVars == <<dependsOn, next, subpc>>
opVars  == <<what, op, level, seen, more, page, present, running, reported>>
vars    == <<status, retried, subVars, opVars>>

TypeOK ==
    /\ status \in [Job -> BatchStatus]
    /\ dependsOn \in [Job -> SUBSET Job]
    /\ retried \in [Job -> Nat] /\ \A j \in Job : retried[j] <= Retries[j]
    /\ next \in [Caller -> Nat \ {0}]
    /\ subpc \in [Caller -> {"submit", "failed"}]
    /\ what \in Operation
    /\ op \in {"idle", "list", "stop", "done", "failed"}
    /\ level \in DOMAIN StatusList
    /\ seen \subseteq Job
    /\ more \in BOOLEAN
    /\ page \subseteq [job : Job, status : BatchStatus]
    /\ present \subseteq Job
    /\ running \subseteq Job
    /\ reported \subseteq Job

Init ==
    /\ status = [j \in Job |-> "none"]
    /\ dependsOn = [j \in Job |-> {}]
    /\ retried = [j \in Job |-> 0]
    /\ next = [e \in Caller |-> 1]
    /\ subpc = [e \in Caller |-> "submit"]
    /\ what \in Operation
    /\ op = "idle"
    /\ level = 1
    /\ seen = {}
    /\ more = FALSE
    /\ page = {}
    /\ present = {}
    /\ running = {}
    /\ reported = {}

-----------------------------------------------------------------------------
(* SubmitJobs *)

\* The keys of SubmissionIdMap.
Submitted(e) == {Events[e][i] : i \in 1 .. (next[e] - 1)}

\* Mutation: a dependency that is not in the map is left out.
MapKnownDependencies(e, j) == ManifestDeps[j] \cap Submitted(e)

MapDependencies(e, j) == {IF d \in Submitted(e) THEN d ELSE NoJob : d \in ManifestDeps[j]}

SubmitJob(e) ==
    /\ subpc[e] = "submit"
    /\ next[e] <= Len(Events[e])
    /\ LET j == Events[e][next[e]]
       IN  /\ NoJob \notin MapDependencies(e, j)
           /\ dependsOn' = [dependsOn EXCEPT ![j] = MapDependencies(e, j)]
           /\ status' = [status EXCEPT ![j] = "SUBMITTED"]
    /\ next' = [next EXCEPT ![e] = @ + 1]
    /\ UNCHANGED <<retried, subpc, opVars>>

\* SubmitJob fails, always if it is given an empty dependency: the rest of the
\* event is not submitted, what was submitted stays.
SubmitFails(e) ==
    /\ subpc[e] = "submit"
    /\ next[e] <= Len(Events[e])
    /\ \/ "submit" \in Faults
       \/ NoJob \in MapDependencies(e, Events[e][next[e]])
    /\ subpc' = [subpc EXCEPT ![e] = "failed"]
    /\ UNCHANGED <<status, dependsOn, retried, next, opVars>>

-----------------------------------------------------------------------------
(* AWS Batch moves a job on *)

\* Mutation: the attempts asked for do not count the first one.
MayRetryOnceMore(j) == retried[j] <= Retries[j]

\* The RetryStrategy of the submission: attempts are left, the first one counts.
MayRetry(j) == retried[j] < Retries[j]

Moves(j, to) == status' = [status EXCEPT ![j] = to]

Schedule(j) ==
    /\ \/ status[j] = "SUBMITTED" /\ dependsOn[j] # {} /\ Moves(j, "PENDING")
       \/ status[j] = "SUBMITTED" /\ dependsOn[j] = {} /\ Moves(j, "RUNNABLE")
       \/ /\ status[j] = "PENDING"
          /\ \A d \in dependsOn[j] : status[d] = "SUCCEEDED"
          /\ Moves(j, "RUNNABLE")
       \/ /\ status[j] = "PENDING"
          /\ \E d \in dependsOn[j] : status[d] = "FAILED"
          /\ Moves(j, "FAILED")
    /\ UNCHANGED <<retried, subVars, opVars>>

Run(j) ==
    /\ \/ status[j] = "RUNNABLE" /\ Moves(j, "STARTING")
       \/ status[j] = "STARTING" /\ Moves(j, "RUNNING")
       \/ status[j] = "RUNNING" /\ Moves(j, "SUCCEEDED")
       \/ status[j] = "RUNNING" /\ ~MayRetry(j) /\ Moves(j, "FAILED")
    /\ UNCHANGED <<retried, subVars, opVars>>

Retry(j) ==
    /\ status[j] = "RUNNING"
    /\ MayRetry(j)
    /\ retried' = [retried EXCEPT ![j] = @ + 1]
    /\ Moves(j, "RUNNABLE")
    /\ UNCHANGED <<subVars, opVars>>

-----------------------------------------------------------------------------
(* TerminateJobs with a query or with VendorJobs, and TerminateQueue *)

Summary(j) == [job |-> j, status |-> status[j]]

ActiveJobs == {j \in Job : status[j] \in Active}

\* VendorJobs are terminated as they are given, without a listing.
Begin ==
    /\ op = "idle"
    /\ op' = IF what = "VendorJobs" THEN "stop" ELSE "list"
    /\ page' = IF what = "VendorJobs" THEN {Summary(j) : j \in ActiveJobs} ELSE {}
    /\ present' = ActiveJobs
    /\ UNCHANGED <<status, retried, subVars, what, level, seen, more, running, reported>>

\* What ListJobs selects: by name, in any state (Status), or by state (QueueSummary).
Listed ==
    IF what = "TerminateQueue"
    THEN {j \in Job : status[j] = StatusList[level]}
    ELSE {j \in Job : status[j] # "none"}

\* One page of the listing, as the jobs are now; the last one leaves no token.
ListPage ==
    /\ op = "list"
    /\ \E P \in SUBSET (Listed \ seen) :
          /\ P = {} => Listed \subseteq seen
          /\ page' = {Summary(j) : j \in P}
          /\ seen' = seen \cup P
          /\ more' = ~(Listed \subseteq seen')
          /\ running' = running \cup {j \in P : status[j] \in {"STARTING", "RUNNING"}}
    /\ op' = "stop"
    /\ UNCHANGED <<status, retried, subVars, what, level, present, reported>>

ListFails ==
    /\ op = "list"
    /\ "list" \in Faults
    /\ op' = "failed"
    /\ UNCHANGED <<status, retried, subVars, what, level, seen, more, page, present,
                   running, reported>>

\* What TerminateJob and CancelJob of AWS Batch stop.
Terminated == Active
Cancelled  == {"SUBMITTED", "PENDING", "RUNNABLE"}

\* The states in which the call made for a job listed in state s stops it. A query
\* of TerminateJobs leaves alone what was listed as PENDING.
Stops(s) ==
    IF what # "TerminateJobs" \/ s \in {"STARTING", "RUNNING"} THEN Terminated
    ELSE IF s \in {"SUBMITTED", "RUNNABLE"} THEN Cancelled
    ELSE {}

\* Mutation: a failed call leaves the rest of the page unhandled.
StopFailsForAll ==
    /\ op = "stop"
    /\ "stop" \in Faults
    /\ \E r \in page :
          /\ Stops(r.status) # {}
          /\ page' = {}
          /\ reported' = reported \cup {r.job}
    /\ UNCHANGED <<status, retried, subVars, what, op, level, seen, more, present, running>>

\* The summary function handles one job: it acts on the state that was listed, the
\* call on the state the job is in now.
StopJob ==
    /\ op = "stop"
    /\ \E r \in page :
          /\ page' = page \ {r}
          /\ status' = [status EXCEPT ![r.job] =
                           IF @ \in Stops(r.status) THEN "FAILED" ELSE @]
    /\ UNCHANGED <<retried, subVars, what, op, level, seen, more, present, running, reported>>

\* The call made for a job fails: its error goes to the caller's TerminateJobFunction,
\* if there is one, and the next job is handled.
StopFails ==
    /\ op = "stop"
    /\ "stop" \in Faults
    /\ \E r \in page :
          /\ Stops(r.status) # {}
          /\ page' = page \ {r}
          /\ reported' = reported \cup {r.job}
    /\ UNCHANGED <<status, retried, subVars, what, op, level, seen, more, present, running>>

\* The page is handled: the next page, the next state, or the end.
NextPage ==
    /\ op = "stop"
    /\ page = {}
    /\ IF more
       THEN op' = "list" /\ UNCHANGED <<level, seen>>
       ELSE IF what = "TerminateQueue" /\ level < Len(StatusList)
       THEN op' = "list" /\ level' = level + 1 /\ seen' = {}
       ELSE op' = "done" /\ UNCHANGED <<level, seen>>
    /\ UNCHANGED <<status, retried, subVars, what, more, page, present, running, reported>>

-----------------------------------------------------------------------------
Next ==
    \/ \E e \in Caller : SubmitJob(e) \/ SubmitFails(e)
    \/ \E j \in Job : Schedule(j) \/ Run(j) \/ Retry(j)
    \/ Begin \/ ListPage \/ ListFails \/ StopJob \/ StopFails \/ NextPage

Spec == Init /\ [][Next]_vars

-----------------------------------------------------------------------------
(* Properties *)

\* No job is started before every manifest its own depends on has succeeded, even
\* when the event could not be sorted: AWS Batch is told of all dependencies, or
\* the job is not submitted.
DependencyOrder ==
    \A j \in Job : status[j] \in {"RUNNABLE", "STARTING", "RUNNING", "SUCCEEDED"} =>
        \A d \in ManifestDeps[j] : status[d] = "SUCCEEDED"

\* TerminateQueue and a termination of VendorJobs that have returned nil leave none
\* of the jobs active that were active when they began, though these went from state
\* to state meanwhile and other calls failed: only a retry takes a job back to a state
\* already listed, and a job whose own call failed was named to the caller.
StopsAll ==
    op = "done" /\ what # "TerminateJobs" =>
        \A j \in present \ reported :
            status[j] \in Active => what = "TerminateQueue" /\ retried[j] > 0

\* A job that was listed as starting or running is over in the end, or its own call
\* failed and it was named to the caller.
StopsWhatRan == op = "done" => \A j \in running \ reported : status[j] \notin Active

-----------------------------------------------------------------------------
(* Why they hold: the parts of an inductive invariant *)

\* A job has no state before it is submitted, and was submitted with all that its
\* manifest depends on.
NotYetSubmitted ==
    \A e \in Caller : \A i \in 1 .. Len(Events[e]) :
        i >= next[e] => status[Events[e][i]] = "none"

SubmittedWhole == \A j \in Job : status[j] # "none" => dependsOn[j] = ManifestDeps[j]

Handling(j) == \E r \in page : r.job = j

\* Nothing waits to be handled but while a page is, nothing is known before a listing.
PagesHandled ==
    /\ op # "stop" => page = {}
    /\ op = "idle" => present = {} /\ running = {} /\ seen = {} /\ level = 1
    /\ \A j \in present \cup running : status[j] # "none"
    /\ what = "VendorJobs" => op \in {"idle", "stop", "done"} /\ ~more

\* What was listed as starting or running is over, or waits to be terminated, or its
\* call has failed.
RunningHandled ==
    \A j \in running \ reported : status[j] \in Active =>
        \E r \in page : r.job = j /\ r.status \in {"STARTING", "RUNNING"}

VendorJobsHandled ==
    what = "VendorJobs" => \A j \in present \ reported : status[j] \in Active => Handling(j)

Rank == [SUBMITTED |-> 1, PENDING |-> 2, RUNNABLE |-> 3, STARTING |-> 4, RUNNING |-> 5]

\* The jobs that TerminateQueue must not miss.
Due == {j \in present \ reported : status[j] \in Active /\ retried[j] = 0}

\* TerminateQueue goes through the states in the order in which a job does, so a
\* job is never in a state whose listing is complete.
StatesCovered ==
    what = "TerminateQueue" =>
        /\ \A j \in seen : status[j] # "none"
        /\ \A j \in seen \ reported : status[j] \in Active => Handling(j)
        /\ \A j \in Due : Rank[status[j]] >= level
        /\ op = "stop" /\ ~more => \A j \in Due : Rank[status[j]] = level => j \in seen
        /\ op = "done" => Due = {}

BatchInv ==
    /\ TypeOK
    /\ NotYetSubmitted /\ SubmittedWhole /\ DependencyOrder
    /\ PagesHandled /\ RunningHandled /\ VendorJobsHandled /\ StatesCovered

-----------------------------------------------------------------------------
(* What the comments say, which the code does not do *)

\* compute-provider.go: the jobs to terminate are given by "a StatusQuery with each
\* job in the status query being terminated".
QueryStopsAll ==
    op = "done" /\ what = "TerminateJobs" => \A j \in present : status[j] \notin Active
=============================================================================
