------------------------------ MODULE K8sArgo ------------------------------
(***************************************************************************)
(* The Argo provider (providers/k8sargo): SubmitJobs turns an event into one *)
(* workflow, whose name it makes from the event's identifier; TerminateJobs  *)
(* stops the workflows of a compute. The goroutines of several events submit *)
(* at once. The Argo server is external: it keeps the templates and the      *)
(* workflows, and refuses a workflow whose name is taken or whose tasks      *)
(* depend on what is not a task of it, or whose name is no name.             *)
(***************************************************************************)
EXTENDS Naturals, SequencesExt

CONSTANTS
    Job,
    NoJob,          \* the "" of getJobIdFromManifestId
    Caller,         \* the goroutines that call SubmitJobs, one event each
    Events,         \* Events[e]: the jobs of the event of e
    Definition,     \* Definition[j]: Job.JobDefinition, the name of its plugin
    EventID,        \* EventID[e]: shared by the events of an array or a stream
    Inputs,         \* Inputs[e]: what else the jobs of the event may carry (see below)
    Faults          \* the calls to Argo that may fail: "get", "create", "list", "stop"

ASSUME EventsAssumption ==
    /\ NoJob \notin Job
    /\ Events \in [Caller -> Seq(Job) \ {<<>>}]
    /\ DOMAIN Definition = Job /\ DOMAIN EventID = Caller /\ DOMAIN Inputs = Caller

\* An input i of SubmitJobs:
\*   i.identifier  CC_EVENT_IDENTIFIER, as a sequence of characters
\*   i.loop        PerEventLoopNum
\*   i.deps        i.deps[j]: Job.ManifestDependencies
ASSUME InputsAssumption ==
    \A e \in Caller : \A i \in Inputs[e] :
        /\ i.identifier \in Seq(Range(i.identifier))
        /\ i.loop \in Nat
        /\ i.deps \in [Job -> SUBSET Job]

ASSUME FaultsAssumption == Faults \subseteq {"get", "create", "list", "stop"}

-----------------------------------------------------------------------------
(* Names *)

Digit == {"0", "1"}

Lower == {"a", "b"} \cup Digit

Upper == [ch \in {"A", "B"} |-> IF ch = "A" THEN "a" ELSE "b"]

\* toSlugFast writes one hyphen for a run of other characters.
Written(slug, ch) ==
    IF ch \in Lower THEN Append(slug, ch)
    ELSE IF ch \in DOMAIN Upper THEN Append(slug, Upper[ch])
    ELSE IF slug # <<>> /\ Last(slug) = "-" THEN slug
    ELSE Append(slug, "-")

\* slug[p]: what is written once p characters are read.
WrittenUpTo(identifier) ==
    LET slug[p \in 0 .. Len(identifier)] ==
            IF p = 0 THEN <<>> ELSE Written(slug[p - 1], identifier[p])
    IN  slug

\* Mutation: the hyphens at the ends are left.
SlugUntrimmed(identifier) == WrittenUpTo(identifier)[Len(identifier)]

\* strings.Trim: the runs are single hyphens by now.
Slug(identifier) ==
    LET s == WrittenUpTo(identifier)[Len(identifier)]
        first == IF s # <<>> /\ s[1] = "-" THEN 2 ELSE 1
        last == IF s # <<>> /\ Last(s) = "-" THEN Len(s) - 1 ELSE Len(s)
    IN  SubSeq(s, first, last)

\* Mutation: the position within the loop is not part of the name.
NameWithoutLoop(e, i) == <<EventID[e], Slug(i.identifier), 0>>

\* EventID.slug, with .n for position n > 0 of the per-event loop.
WorkflowName(e, i) == <<EventID[e], Slug(i.identifier), i.loop>>

-----------------------------------------------------------------------------
VARIABLES
    input,       \* the input of each call
    registered,  \* the workflow templates on the server
    pc,          \* where the SubmitJobs call of each event stands
    index,       \* the job it is building a task for
    cloned,      \* the templates it has cloned
    tasks,       \* the tasks it has built
    workflows,   \* the workflows on the server
    ended,       \* the events whose workflow is over or stopped
    op,          \* where TerminateJobs stands
    listed,      \* the workflows it was given
    page,        \* those it has still to stop
    unstopped    \* those of which StopWorkflow has failed

callVars == <<pc, index, cloned, tasks>>
opVars   == <<op, listed, page, unstopped>>
vars     == <<input, registered, callVars, workflows, ended, opVars>>

\* How a call has ended: created, or refused or failed at one of its steps.
Outcome == {"created", "failed", "exists", "invalid"}

Plugins == {Definition[j] : j \in Job}

JobTask(j) == <<"j", j>>

Task == [name : {JobTask(j) : j \in Job}, template : Plugins,
         deps : SUBSET ({"e"} \X (Job \cup {NoJob}))]

TypeOK ==
    /\ input \in {f \in [Caller -> UNION Range(Inputs)] :
                    \A e \in Caller : f[e] \in Inputs[e]}
    /\ registered \subseteq Plugins
    /\ pc \in [Caller -> {"build", "create"} \cup Outcome]
    /\ index \in [Caller -> Nat \ {0}]
    /\ \A e \in Caller : index[e] <= Len(Events[e]) + 1
    /\ cloned \in [Caller -> SUBSET Plugins]
    /\ tasks \in [Caller -> SUBSET Task]
    /\ \A w \in workflows : w.event \in Caller /\ w.tasks = tasks[w.event]
    /\ ended \subseteq {w.event : w \in workflows}
    /\ op \in {"idle", "stop", "done", "failed"}
    /\ listed \subseteq {w.event : w \in workflows}
    /\ page \subseteq listed /\ unstopped \subseteq listed

Init ==
    /\ input \in {f \in [Caller -> UNION Range(Inputs)] :
                    \A e \in Caller : f[e] \in Inputs[e]}
    /\ registered = Plugins
    /\ pc = [e \in Caller |-> "build"]
    /\ index = [e \in Caller |-> 1]
    /\ cloned = [e \in Caller |-> {}]
    /\ tasks = [e \in Caller |-> {}]
    /\ workflows = {}
    /\ ended = {}
    /\ op = "idle"
    /\ listed = {}
    /\ page = {}
    /\ unstopped = {}

-----------------------------------------------------------------------------
(* SubmitJobs *)

\* manifestDepsToJobDeps: all jobs of the event count, in whatever order they are.
JobDependencies(e, j) ==
    {IF d \in Range(Events[e]) THEN d ELSE NoJob : d \in input[e].deps[j]}

\* depsToArgoDeps names a dependency e-..., where tasks are named j-...
ArgoDependencies(e, j) == {<<"e", d>> : d \in JobDependencies(e, j)}

\* Mutation: a template that was unregistered is left out of the workflow.
BuildTaskAnyway(e) ==
    /\ pc[e] = "build"
    /\ index[e] <= Len(Events[e])
    /\ LET j == Events[e][index[e]]
       IN  /\ cloned' = [cloned EXCEPT ![e] = @ \cup ({Definition[j]} \cap registered)]
           /\ tasks' = [tasks EXCEPT ![e] =
                           @ \cup {[name |-> JobTask(j), template |-> Definition[j],
                                    deps |-> ArgoDependencies(e, j)]}]
    /\ index' = [index EXCEPT ![e] = @ + 1]
    /\ pc' = [pc EXCEPT ![e] = IF index'[e] > Len(Events[e]) THEN "create" ELSE "build"]
    /\ UNCHANGED <<input, registered, workflows, ended, opVars>>

\* The template of the job is cloned unless an earlier job of the event did so.
BuildTask(e) ==
    /\ pc[e] = "build"
    /\ index[e] <= Len(Events[e])
    /\ LET j == Events[e][index[e]]
       IN  /\ Definition[j] \in cloned[e] \cup registered
           /\ cloned' = [cloned EXCEPT ![e] = @ \cup {Definition[j]}]
           /\ tasks' = [tasks EXCEPT ![e] =
                           @ \cup {[name |-> JobTask(j), template |-> Definition[j],
                                    deps |-> ArgoDependencies(e, j)]}]
    /\ index' = [index EXCEPT ![e] = @ + 1]
    /\ pc' = [pc EXCEPT ![e] = IF index'[e] > Len(Events[e]) THEN "create" ELSE "build"]
    /\ UNCHANGED <<input, registered, workflows, ended, opVars>>

\* The template cannot be read, or is not there.
TemplateMissing(e) ==
    /\ pc[e] = "build"
    /\ index[e] <= Len(Events[e])
    /\ LET p == Definition[Events[e][index[e]]]
       IN  p \notin cloned[e] /\ ("get" \in Faults \/ p \notin registered)
    /\ pc' = [pc EXCEPT ![e] = "failed"]
    /\ UNCHANGED <<input, registered, index, cloned, tasks, workflows, ended, opVars>>

Name(e) == WorkflowName(e, input[e])

NameTaken(e) == \E w \in workflows : w.name = Name(e)

Dangling(e) == \E t \in tasks[e] : ~(t.deps \subseteq {u.name : u \in tasks[e]})

\* The identifier leaves nothing to stand behind the dot: Kubernetes takes no such name.
NoName(e) == Slug(input[e].identifier) = <<>>

\* Mutation: the workflow is created within the loop over the jobs.
CreateWithinLoop(e) ==
    /\ index[e] > 1
    /\ pc[e] \in {"build", "create"}
    /\ ~NameTaken(e) /\ ~Dangling(e) /\ ~NoName(e)
    /\ workflows' = workflows \cup
          {[event |-> e, name |-> Name(e), tasks |-> tasks[e], templates |-> cloned[e]]}
    /\ pc' = [pc EXCEPT ![e] = IF @ = "build" THEN @ ELSE "created"]
    /\ UNCHANGED <<input, registered, index, cloned, tasks, ended, opVars>>

\* The server accepts the workflow: the event is submitted as a whole.
CreateWorkflow(e) ==
    /\ pc[e] = "create"
    /\ ~NameTaken(e) /\ ~Dangling(e) /\ ~NoName(e)
    /\ workflows' = workflows \cup
          {[event |-> e, name |-> Name(e), tasks |-> tasks[e], templates |-> cloned[e]]}
    /\ pc' = [pc EXCEPT ![e] = "created"]
    /\ UNCHANGED <<input, registered, index, cloned, tasks, ended, opVars>>

CreateRefused(e) ==
    /\ pc[e] = "create"
    /\ \/ "create" \in Faults /\ pc' = [pc EXCEPT ![e] = "failed"]
       \/ NameTaken(e) /\ pc' = [pc EXCEPT ![e] = "exists"]
       \/ (Dangling(e) \/ NoName(e)) /\ pc' = [pc EXCEPT ![e] = "invalid"]
    /\ UNCHANGED <<input, registered, index, cloned, tasks, workflows, ended, opVars>>

-----------------------------------------------------------------------------
\* DeleteWorkflowTemplate, called by whoever registered the plugin.
UnregisterPlugin(p) ==
    /\ p \in registered
    /\ registered' = registered \ {p}
    /\ UNCHANGED <<input, callVars, workflows, ended, opVars>>

WorkflowEnds(e) ==
    /\ e \in {w.event : w \in workflows} \ ended
    /\ ended' = ended \cup {e}
    /\ UNCHANGED <<input, registered, callVars, workflows, opVars>>

(* TerminateJobs: every workflow that carries the label of the compute. *)
ListWorkflows ==
    /\ op = "idle"
    /\ listed' = {w.event : w \in workflows}
    /\ page' = listed'
    /\ op' = "stop"
    /\ UNCHANGED <<input, registered, callVars, workflows, ended, unstopped>>

ListFails ==
    /\ op = "idle"
    /\ "list" \in Faults
    /\ op' = "failed"
    /\ UNCHANGED <<input, registered, callVars, workflows, ended, listed, page, unstopped>>

StopWorkflow ==
    /\ op = "stop"
    /\ \E e \in page : page' = page \ {e} /\ ended' = ended \cup {e}
    /\ UNCHANGED <<input, registered, callVars, workflows, op, listed, unstopped>>

\* Mutation: the first error ends the loop.
StopFailsForAll ==
    /\ op = "stop"
    /\ "stop" \in Faults
    /\ \E e \in page : page' = {} /\ unstopped' = unstopped \cup {e}
    /\ UNCHANGED <<input, registered, callVars, workflows, ended, op, listed>>

\* The error is logged and forgotten.
StopFails ==
    /\ op = "stop"
    /\ "stop" \in Faults
    /\ \E e \in page : page' = page \ {e} /\ unstopped' = unstopped \cup {e}
    /\ UNCHANGED <<input, registered, callVars, workflows, ended, op, listed>>

StopEnds ==
    /\ op = "stop"
    /\ page = {}
    /\ op' = "done"
    /\ UNCHANGED <<input, registered, callVars, workflows, ended, listed, page, unstopped>>

Next ==
    \/ \E e \in Caller :
          BuildTask(e) \/ TemplateMissing(e) \/ CreateWorkflow(e) \/ CreateRefused(e)
    \/ \E e \in Caller : WorkflowEnds(e)
    \/ \E p \in Plugins : UnregisterPlugin(p)
    \/ ListWorkflows \/ ListFails \/ StopWorkflow \/ StopFails \/ StopEnds

Spec == Init /\ [][Next]_vars

-----------------------------------------------------------------------------
(* Properties *)

\* A workflow holds a task for every job of its event, and the template of every
\* task, although templates may be unregistered while the event is submitted.
WorkflowComplete ==
    \A w \in workflows :
        /\ {t.name : t \in w.tasks} = {JobTask(Events[w.event][i]) : i \in DOMAIN Events[w.event]}
        /\ {t.template : t \in w.tasks} = w.templates

\* A slug can stand between the dots of a workflow's name, if anything is left of the
\* identifier: no hyphen at its ends or beside another, nothing but lower case; and it
\* is the slug of itself.
SlugIsLabel ==
    \A e \in Caller :
        LET s == Slug(input[e].identifier)
        IN  /\ Range(s) \subseteq Lower \cup {"-"}
            /\ s # <<>> => s[1] # "-" /\ Last(s) # "-"
            /\ \A i \in 1 .. (Len(s) - 1) : s[i] # "-" \/ s[i + 1] # "-"
            /\ Slug(s) = s

\* The words of an identifier: its longest runs of letters and digits, in lower case.
Words(identifier) ==
    LET InWord == {i \in DOMAIN identifier : identifier[i] \in Lower \cup DOMAIN Upper}
        Small(ch) == IF ch \in Lower THEN ch ELSE Upper[ch]
        Runs == {r \in InWord \X InWord :
                    /\ r[1] <= r[2] /\ r[1] .. r[2] \subseteq InWord
                    /\ r[1] - 1 \notin InWord /\ r[2] + 1 \notin InWord}
    IN  {[after |-> Cardinality({q \in Runs : q[1] < r[1]}),
          word |-> [k \in 1 .. (r[2] - r[1] + 1) |-> Small(identifier[r[1] + k - 1])]] :
         r \in Runs}

\* An event is refused because its name is taken only if another event of the same
\* words and the same position of the per-event loop was created: nothing but case
\* and what stands between the words is lost in a name.
TakenBySameWords ==
    \A e \in Caller : pc[e] = "exists" =>
        \E f \in Caller \ {e} :
            /\ pc[f] = "created" /\ EventID[f] = EventID[e]
            /\ Words(input[f].identifier) = Words(input[e].identifier)
            /\ input[f].loop = input[e].loop

\* When TerminateJobs has returned nil every workflow it was given is over, but for
\* those whose own StopWorkflow has failed: no failure spares another workflow.
ListedAreOver == op = "done" => listed \ unstopped \subseteq ended

-----------------------------------------------------------------------------
(* Why they hold: the parts of an inductive invariant *)

\* The tasks built so far are those of the jobs gone through, on the templates cloned.
TasksBuilt ==
    \A e \in Caller :
        /\ {t.name : t \in tasks[e]} = {JobTask(Events[e][i]) : i \in 1 .. (index[e] - 1)}
        /\ {t.template : t \in tasks[e]} = cloned[e]

\* A workflow is made of all tasks of its event, after which no more are built.
AllBuilt ==
    /\ \A e \in Caller : pc[e] \in {"create", "created"} => index[e] = Len(Events[e]) + 1
    /\ \A w \in workflows : pc[w.event] = "created" /\ w.templates = cloned[w.event]

\* What was listed is over, or waits to be stopped, or could not be.
ListedHandled ==
    /\ listed \subseteq ended \cup page \cup unstopped
    /\ op = "done" => page = {}

ArgoInv == TypeOK /\ TasksBuilt /\ AllBuilt /\ ListedHandled

-----------------------------------------------------------------------------
(* What the comments say, which the code does not do *)

\* cloudcompute.go: the name is made such that "each event submitted as a workflow for
\* an array or stream event generator has a unique identifier": an event is refused
\* because its name is taken only if that very event was submitted before.
NamesUnique ==
    \A e \in Caller : pc[e] = "exists" =>
        \E f \in Caller \ {e} :
            /\ pc[f] = "created" /\ EventID[f] = EventID[e]
            /\ input[f].identifier = input[e].identifier /\ input[f].loop = input[e].loop
=============================================================================
