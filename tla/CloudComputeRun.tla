-------------------------- MODULE CloudComputeRun --------------------------
(***************************************************************************)
(* RunParallel (cloudcompute.go): the loop that asks the generator for      *)
(* events, the ConcurrentRunner it hands them to, and the goroutine of each  *)
(* event, which writes payloads, builds the jobs, submits and saves them.    *)
(* The events of a stream, an array or a batch may share the Tags maps and   *)
(* the Environment arrays of their manifests; the jobs keep slices of the     *)
(* latter. Those of a list are the caller's, taken to be separate.           *)
(***************************************************************************)
EXTENDS EventGenerators, SequencesExt

CONSTANT Faults     \* the steps of an event that may fail

\* How a compute c is run, and its manifests:
\*   c.concurrency  the argument of RunParallel
\*   c.payloads     c.payloads[i]: manifest i has something to put in a payload
\*   c.has          what they have: a Tags map, an Environment, attributes
\*   c.brings       what the items of a batch bring of these
\*   c.spare        the spare capacity of the Environment slices
\*   c.named        the variables that are in the Environment: that of the event
\*                  identifier, those of the per-event loop
\*   c.prewritten   NewStreamingEventGenerator has written the payloads
ASSUME ManifestAssumption ==
    \A c \in Computes :
        /\ c.concurrency \in Nat
        /\ c.payloads \in Seq(BOOLEAN) \ {<<>>}
        /\ c.has \subseteq {"tags", "env", "attributes"}
        /\ c.brings \subseteq {"tags", "env", "attributes"}
        /\ c.brings # {} => c.kind = "batch"
        /\ c.spare \in Nat
        /\ c.named \subseteq {"event", "loop"}
        /\ c.prewritten \in BOOLEAN
        /\ c.prewritten => c.kind = "streaming" /\ "tags" \in c.has

ASSUME RunAssumption == Faults \subseteq {"process", "payload", "submit", "save"}

-----------------------------------------------------------------------------
\* The most events that a generator may return.
MostEvents(c) ==
    PerIdentifier(c) * (IF c.kind = "array" THEN LastValue(c) - c.first + 1 ELSE Len(c.tokens))

\* The goroutines: that of event n runs the n-th event returned.
Event == UNION {1 .. MostEvents(c) : c \in Computes}

Manifest == UNION {DOMAIN c.payloads : c \in Computes}

\* The entries put in the environment of a manifest, in order: the payload and
\* manifest identifiers, the event identifier, its number, the plugin, and the
\* variables of the per-event loop, if there is one.
Slot == 1 .. 5

VARIABLES
    compute,     \* the compute that is run
    gen,         \* the generator
    loop,        \* where RunParallel stands
    fetched,     \* what NextEvent returned last
    dispatched,  \* the events given to goroutines
    semaphore,   \* the tokens in ConcurrentRunner.semaphore
    waited,      \* how many of them Wait has put there
    pc,          \* where the goroutine of each event stands
    man,         \* the manifest it is working on
    slot,        \* the last entry it has appended to env
    tags,        \* tags[o][i]: the event whose payload is in the Tags map
    array,       \* array[o][i][k]: the event and manifest that wrote entry k of an array
    env,         \* env[n][i]: the environment of the job, <<>> while it is a slice of array
    tagged,      \* tagged[n][i]: the event whose payload the job's tags name
    written,     \* the payloads written: pairs of event and manifest
    submitted,   \* the events whose jobs were submitted
    saved,       \* the jobs saved in the JobStore
    crashed      \* the process has died of a panic or a fatal error

loopVars == <<compute, gen, loop, fetched, dispatched>>
semVars  == <<semaphore, waited>>
jobVars  == <<man, slot, tags, array, env, tagged>>
outVars  == <<written, submitted, saved>>
vars     == <<loopVars, semVars, pc, jobVars, outVars, crashed>>

PC == {"idle", "process", "manifest", "writing", "env", "clone", "submit", "save",
       "release", "done"}

Nobody == 0

Manifests == DOMAIN compute.payloads

LastManifest == Len(compute.payloads)

LastSlot == IF compute.loops = 0 THEN 4 ELSE 5

Concurrency == compute.concurrency

\* The events of a stream or an array have one slice of manifests. Those of a batch
\* have copies of the base event's, but utils.Copy copies maps and slices by
\* reference, and mergo makes a new map, or takes the item's slice, only where the
\* copy has none.
OneSliceOfManifests == compute.kind \in {"streaming", "array"}

Batch == compute.kind = "batch"

EventsShareTags == OneSliceOfManifests \/ (Batch /\ "tags" \in compute.has)

EventsShareArrays ==
    OneSliceOfManifests \/ (Batch /\ ("env" \in compute.has \/ "env" \notin compute.brings))

\* The Environment that an item brings is that of all the manifests of its event.
ManifestsShareArrays ==
    Batch /\ "env" \notin compute.has /\ "env" \in compute.brings /\ LastManifest > 1

\* What NextEvent writes into the maps of the base event.
Merged(what) == Batch /\ what \in compute.has \cap compute.brings

HasTags == "tags" \in compute.has \cup compute.brings

\* Whose Tags map and whose Environment array event n and its manifest i use.
TagsEvent(n) == IF EventsShareTags THEN 1 ELSE n

ArrayEvent(n) == IF EventsShareArrays THEN 1 ELSE n

ArrayManifest(i) == IF ManifestsShareArrays THEN 1 ELSE i

Writers == {Nobody} \cup Event

Unwritten == <<Nobody, 0>>

Entry == {Unwritten} \cup (Event \X Manifest)

Token == {Empty} \cup UNION {Range(c.tokens) : c \in Computes}

Occurrence == (Token \cup Int) \X Nat

TypeOK ==
    /\ compute \in Computes
    /\ gen \in [pos : Int, loop : Nat, token : Token, more : BOOLEAN]
    /\ loop \in {"refused", "next", "acquire", "wait", "returned"}
    /\ fetched \in [event : Occurrence, more : BOOLEAN] \cup {<<>>}
    /\ dispatched \in Seq(Occurrence)
    /\ semaphore \in 0 .. Concurrency
    /\ waited \in 0 .. semaphore
    /\ pc \in [Event -> PC]
    /\ man \in [Event -> Manifest]
    /\ slot \in [Event -> {0} \cup Slot]
    /\ tags \in [Event -> [Manifest -> Writers]]
    /\ array \in [Event -> [Manifest -> [Slot -> Entry]]]
    /\ env \in [Event -> [Manifest -> [Slot -> Entry] \cup {<<>>}]]
    /\ tagged \in [Event -> [Manifest -> Writers]]
    /\ written \subseteq Event \X Manifest
    /\ submitted \subseteq Event
    /\ saved \subseteq Event \X Manifest
    /\ crashed \in BOOLEAN

Init ==
    /\ compute \in Computes
    /\ gen = InitialGenerator(compute)
    /\ loop = IF Concurrency < 1 THEN "refused" ELSE "next"
    /\ fetched = <<>>
    /\ dispatched = <<>>
    /\ semaphore = 0
    /\ waited = 0
    /\ pc = [n \in Event |-> "idle"]
    /\ man = [n \in Event |-> 1]
    /\ slot = [n \in Event |-> 0]
    /\ tags = [o \in Event |-> [i \in Manifest |-> Nobody]]
    /\ array = [o \in Event |-> [i \in Manifest |-> [k \in Slot |-> Unwritten]]]
    /\ env = [n \in Event |-> [i \in Manifest |-> <<>>]]
    /\ tagged = [n \in Event |-> [i \in Manifest |-> Nobody]]
    /\ written = {}
    /\ submitted = {}
    /\ saved = {}
    /\ crashed = FALSE
-----------------------------------------------------------------------------
(* The event loop *)

\* An error is logged and the loop goes on, whether or not there is more to come.
EventError ==
    /\ loop = "next"
    /\ NextEvent(compute, gen).outcome = "error"
    /\ gen' = NextEvent(compute, gen).gen
    /\ UNCHANGED <<compute, loop, fetched, dispatched, semVars, pc, jobVars, outVars, crashed>>

GeneratorPanics ==
    /\ loop = "next"
    /\ NextEvent(compute, gen).outcome = "panic"
    /\ crashed' = TRUE
    /\ UNCHANGED <<loopVars, semVars, pc, jobVars, outVars>>

FetchEvent ==
    /\ loop = "next"
    /\ NextEvent(compute, gen).outcome = "event"
    /\ gen' = NextEvent(compute, gen).gen
    /\ fetched' = [event |-> NextEvent(compute, gen).event, more |-> NextEvent(compute, gen).more]
    /\ loop' = "acquire"
    /\ UNCHANGED <<compute, dispatched, semVars, pc, jobVars, outVars, crashed>>

\* Mutation: the goroutine itself waits for its token.
DispatchAtOnce ==
    /\ loop = "acquire"
    /\ dispatched' = Append(dispatched, fetched.event)
    /\ pc' = [pc EXCEPT ![Len(dispatched) + 1] = "process"]
    /\ loop' = IF fetched.more THEN "next" ELSE "wait"
    /\ UNCHANGED <<compute, gen, fetched, semVars, jobVars, outVars, crashed>>

\* ConcurrentRunner.Run: the loop blocks until a token is free, then spawns.
Dispatch ==
    /\ loop = "acquire"
    /\ semaphore < Concurrency
    /\ semaphore' = semaphore + 1
    /\ dispatched' = Append(dispatched, fetched.event)
    /\ pc' = [pc EXCEPT ![Len(dispatched) + 1] = "process"]
    /\ loop' = IF fetched.more THEN "next" ELSE "wait"
    /\ UNCHANGED <<compute, gen, fetched, waited, jobVars, outVars, crashed>>

\* Mutation: Wait is content with one token.
WaitForOne ==
    /\ loop = "wait"
    /\ semaphore < Concurrency
    /\ semaphore' = semaphore + 1
    /\ waited' = waited + 1
    /\ loop' = "returned"
    /\ UNCHANGED <<compute, gen, fetched, dispatched, pc, jobVars, outVars, crashed>>

\* ConcurrentRunner.Wait fills the semaphore: a token for every one that is free.
Wait ==
    /\ loop = "wait"
    /\ semaphore < Concurrency
    /\ semaphore' = semaphore + 1
    /\ waited' = waited + 1
    /\ loop' = IF waited' = Concurrency THEN "returned" ELSE "wait"
    /\ UNCHANGED <<compute, gen, fetched, dispatched, pc, jobVars, outVars, crashed>>

LoopStep == EventError \/ GeneratorPanics \/ FetchEvent \/ Dispatch \/ Wait

-----------------------------------------------------------------------------
(* The goroutine of event n *)

Go(n, where) == pc' = [pc EXCEPT ![n] = where]

\* WritePayload works on a copy of the manifest, so the identifier it sets is
\* forgotten: only a payload that the constructor wrote is not written again.
NeedsPayload(i) == compute.payloads[i] /\ ~compute.prewritten

\* The manifests are sorted (ManifestOrder) and the EventProcessor has its turn.
Process(n) ==
    /\ pc[n] = "process"
    /\ Go(n, "manifest")
    /\ UNCHANGED <<loopVars, semVars, jobVars, outVars, crashed>>

\* Mutation: one event writes the payload of a manifest for all of them.
NoPayloadOnce(n) ==
    /\ pc[n] = "manifest"
    /\ NeedsPayload(man[n]) => \E o \in Event : <<o, man[n]>> \in written
    /\ Go(n, "env")
    /\ UNCHANGED <<loopVars, semVars, jobVars, outVars, crashed>>

NoPayload(n) ==
    /\ pc[n] = "manifest"
    /\ ~NeedsPayload(man[n])
    /\ Go(n, "env")
    /\ UNCHANGED <<loopVars, semVars, jobVars, outVars, crashed>>

\* The payload is stored; then an entry of the manifest's Tags is assigned, which
\* is a panic if the map is nil.
WritePayload(n) ==
    /\ pc[n] = "manifest"
    /\ NeedsPayload(man[n])
    /\ written' = written \cup {<<n, man[n]>>}
    /\ IF HasTags
       THEN Go(n, "writing") /\ UNCHANGED crashed
       ELSE crashed' = TRUE /\ UNCHANGED pc
    /\ UNCHANGED <<loopVars, semVars, jobVars, submitted, saved>>

TagPayload(n) ==
    /\ pc[n] = "writing"
    /\ tags' = [tags EXCEPT ![TagsEvent(n)][man[n]] = n]
    /\ Go(n, "env")
    /\ UNCHANGED <<loopVars, semVars, man, slot, array, env, tagged, outVars, crashed>>

\* The Go runtime may end the process when it sees a map assigned and used at once:
\* by two events,
MapRace ==
    /\ \E n, o \in Event :
          /\ n # o
          /\ TagsEvent(n) = TagsEvent(o) /\ man[n] = man[o]
          /\ pc[n] = "writing"
          /\ pc[o] \in {"writing", "clone"}
    /\ HasTags
    /\ crashed' = TRUE
    /\ UNCHANGED <<loopVars, semVars, pc, jobVars, outVars>>

\* or by an event and the generator, which merges the next item of a batch meanwhile.
MergeRace ==
    /\ loop = "next"
    /\ gen.pos < Len(compute.tokens)
    /\ \E n \in Event :
          \/ Merged("attributes") /\ pc[n] = "manifest" /\ NeedsPayload(man[n])
          \/ Merged("tags") /\ pc[n] \in {"writing", "clone"}
    /\ crashed' = TRUE
    /\ UNCHANGED <<loopVars, semVars, pc, jobVars, outVars>>

\* Mutation: the identifier and number of the event are left out where the identifier
\* is missing.
NextSlotIfMissing(k) == IF k = 1 /\ "event" \notin compute.named THEN 4 ELSE k + 1

\* The identifier and number of the event are left out if the identifier is there.
NextSlot(k) == IF k = 1 /\ "event" \in compute.named THEN 4 ELSE k + 1

\* The capacity that the entries up to k need; entry 1 stands for two, and a variable
\* of the loop that is there is given its value in place.
Room(k) ==
    k + 1 - (IF "event" \in compute.named /\ k >= 4 THEN 2 ELSE 0)
          - (IF "loop" \in compute.named /\ k = 5 THEN 1 ELSE 0)

Fits(k) == compute.spare >= Room(k)

\* What the slice holds once entry k is written.
Extended(entries, entry, k) ==
    [j \in Slot |-> IF j = k THEN entry ELSE IF j < k THEN entries[j] ELSE Unwritten]

\* append: in place while there is capacity, a copy of the whole once there is none.
AppendEnv(n) ==
    /\ pc[n] = "env"
    /\ LET i == man[n]
           k == NextSlot(slot[n])
           taken == array[ArrayEvent(n)][ArrayManifest(i)]
       IN  /\ slot' = [slot EXCEPT ![n] = k]
           /\ IF env[n][i] = <<>> /\ Fits(k)
              THEN /\ array' = [array EXCEPT ![ArrayEvent(n)][ArrayManifest(i)][k] = <<n, i>>]
                   /\ UNCHANGED env
              ELSE /\ env' = [env EXCEPT ![n][i] =
                                 Extended(IF @ = <<>> THEN taken ELSE @, <<n, i>>, k)]
                   /\ UNCHANGED array
           /\ Go(n, IF k < LastSlot THEN "env" ELSE "clone")
    /\ UNCHANGED <<loopVars, semVars, man, tags, tagged, outVars, crashed>>

\* The job of the manifest is made, with a clone of the manifest's tags.
CloneTags(n) ==
    /\ pc[n] = "clone"
    /\ tagged' = [tagged EXCEPT ![n][man[n]] = tags[TagsEvent(n)][man[n]]]
    /\ slot' = [slot EXCEPT ![n] = 0]
    /\ IF man[n] < LastManifest
       THEN man' = [man EXCEPT ![n] = @ + 1] /\ Go(n, "manifest")
       ELSE man' = [man EXCEPT ![n] = 1] /\ Go(n, "submit")
    /\ UNCHANGED <<loopVars, semVars, tags, array, env, outVars, crashed>>

SubmitJobs(n) ==
    /\ pc[n] = "submit"
    /\ submitted' = submitted \cup {n}
    /\ Go(n, "save")
    /\ UNCHANGED <<loopVars, semVars, jobVars, written, saved, crashed>>

SaveJob(n) ==
    /\ pc[n] = "save"
    /\ saved' = saved \cup {<<n, man[n]>>}
    /\ IF man[n] < LastManifest
       THEN man' = [man EXCEPT ![n] = @ + 1] /\ UNCHANGED pc
       ELSE Go(n, "release") /\ UNCHANGED man
    /\ UNCHANGED <<loopVars, semVars, slot, tags, array, env, tagged, written, submitted,
                   crashed>>

\* Mutation: an event whose jobs cannot be submitted or saved is submitted again.
StepFailsRetried(n) ==
    /\ \/ pc[n] = "submit" /\ "submit" \in Faults
       \/ pc[n] = "save" /\ "save" \in Faults
    /\ Go(n, "submit")
    /\ UNCHANGED <<loopVars, semVars, jobVars, outVars, crashed>>

\* The event processor, a payload, the submission or the job store fails: the
\* event is given up where it stands.
StepFails(n) ==
    /\ \/ pc[n] = "process" /\ "process" \in Faults
       \/ pc[n] = "manifest" /\ NeedsPayload(man[n]) /\ "payload" \in Faults
       \/ pc[n] = "submit" /\ "submit" \in Faults
       \/ pc[n] = "save" /\ "save" \in Faults
    /\ Go(n, "release")
    /\ UNCHANGED <<loopVars, semVars, jobVars, outVars, crashed>>

\* Mutation: an event that was given up keeps its token.
ReleaseSubmitted(n) ==
    /\ pc[n] = "release"
    /\ semaphore' = IF n \in submitted THEN semaphore - 1 ELSE semaphore
    /\ Go(n, "done")
    /\ UNCHANGED <<loopVars, waited, jobVars, outVars, crashed>>

\* The deferred receive.
Release(n) ==
    /\ pc[n] = "release"
    /\ semaphore' = semaphore - 1
    /\ Go(n, "done")
    /\ UNCHANGED <<loopVars, waited, jobVars, outVars, crashed>>

EventStep(n) ==
    \/ Process(n) \/ NoPayload(n) \/ WritePayload(n) \/ TagPayload(n) \/ AppendEnv(n)
    \/ CloneTags(n) \/ SubmitJobs(n) \/ SaveJob(n) \/ StepFails(n) \/ Release(n)

Next ==
    /\ ~crashed
    /\ \/ LoopStep
       \/ MapRace \/ MergeRace
       \/ \E n \in Event : EventStep(n)

Spec == Init /\ [][Next]_vars

\* The Go scheduler runs every goroutine that can take a step.
FairSpec ==
    /\ Spec
    /\ WF_vars(~crashed /\ LoopStep)
    /\ \A n \in Event : WF_vars(~crashed /\ EventStep(n))

-----------------------------------------------------------------------------
(* Properties *)

\* What is handed to goroutines is what the generator promised, in order, with no
\* event lost or repeated; the loop ends only after the last one.
EveryEventOnce ==
    /\ IsPrefix(dispatched, Promised(compute))
    /\ loop \in {"wait", "returned"} => dispatched = Promised(compute)

\* The environment of a job as the provider will read it, now or later.
Environment(n, i) ==
    IF env[n][i] = <<>> THEN array[ArrayEvent(n)][ArrayManifest(i)] ELSE env[n][i]

Entries == (1 .. LastSlot) \ (IF "event" \in compute.named THEN {2, 3} ELSE {})

\* Nothing is appended in place to an array that is not the manifest's own: the jobs
\* keep their environments.
ArraysKept == ~Fits(1) \/ ~(EventsShareArrays \/ ManifestsShareArrays)

\* The events work on the arrays one at a time.
ArraysApart == ArraysKept \/ (Concurrency = 1 /\ ~ManifestsShareArrays)

\* The entries of a job are those of its own event and manifest (docs/EVENT-GENERATOR.md
\* tells events apart by their CC_EVENT_IDENTIFIER): when it is submitted, if the events
\* share no array with room in it or run one at a time, and later too if they share none.
JobsOwnEnvironment ==
    \A n \in Event :
        (n \in submitted /\ ArraysKept) \/ (pc[n] \in {"submit", "save"} /\ ArraysApart)
          => \A i \in Manifests : \A k \in Entries : Environment(n, i)[k] = <<n, i>>

\* The events use the Tags maps one at a time.
TagsApart == ~EventsShareTags \/ Concurrency = 1

\* The payload that a job's tags name is the payload written for that job, if the events
\* share no Tags map or run one at a time. Where two events share one and run together,
\* the payload of one may be named by the job of the other.
JobsOwnPayload ==
    TagsApart =>
        \A n \in submitted : \A i \in Manifests :
            NeedsPayload(i) => tagged[n][i] = n /\ <<n, i>> \in written

\* RunParallel takes every event once, at most Concurrency at a time, and returns
\* only when all are over, whichever of their steps failed.
Promise == INSTANCE ParallelEvents WITH
    limit    <- Concurrency,
    events   <- Len(Promised(compute)),
    taken    <- Len(dispatched),
    active   <- {n \in Event : pc[n] \notin {"idle", "done"}},
    returned <- (loop = "returned")

ImplementsPromise == Promise!Spec

-----------------------------------------------------------------------------
(* Why they hold: the parts of an inductive invariant *)

\* The events that NextEvent has returned.
Returns == Len(dispatched) + (IF loop = "acquire" THEN 1 ELSE 0)

\* RunParallel asks for no more events than there are goroutines.
EventsBounded ==
    /\ gen.loop < PerIdentifier(compute)
    /\ compute.kind = "array" =>
          Returns = (gen.pos - compute.first) * PerIdentifier(compute) + gen.loop
    /\ compute.kind \in {"list", "batch"} => Returns = gen.pos
    /\ compute.kind = "streaming" =>
          /\ gen.token # Empty => gen.more /\ gen.pos > 0
          /\ gen.pos \in 0 .. Len(compute.tokens)
          /\ Returns <= (IF gen.token # Empty THEN gen.pos - 1 ELSE gen.pos)
                           * PerIdentifier(compute) + gen.loop
    /\ loop = "acquire" => fetched # <<>> /\ Returns <= MostEvents(compute)
    /\ compute.kind = "array" /\ (loop = "next" \/ (loop = "acquire" /\ fetched.more))
          => gen.pos <= LastValue(compute)

Busy == {n \in Event : pc[n] \notin {"idle", "done"}}

\* The tokens in the semaphore are those of the goroutines and of Wait.
TokensCounted ==
    /\ semaphore = Cardinality(Busy) + waited
    /\ loop \in {"refused", "next", "acquire"} => waited = 0
    /\ loop # "refused" => Concurrency > 0
    /\ loop = "wait" => waited < Concurrency
    /\ loop = "returned" => waited = Concurrency

\* A goroutine starts with its event, at its first manifest, with nothing done.
StartsClean(n) ==
    /\ n > Len(dispatched) => pc[n] = "idle"
    /\ pc[n] \in {"idle", "process"} => man[n] = 1 /\ slot[n] = 0
    /\ pc[n] \in {"idle", "process"} => \A i \in Manifest : env[n][i] = <<>>

Building == {"manifest", "writing", "env", "clone"}

\* The job of manifest i has been made.
Built(n, i) ==
    \/ pc[n] = "submit" \/ n \in submitted
    \/ pc[n] \in Building /\ i < man[n]

\* The goroutine goes through the manifests and through the entries of each.
JobsInOrder(n) ==
    /\ man[n] \in Manifests
    /\ n \in submitted => pc[n] \in {"save", "release", "done"}
    /\ pc[n] \in {"manifest", "writing"} => slot[n] = 0
    /\ pc[n] = "env" => slot[n] < LastSlot
    /\ pc[n] = "clone" => slot[n] = LastSlot

\* A payload is written and named by the tags before its job is made.
PayloadsNamed(n) ==
    TagsApart => \A i \in Manifests : NeedsPayload(i) =>
        /\ Built(n, i) => tagged[n][i] = n /\ <<n, i>> \in written
        /\ pc[n] \in {"writing", "env", "clone"} /\ man[n] = i => <<n, i>> \in written
        /\ pc[n] \in {"env", "clone"} /\ man[n] = i => tags[TagsEvent(n)][i] = n

\* The jobs of the event are still to be submitted, or being saved.
AtWork(n, i) == pc[n] \in {"submit", "save"} \/ (pc[n] \in Building /\ i < man[n])

\* The entries of a job, and those put so far in the environment of the one being
\* made, are its own event's and manifest's; one not yet begun is a slice of array.
EntriesOwned(n) ==
    \A i \in Manifests :
        /\ (ArraysKept /\ n \in submitted) \/ (ArraysApart /\ AtWork(n, i))
              => \A k \in Entries : Environment(n, i)[k] = <<n, i>>
        /\ ArraysApart /\ pc[n] \in Building /\ man[n] = i =>
              \A k \in Entries \cap (1 .. slot[n]) : Environment(n, i)[k] = <<n, i>>
        /\ pc[n] \in Building /\ (i > man[n] \/ (i = man[n] /\ slot[n] = 0))
              => env[n][i] = <<>>

GoroutineInv(n) == StartsClean(n) /\ JobsInOrder(n) /\ PayloadsNamed(n) /\ EntriesOwned(n)

RunInv ==
    /\ TypeOK /\ EventsBounded /\ TokensCounted
    /\ \A n \in Event : GoroutineInv(n)

\* The tokens a stream is done with: those it has read but for the one in hand.
Past(g) == IF g.token # Empty THEN g.pos - 1 ELSE g.pos

\* A stream has returned every position of the loop for each token that is not empty,
\* up to the one it has in hand.
StreamRead ==
    compute.kind = "streaming" =>
        /\ gen.token # Empty => gen.token = compute.tokens[gen.pos]
        /\ Returns = Len(Kept(compute)[Past(gen)]) * PerIdentifier(compute) + gen.loop

\* The events come as promised.
PromiseKept ==
    /\ Len(dispatched) <= Len(Promised(compute))
    /\ \A i \in 1 .. Len(dispatched) : dispatched[i] = Promised(compute)[i]
    /\ loop = "acquire" =>
          /\ Returns <= Len(Promised(compute))
          /\ fetched.event = Promised(compute)[Returns]
          /\ ~fetched.more => Returns = Len(Promised(compute))
    /\ loop \in {"wait", "returned"} => Len(dispatched) = Len(Promised(compute))

-----------------------------------------------------------------------------
(* How far RunParallel and its events have come *)

\* Events asked for, events given to goroutines, and tokens taken at the end.
LoopStage == Returns + Len(dispatched) + waited

LastLoopStage == 2 * Len(Promised(compute)) + Concurrency

\* The steps from the manifest to its job: eight at most.
JobStage(n) ==
    CASE pc[n] = "manifest" -> 0
      [] pc[n] = "writing"  -> 1
      [] pc[n] = "env"      -> 2 + slot[n]
      [] pc[n] = "clone"    -> 7

\* Eight steps for each manifest to build its job, one to save it.
EventStage(n) ==
    CASE pc[n] = "idle"     -> 0
      [] pc[n] = "process"  -> 1
      [] pc[n] \in Building -> 2 + 8 * (man[n] - 1) + JobStage(n)
      [] pc[n] = "submit"   -> 2 + 8 * LastManifest
      [] pc[n] = "save"     -> 2 + 8 * LastManifest + man[n]
      [] pc[n] = "release"  -> 3 + 9 * LastManifest
      [] pc[n] = "done"     -> 4 + 9 * LastManifest

\* As long as NextEvent does not fail, every step takes the loop or an event nearer to
\* its end and none of them back, and what is ahead of them is bounded: the loop, the
\* semaphore and the goroutines cannot keep each other busy for ever.
RunAdvances ==
    [][ \/ crashed'
        \/ loop = "next" /\ NextEvent(compute, gen).outcome = "error"
        \/ /\ LoopStage <= LoopStage' /\ LoopStage' <= LastLoopStage
           /\ \A n \in Event : /\ EventStage(n) <= EventStage(n)'
                               /\ EventStage(n)' <= 4 + 9 * LastManifest
           /\ LoopStage < LoopStage' \/ \E n \in Event : EventStage(n) < EventStage(n)'
      ]_vars

\* What may end the process: a list with nothing in it, a batch always, a Tags map that
\* is missing or that two events use at once.
MayDie ==
    \/ Batch
    \/ compute.kind = "list" /\ compute.tokens = <<>>
    \/ \E i \in Manifests : NeedsPayload(i) /\ (~HasTags \/ ~TagsApart)

\* RunParallel returns, unless the process dies of one of these.
RunReturns == <>(loop \in {"returned", "refused"} \/ (crashed /\ MayDie))

\* What the documents say: each event has its own CC_EVENT_IDENTIFIER, also once its
\* jobs are with the provider. What is the same for every event is left out: the plugin,
\* and a payload that was written beforehand.
JobsKeepEnvironment ==
    \A n \in submitted : \A i \in Manifests : \A k \in Entries \ {4} :
        (k = 1 => NeedsPayload(i)) => Environment(n, i)[k][1] = n
=============================================================================
