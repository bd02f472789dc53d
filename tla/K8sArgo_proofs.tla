--------------------------- MODULE K8sArgo_proofs ---------------------------
(***************************************************************************)
(* Theorems about K8sArgo, for any events, plugins, identifiers,           *)
(* dependencies and failures.                                              *)
(***************************************************************************)
EXTENDS K8sArgo, SequenceTheorems, WellFoundedInduction, TLAPS

LEMMA InitArgo == Init => ArgoInv
<1> SUFFICES ASSUME Init PROVE ArgoInv
  OBVIOUS
<1>1. \A e \in Caller : Len(Events[e]) \in Nat
  BY EventsAssumption
<1>2. TypeOK
  BY <1>1 DEF Init, TypeOK
<1>3. TasksBuilt
  BY DEF Init, TasksBuilt
<1>4. AllBuilt /\ ListedHandled
  BY DEF Init, AllBuilt, ListedHandled
<1> QED
  BY <1>2, <1>3, <1>4 DEF ArgoInv

\* The job for which a task is built next.
LEMMA NextTask ==
  ASSUME ArgoInv, NEW e \in Caller, index[e] <= Len(Events[e])
  PROVE  /\ index[e] \in DOMAIN Events[e] /\ index[e] \in Nat
         /\ Events[e][index[e]] \in Job
         /\ Definition[Events[e][index[e]]] \in Plugins
<1>1. Events[e] \in Seq(Job) /\ index[e] \in Nat \ {0}
  BY EventsAssumption DEF ArgoInv, TypeOK
<1>2. index[e] \in 1 .. Len(Events[e])
  BY <1>1
<1>3. Events[e][index[e]] \in Job
  BY <1>1, <1>2
<1> QED
  BY <1>1, <1>2, <1>3 DEF Plugins

LEMMA BuildKeeps ==
  ASSUME ArgoInv, NEW e \in Caller, BuildTask(e)
  PROVE  ArgoInv'
<1> DEFINE i == index[e]
           j == Events[e][i]
           new == [name |-> JobTask(j), template |-> Definition[j],
                   deps |-> ArgoDependencies(e, j)]
<1>1. /\ pc[e] = "build" /\ i <= Len(Events[e])
      /\ cloned' = [cloned EXCEPT ![e] = @ \cup {Definition[j]}]
      /\ tasks' = [tasks EXCEPT ![e] = @ \cup {new}]
      /\ index' = [index EXCEPT ![e] = @ + 1]
      /\ pc' = [pc EXCEPT ![e] = IF index'[e] > Len(Events[e]) THEN "create" ELSE "build"]
      /\ UNCHANGED <<input, registered, workflows, ended, op, listed, page, unstopped>>
  BY DEF BuildTask, opVars
<1>2. i \in Nat /\ i \in DOMAIN Events[e] /\ j \in Job /\ Definition[j] \in Plugins
  BY <1>1, NextTask
<1>3. new.name = JobTask(j) /\ new.template = Definition[j]
  OBVIOUS
<1>4. new \in Task
  <2>1. ArgoDependencies(e, j) \subseteq {"e"} \X (Job \cup {NoJob})
    <3>1. input[e].deps[j] \subseteq Job
      BY <1>2, InputsAssumption DEF ArgoInv, TypeOK
    <3> QED
      BY <3>1 DEF ArgoDependencies, JobDependencies
  <2> QED
    BY <1>2, <2>1 DEF Task
<1> HIDE DEF i, j, new
<1>5. /\ index \in [Caller -> Nat \ {0}] /\ cloned \in [Caller -> SUBSET Plugins]
      /\ tasks \in [Caller -> SUBSET Task]
      /\ pc \in [Caller -> {"build", "create"} \cup Outcome]
      /\ Len(Events[e]) \in Nat
  BY EventsAssumption DEF ArgoInv, TypeOK
<1>6. \A w \in workflows : w.event # e
  BY <1>1 DEF ArgoInv, AllBuilt
<1>7. \A f \in Caller \ {e} : /\ tasks'[f] = tasks[f] /\ cloned'[f] = cloned[f]
                             /\ index'[f] = index[f] /\ pc'[f] = pc[f]
  BY <1>1, <1>5
<1>8. /\ tasks'[e] = tasks[e] \cup {new} /\ cloned'[e] = cloned[e] \cup {Definition[j]}
      /\ index'[e] = i + 1
      /\ pc'[e] = IF i + 1 > Len(Events[e]) THEN "create" ELSE "build"
  BY <1>1, <1>5 DEF i
<1>9. TypeOK'
  <2>1. index' \in [Caller -> Nat \ {0}] /\ \A f \in Caller : index'[f] <= Len(Events[f]) + 1
    BY <1>1, <1>2, <1>5, <1>7, <1>8 DEF ArgoInv, TypeOK
  <2>2. tasks' \in [Caller -> SUBSET Task] /\ cloned' \in [Caller -> SUBSET Plugins]
    BY <1>1, <1>2, <1>4, <1>5
  <2>3. pc' \in [Caller -> {"build", "create"} \cup Outcome]
    BY <1>1, <1>5
  <2>4. \A w \in workflows' : w.event \in Caller /\ w.tasks = tasks'[w.event]
    BY <1>1, <1>6, <1>7 DEF ArgoInv, TypeOK
  <2> QED
    BY <1>1, <2>1, <2>2, <2>3, <2>4 DEF ArgoInv, TypeOK
<1>10. TasksBuilt'
  <2> SUFFICES ASSUME NEW f \in Caller
               PROVE  /\ {t.name : t \in tasks'[f]}
                            = {JobTask(Events[f][k]) : k \in 1 .. (index'[f] - 1)}
                      /\ {t.template : t \in tasks'[f]} = cloned'[f]
    BY DEF TasksBuilt
  <2>1. /\ {t.name : t \in tasks[f]} = {JobTask(Events[f][k]) : k \in 1 .. (index[f] - 1)}
        /\ {t.template : t \in tasks[f]} = cloned[f]
    BY DEF ArgoInv, TasksBuilt
  <2>2. CASE f # e
    BY <2>1, <2>2, <1>7
  <2>3. CASE f = e
    <3>1. {t.name : t \in tasks'[e]} = {t.name : t \in tasks[e]} \cup {JobTask(j)}
      BY <1>3, <1>8
    <3>2. {t.template : t \in tasks'[e]} = {t.template : t \in tasks[e]} \cup {Definition[j]}
      BY <1>3, <1>8
    <3>3. 1 .. (index'[e] - 1) = 1 .. (index[e] - 1) \cup {i}
      BY <1>2, <1>5, <1>8 DEF i
    <3>4. {JobTask(Events[e][k]) : k \in 1 .. (index'[e] - 1)}
            = {JobTask(Events[e][k]) : k \in 1 .. (index[e] - 1)} \cup {JobTask(j)}
      <4>1. JobTask(Events[e][i]) = JobTask(j)
        BY DEF j
      <4> QED
        BY <3>3, <4>1
    <3>5. {t.name : t \in tasks'[e]} = {JobTask(Events[e][k]) : k \in 1 .. (index'[e] - 1)}
      BY <2>1, <2>3, <3>1, <3>4, Zenon
    <3>6. {t.template : t \in tasks'[e]} = cloned'[e]
      BY <2>1, <2>3, <3>2, <1>8, Zenon
    <3> QED
      BY <2>3, <3>5, <3>6, Zenon
  <2> QED
    BY <2>2, <2>3
<1>11. AllBuilt'
  <2>1. pc'[e] \in {"create", "created"} => index'[e] = Len(Events[e]) + 1
    BY <1>1, <1>2, <1>5, <1>8 DEF i
  <2> QED
    BY <1>1, <1>6, <1>7, <2>1 DEF ArgoInv, AllBuilt, TypeOK
<1>12. ListedHandled'
  BY <1>1 DEF ArgoInv, ListedHandled
<1> QED
  BY <1>9, <1>10, <1>11, <1>12 DEF ArgoInv

LEMMA CreateKeeps ==
  ASSUME ArgoInv, NEW e \in Caller, CreateWorkflow(e)
  PROVE  ArgoInv'
<1> DEFINE new == [event |-> e, name |-> Name(e), tasks |-> tasks[e], templates |-> cloned[e]]
<1>1. /\ pc[e] = "create" /\ pc' = [pc EXCEPT ![e] = "created"]
      /\ workflows' = workflows \cup {new}
      /\ UNCHANGED <<input, registered, index, cloned, tasks, ended, op, listed, page, unstopped>>
  BY DEF CreateWorkflow, opVars
<1>2. new.event = e /\ new.tasks = tasks[e] /\ new.templates = cloned[e]
  OBVIOUS
<1> HIDE DEF new
<1>3. pc \in [Caller -> {"build", "create"} \cup Outcome]
  BY DEF ArgoInv, TypeOK
<1>4. TypeOK'
  <2>1. pc' \in [Caller -> {"build", "create"} \cup Outcome]
    BY <1>1, <1>3 DEF Outcome
  <2>2. {w.event : w \in workflows} \subseteq {w.event : w \in workflows'}
    BY <1>1
  <2>3. \A w \in workflows' : w.event \in Caller /\ w.tasks = tasks[w.event]
    BY <1>1, <1>2 DEF ArgoInv, TypeOK
  <2> QED
    BY <1>1, <2>1, <2>2, <2>3 DEF ArgoInv, TypeOK
<1>5. TasksBuilt'
  BY <1>1 DEF ArgoInv, TasksBuilt
<1>6. AllBuilt'
  <2>1. \A f \in Caller : f # e => pc'[f] = pc[f]
    BY <1>1, <1>3
  <2>2. pc'[e] = "created"
    BY <1>1, <1>3
  <2>3. \A w \in workflows : w.event \in Caller
    BY DEF ArgoInv, TypeOK
  <2>4. index[e] = Len(Events[e]) + 1
    BY <1>1 DEF ArgoInv, AllBuilt
  <2>5. \A w \in workflows' : pc'[w.event] = "created" /\ w.templates = cloned[w.event]
    BY <1>1, <1>2, <2>1, <2>2, <2>3 DEF ArgoInv, AllBuilt
  <2> QED
    BY <1>1, <2>1, <2>4, <2>5 DEF ArgoInv, AllBuilt
<1>7. ListedHandled'
  BY <1>1 DEF ArgoInv, ListedHandled
<1> QED
  BY <1>4, <1>5, <1>6, <1>7 DEF ArgoInv

\* A call that ends without a workflow, and what happens outside SubmitJobs.
LEMMA FailKeeps ==
  ASSUME ArgoInv, NEW e \in Caller, TemplateMissing(e) \/ CreateRefused(e)
  PROVE  ArgoInv'
<1>1. PICK outcome \in {"failed", "exists", "invalid"} :
         /\ pc[e] \in {"build", "create"}
         /\ pc' = [pc EXCEPT ![e] = outcome]
         /\ UNCHANGED <<input, registered, index, cloned, tasks, workflows, ended, op, listed, page, unstopped>>
  BY DEF TemplateMissing, CreateRefused, opVars
<1>2. pc \in [Caller -> {"build", "create"} \cup Outcome]
  BY DEF ArgoInv, TypeOK
<1>3. /\ pc' \in [Caller -> {"build", "create"} \cup Outcome]
      /\ \A f \in Caller : f # e => pc'[f] = pc[f]
      /\ pc'[e] = outcome
  BY <1>1, <1>2 DEF Outcome
<1>4. TypeOK' /\ TasksBuilt'
  BY <1>1, <1>3 DEF ArgoInv, TypeOK, TasksBuilt
<1>5. \A w \in workflows : w.event # e /\ w.event \in Caller
  BY <1>1 DEF ArgoInv, AllBuilt, TypeOK
<1>6. AllBuilt'
  BY <1>1, <1>3, <1>5 DEF ArgoInv, AllBuilt
<1>7. ListedHandled'
  BY <1>1 DEF ArgoInv, ListedHandled
<1> QED
  BY <1>4, <1>6, <1>7 DEF ArgoInv

LEMMA OthersKeep ==
  ASSUME ArgoInv,
         UNCHANGED <<input, callVars, workflows>>,
         registered' \subseteq registered,
         ended' \subseteq {w.event : w \in workflows},
         listed' \subseteq {w.event : w \in workflows},
         page' \subseteq listed', unstopped' \subseteq listed',
         op' \in {"idle", "stop", "done", "failed"},
         ListedHandled'
  PROVE  ArgoInv'
BY DEF ArgoInv, TypeOK, TasksBuilt, AllBuilt, callVars

LEMMA NextArgo == ArgoInv /\ [Next]_vars => ArgoInv'
<1> SUFFICES ASSUME ArgoInv, [Next]_vars PROVE ArgoInv'
  OBVIOUS
<1>1. /\ ended \subseteq {w.event : w \in workflows}
      /\ listed \subseteq {w.event : w \in workflows}
      /\ page \subseteq listed /\ unstopped \subseteq listed
      /\ op \in {"idle", "stop", "done", "failed"}
      /\ ListedHandled
  BY DEF ArgoInv, TypeOK
<1>2. ASSUME NEW e \in Caller,
             BuildTask(e) \/ TemplateMissing(e) \/ CreateWorkflow(e) \/ CreateRefused(e)
      PROVE  ArgoInv'
  BY <1>2, BuildKeeps, CreateKeeps, FailKeeps
<1>3. ASSUME NEW e \in Caller, WorkflowEnds(e) PROVE ArgoInv'
  BY <1>1, <1>3, OthersKeep DEF WorkflowEnds, opVars, ListedHandled
<1>4. ASSUME NEW p \in Plugins, UnregisterPlugin(p) PROVE ArgoInv'
  BY <1>1, <1>4, OthersKeep DEF UnregisterPlugin, opVars, ListedHandled
<1>5. CASE ListWorkflows
  BY <1>1, <1>5, OthersKeep DEF ListWorkflows, ListedHandled
<1>6. CASE StopWorkflow
  BY <1>1, <1>6, OthersKeep DEF StopWorkflow, ListedHandled
<1>7. CASE StopFails
  BY <1>1, <1>7, OthersKeep DEF StopFails, ListedHandled
<1>8. CASE StopEnds
  BY <1>1, <1>8, OthersKeep DEF StopEnds, ListedHandled
<1>9. CASE UNCHANGED vars
  BY <1>1, <1>9, OthersKeep DEF vars, opVars, ListedHandled
<1>10. CASE ListFails
  BY <1>1, <1>10, OthersKeep DEF ListFails, ListedHandled
<1> QED
  BY <1>2, <1>3, <1>4, <1>5, <1>6, <1>7, <1>8, <1>9, <1>10 DEF Next

\* The tasks of an event follow its jobs one by one, and a workflow holds them all.
THEOREM ArgoInvariant == Spec => []ArgoInv
<1> QED
  BY InitArgo, NextArgo, PTL DEF Spec

\* Every variable keeps its type; in particular only workflows that are there are
\* stopped.
THEOREM ArgoTypes == Spec => []TypeOK
<1>1. ArgoInv => TypeOK
  BY DEF ArgoInv
<1> QED
  BY <1>1, ArgoInvariant, PTL

\* Whatever templates are unregistered and whatever fails meanwhile, a workflow has a
\* task for every job of its event, and the templates of all its tasks.
THEOREM WorkflowsWhole == Spec => []WorkflowComplete
<1>1. ArgoInv => WorkflowComplete
  <2> SUFFICES ASSUME ArgoInv, NEW w \in workflows
               PROVE  /\ {t.name : t \in w.tasks}
                            = {JobTask(Events[w.event][i]) : i \in DOMAIN Events[w.event]}
                      /\ {t.template : t \in w.tasks} = w.templates
    BY DEF WorkflowComplete
  <2>1. /\ w.event \in Caller /\ w.tasks = tasks[w.event] /\ w.templates = cloned[w.event]
        /\ index[w.event] = Len(Events[w.event]) + 1
    BY DEF ArgoInv, TypeOK, AllBuilt
  <2>2. 1 .. (index[w.event] - 1) = DOMAIN Events[w.event]
    BY <2>1, EventsAssumption
  <2> QED
    BY <2>1, <2>2 DEF ArgoInv, TasksBuilt
<1> QED
  BY <1>1, ArgoInvariant, PTL
-----------------------------------------------------------------------------
(* Slugs *)

\* Induction, for sets of numbers.
LEMMA Induction ==
  ASSUME NEW S, 0 \in S, \A k \in Nat : k \in S => k + 1 \in S
  PROVE  Nat \subseteq S
<1> DEFINE T == Nat \ S
<1>1. SUFFICES ASSUME T # {} PROVE FALSE
  OBVIOUS
<1>2. T \subseteq Nat
  OBVIOUS
<1> HIDE DEF T
<1>3. PICK x \in T : \A y \in T : <<y, x>> \notin OpToRel(<, Nat)
  BY <1>1, <1>2, NatLessThanWellFounded, WFMin
<1>4. x \in Nat /\ x # 0
  BY <1>2 DEF T
<1>5. x - 1 \in Nat /\ x - 1 < x /\ x = (x - 1) + 1
  BY <1>4
<1>6. <<x - 1, x>> \in OpToRel(<, Nat)
  BY <1>4, <1>5 DEF OpToRel
<1>7. x - 1 \in S
  BY <1>3, <1>5, <1>6 DEF T
<1> QED
  BY <1>3, <1>5, <1>7 DEF T

\* The recursive definition of WrittenUpTo defines a function.
LEMMA WrittenUpToDef ==
  ASSUME NEW s, Len(s) \in Nat
  PROVE  WrittenUpTo(s) = [p \in 0 .. Len(s) |->
                          IF p = 0 THEN <<>> ELSE Written(WrittenUpTo(s)[p - 1], s[p])]
<1> DEFINE Upto(n, f) == f = [p \in 0 .. n |->
                                IF p = 0 THEN <<>> ELSE Written(f[p - 1], s[p])]
           S == {n \in Nat : \E f : Upto(n, f)}
<1>1. 0 \in S
  <2> DEFINE f == [p \in 0 .. 0 |-> <<>>]
  <2>1. Upto(0, f)
    OBVIOUS
  <2> QED
    BY <2>1
<1>2. ASSUME NEW n \in Nat, n \in S PROVE n + 1 \in S
  <2>1. PICK f : Upto(n, f)
    BY <1>2
  <2> DEFINE g == [p \in 0 .. (n + 1) |-> IF p = n + 1 THEN Written(f[n], s[n + 1]) ELSE f[p]]
  <2>2. ASSUME NEW p \in 0 .. (n + 1)
        PROVE  g[p] = IF p = 0 THEN <<>> ELSE Written(g[p - 1], s[p])
    <3>1. CASE p = n + 1
      <4>1. g[p] = Written(f[n], s[n + 1]) /\ g[n] = f[n]
        BY <3>1
      <4> QED
        BY <3>1, <4>1
    <3>2. CASE p # n + 1 /\ p # 0
      <4>1. p \in 0 .. n /\ p - 1 \in 0 .. n /\ p - 1 \in 0 .. (n + 1) /\ p - 1 # n + 1
        BY <3>2
      <4>2. g[p] = f[p] /\ g[p - 1] = f[p - 1]
        BY <4>1, <3>2
      <4>3. f[p] = Written(f[p - 1], s[p])
        BY <2>1, <4>1, <3>2
      <4> QED
        BY <4>2, <4>3, <3>2
    <3>3. CASE p = 0
      <4>1. f[0] = <<>>
        BY <2>1
      <4>2. p # n + 1 /\ g[p] = f[p]
        BY <3>3
      <4> QED
        BY <3>3, <4>1, <4>2
    <3> QED
      BY <3>1, <3>2, <3>3
  <2>3. Upto(n + 1, g)
    <3> HIDE DEF g
    <3>1. g = [p \in 0 .. (n + 1) |-> g[p]]
      BY DEF g
    <3> QED
      BY <2>2, <3>1
  <2> HIDE DEF g, Upto
  <2>4. \E h : Upto(n + 1, h)
    BY <2>3
  <2> QED
    BY <2>4
<1> HIDE DEF S
<1>3. Len(s) \in S
  BY <1>1, <1>2, Induction
<1> QED
  BY <1>3 DEF S, WrittenUpTo

Char == Lower \cup {"-"}

\* No two hyphens beside each other, and nothing but lower case.
Clean(t) ==
    /\ t \in Seq(Char)
    /\ \A i \in 1 .. (Len(t) - 1) : t[i] # "-" \/ t[i + 1] # "-"

\* No hyphen at the ends.
Trimmed(t) == t # <<>> => t[1] # "-" /\ Last(t) # "-"

LEMMA AppendKeepsClean ==
  ASSUME NEW t, Clean(t), NEW ch \in Char,
         t # <<>> /\ t[Len(t)] = "-" => ch # "-"
  PROVE  Clean(Append(t, ch))
<1> DEFINE u == Append(t, ch)
<1>1. t \in Seq(Char) /\ Len(t) \in Nat
  BY DEF Clean
<1>2. /\ u \in Seq(Char) /\ Len(u) = Len(t) + 1
      /\ \A i \in 1 .. Len(t) : u[i] = t[i]
      /\ u[Len(t) + 1] = ch
  BY <1>1, AppendProperties
<1> HIDE DEF u
<1>3. ASSUME NEW i \in 1 .. (Len(u) - 1) PROVE u[i] # "-" \/ u[i + 1] # "-"
  <2>1. CASE i = Len(t)
    <3>1. t # <<>> /\ u[i] = t[Len(t)] /\ u[i + 1] = ch
      BY <1>1, <1>2, <2>1
    <3> QED
      BY <3>1
  <2>2. CASE i # Len(t)
    <3>1. i \in 1 .. (Len(t) - 1) /\ u[i] = t[i] /\ u[i + 1] = t[i + 1]
      BY <1>1, <1>2, <2>2
    <3> QED
      BY <3>1 DEF Clean
  <2> QED
    BY <2>1, <2>2
<1> QED
  BY <1>2, <1>3 DEF Clean, u

\* Whatever the character is, what is written stays clean.
LEMMA WrittenClean ==
  ASSUME NEW t, Clean(t), NEW ch
  PROVE  Clean(Written(t, ch))
<1>1. Lower \subseteq Char /\ "-" \in Char /\ "-" \notin Lower
  BY DEF Char, Lower, Digit
<1>2. CASE ch \in Lower
  BY <1>1, <1>2, AppendKeepsClean DEF Written
<1>3. CASE ch \notin Lower /\ ch \in DOMAIN Upper
  <2>1. Upper[ch] \in Lower
    BY <1>3 DEF Upper, Lower
  <2>2. Clean(Append(t, Upper[ch]))
    BY <1>1, <2>1, AppendKeepsClean
  <2> QED
    BY <1>3, <2>2 DEF Written
<1>4. CASE ch \notin Lower /\ ch \notin DOMAIN Upper
  <2>1. CASE t # <<>> /\ Last(t) = "-"
    BY <1>4, <2>1 DEF Written
  <2>2. CASE ~(t # <<>> /\ Last(t) = "-")
    <3>1. Clean(Append(t, "-"))
      BY <1>1, <2>2, AppendKeepsClean DEF Last
    <3> QED
      BY <1>4, <2>2, <3>1 DEF Written
  <2> QED
    BY <2>1, <2>2
<1> QED
  BY <1>2, <1>3, <1>4

LEMMA WrittenUpToClean ==
  ASSUME NEW s, Len(s) \in Nat
  PROVE  \A p \in 0 .. Len(s) : Clean(WrittenUpTo(s)[p])
<1> DEFINE S == {p \in Nat : p <= Len(s) => Clean(WrittenUpTo(s)[p])}
<1>1. 0 \in S
  <2>1. WrittenUpTo(s)[0] = <<>>
    BY WrittenUpToDef
  <2>2. Clean(<<>>)
    BY DEF Clean
  <2> QED
    BY <2>1, <2>2
<1>2. ASSUME NEW k \in Nat, k \in S PROVE k + 1 \in S
  <2> SUFFICES ASSUME k + 1 <= Len(s) PROVE Clean(WrittenUpTo(s)[k + 1])
    OBVIOUS
  <2>1. WrittenUpTo(s)[k + 1] = Written(WrittenUpTo(s)[k], s[k + 1])
    <3>1. k + 1 \in 0 .. Len(s) /\ k + 1 # 0 /\ (k + 1) - 1 = k
      OBVIOUS
    <3> QED
      BY <3>1, WrittenUpToDef
  <2>2. Clean(WrittenUpTo(s)[k])
    BY <1>2
  <2> QED
    BY <2>1, <2>2, WrittenClean
<1>3. Nat \subseteq S
  <2> HIDE DEF S
  <2> QED
    BY <1>1, <1>2, Induction
<1> QED
  BY <1>3

\* What is left between the hyphens at the ends.
LEMMA SlugClean ==
  ASSUME NEW s, Len(s) \in Nat
  PROVE  Clean(Slug(s)) /\ Trimmed(Slug(s))
<1> DEFINE u == WrittenUpTo(s)[Len(s)]
           first == IF u # <<>> /\ u[1] = "-" THEN 2 ELSE 1
           last == IF u # <<>> /\ Last(u) = "-" THEN Len(u) - 1 ELSE Len(u)
           t == SubSeq(u, first, last)
<1>1. Slug(s) = t
  BY DEF Slug
<1>2. Clean(u)
  BY WrittenUpToClean
<1> HIDE DEF u
<1>3. /\ u \in Seq(Char) /\ Len(u) \in Nat
      /\ \A i \in 1 .. Len(u) : u[i] \in Char
  BY <1>2 DEF Clean
<1>4. /\ first \in {1, 2} /\ last \in Int /\ last <= Len(u)
      /\ \A i \in first .. last : i \in 1 .. Len(u)
  BY <1>3
<1>5. \A i \in first .. last : u[i] \in Char
  BY <1>3, <1>4
<1>6. u # <<>> => first = (IF u[1] = "-" THEN 2 ELSE 1)
  OBVIOUS
<1>7. u # <<>> => last = IF u[Len(u)] = "-" THEN Len(u) - 1 ELSE Len(u)
  BY DEF Last
<1> HIDE DEF first, last
<1>8. /\ t \in Seq(Char)
      /\ Len(t) = IF first <= last THEN last - first + 1 ELSE 0
      /\ \A i \in 1 .. (last - first + 1) : t[i] = u[first + i - 1]
  BY <1>4, <1>5, SubSeqProperties
<1> HIDE DEF t
<1>9. ASSUME NEW i \in 1 .. (Len(t) - 1) PROVE t[i] # "-" \/ t[i + 1] # "-"
  <2>1. Len(t) = last - first + 1
    BY <1>4, <1>8
  <2>2. i \in 1 .. (last - first + 1) /\ i + 1 \in 1 .. (last - first + 1)
    BY <1>4, <2>1
  <2>3. first + i - 1 \in 1 .. (Len(u) - 1) /\ first + (i + 1) - 1 = (first + i - 1) + 1
    BY <1>3, <1>4, <2>2
  <2>4. t[i] = u[first + i - 1] /\ t[i + 1] = u[(first + i - 1) + 1]
    BY <1>8, <2>2, <2>3
  <2> QED
    BY <1>2, <2>3, <2>4 DEF Clean
<1>10. ASSUME t # <<>> PROVE t[1] # "-" /\ t[Len(t)] # "-"
  <2>1. Len(t) > 0 /\ first <= last /\ Len(t) = last - first + 1
    BY <1>4, <1>8, <1>10
  <2>2. u # <<>> /\ Len(u) > 0
    BY <1>3, <1>4, <2>1
  <2>3. t[1] = u[first] /\ t[Len(t)] = u[last]
    <3>1. 1 \in 1 .. (last - first + 1) /\ Len(t) \in 1 .. (last - first + 1)
      BY <1>4, <2>1
    <3>2. first + 1 - 1 = first /\ first + Len(t) - 1 = last
      BY <1>4, <2>1
    <3> QED
      BY <1>8, <3>1, <3>2
  <2>4. u[first] # "-"
    <3>1. CASE u[1] = "-"
      <4>1. first = 2 /\ 1 \in 1 .. (Len(u) - 1)
        BY <1>3, <1>4, <1>6, <2>1, <2>2, <3>1
      <4> QED
        BY <1>2, <3>1, <4>1 DEF Clean
    <3> QED
      BY <1>6, <2>2, <3>1
  <2>5. u[last] # "-"
    <3>1. CASE u[Len(u)] = "-"
      <4>1. last = Len(u) - 1 /\ last \in 1 .. (Len(u) - 1) /\ last + 1 = Len(u)
        BY <1>3, <1>4, <1>7, <2>1, <2>2, <3>1
      <4> QED
        BY <1>2, <3>1, <4>1 DEF Clean
    <3> QED
      BY <1>7, <2>2, <3>1
  <2> QED
    BY <2>3, <2>4, <2>5
<1> QED
  BY <1>1, <1>8, <1>9, <1>10 DEF Clean, Trimmed, Last

\* A label is written as it is read, character by character.
LEMMA SlugFixed ==
  ASSUME NEW s, Clean(s), Trimmed(s)
  PROVE  Slug(s) = s
<1> DEFINE S == {p \in Nat : p <= Len(s) => WrittenUpTo(s)[p] = SubSeq(s, 1, p)}
<1>1. s \in Seq(Char) /\ Len(s) \in Nat /\ \A i \in 1 .. Len(s) : s[i] \in Char
  BY DEF Clean
<1>2. 0 \in S
  <2>1. WrittenUpTo(s)[0] = <<>>
    BY <1>1, WrittenUpToDef
  <2>2. SubSeq(s, 1, 0) = <<>>
    BY SubSeqEmpty
  <2> QED
    BY <2>1, <2>2
<1>3. ASSUME NEW k \in Nat, k \in S PROVE k + 1 \in S
  <2> SUFFICES ASSUME k + 1 <= Len(s) PROVE WrittenUpTo(s)[k + 1] = SubSeq(s, 1, k + 1)
    OBVIOUS
  <2> DEFINE t == SubSeq(s, 1, k)
             ch == s[k + 1]
  <2>1. WrittenUpTo(s)[k + 1] = Written(t, ch)
    <3>1. k + 1 \in 0 .. Len(s) /\ k + 1 # 0 /\ (k + 1) - 1 = k
      BY <1>1
    <3>2. WrittenUpTo(s)[k] = t
      BY <1>1, <1>3
    <3> QED
      BY <1>1, <3>1, <3>2, WrittenUpToDef
  <2>2. /\ t \in Seq(Char) /\ Len(t) = k
        /\ \A i \in 1 .. k : t[i] = s[i]
    <3>1. \A i \in 1 .. k : s[i] \in Char
      BY <1>1
    <3>2. k \in Int /\ 1 \in Int
      OBVIOUS
    <3>3. /\ t \in Seq(Char) /\ Len(t) = (IF 1 <= k THEN k - 1 + 1 ELSE 0)
          /\ \A i \in 1 .. (k - 1 + 1) : t[i] = s[1 + i - 1]
      BY <3>1, <3>2, SubSeqProperties
    <3> QED
      BY <3>3
  <2>3. ch \in Char /\ k + 1 \in 1 .. Len(s)
    BY <1>1
  <2> DEFINE full == SubSeq(s, 1, k + 1)
  <2>4. /\ full \in Seq(Char) /\ Len(full) = k + 1
        /\ \A i \in 1 .. (k + 1) : full[i] = s[i]
    <3>1. \A i \in 1 .. (k + 1) : s[i] \in Char
      BY <1>1
    <3>2. k + 1 \in Int /\ 1 \in Int
      OBVIOUS
    <3>3. /\ full \in Seq(Char) /\ Len(full) = (IF 1 <= k + 1 THEN (k + 1) - 1 + 1 ELSE 0)
          /\ \A i \in 1 .. ((k + 1) - 1 + 1) : full[i] = s[1 + i - 1]
      BY <3>1, <3>2, SubSeqProperties
    <3> QED
      BY <3>3
  <2> HIDE DEF t, full
  <2>5. full = Append(t, ch)
    <3>1. /\ Append(t, ch) \in Seq(Char) /\ Len(Append(t, ch)) = k + 1
          /\ \A i \in 1 .. k : Append(t, ch)[i] = t[i]
          /\ Append(t, ch)[k + 1] = ch
      BY <2>2, <2>3, AppendProperties
    <3>2. \A i \in 1 .. (k + 1) : Append(t, ch)[i] = full[i]
      BY <2>2, <2>4, <3>1
    <3> QED
      BY <2>4, <3>1, <3>2, SeqEqual
  <2>6. Written(t, ch) = Append(t, ch)
    <3>1. CASE ch \in Lower
      BY <3>1 DEF Written
    <3>2. CASE ch \notin Lower
      <4>1. ch = "-" /\ ch \notin DOMAIN Upper
        BY <2>3, <3>2 DEF Char, Upper
      <4>2. ~(t # <<>> /\ Last(t) = "-")
        <5> SUFFICES ASSUME t # <<>>, t[Len(t)] = "-" PROVE FALSE
          BY DEF Last
        <5>1. k \in 1 .. (Len(s) - 1) /\ s[k] = "-"
          BY <1>1, <2>2, <2>3
        <5> QED
          BY <4>1, <5>1 DEF Clean
      <4> QED
        BY <3>2, <4>1, <4>2 DEF Written
    <3> QED
      BY <3>1, <3>2
  <2> QED
    BY <2>1, <2>5, <2>6 DEF full
<1>4. WrittenUpTo(s)[Len(s)] = s
  <2>1. Nat \subseteq S
    <3> HIDE DEF S
    <3> QED
      BY <1>2, <1>3, Induction
  <2>2. SubSeq(s, 1, Len(s)) = s
    BY <1>1, SubSeqFull
  <2> QED
    BY <1>1, <2>1, <2>2
<1>5. SubSeq(s, 1, Len(s)) = s
  BY <1>1, SubSeqFull
<1> QED
  BY <1>4, <1>5 DEF Slug, Trimmed

LEMMA InputFacts ==
  ASSUME TypeOK, NEW e \in Caller
  PROVE  /\ input[e].identifier \in Seq(Range(input[e].identifier))
         /\ Len(input[e].identifier) \in Nat
<1>1. input[e] \in Inputs[e]
  BY DEF TypeOK
<1>2. input[e].identifier \in Seq(Range(input[e].identifier))
  BY <1>1, InputsAssumption
<1> QED
  BY <1>2

\* Whatever an identifier is made of, its slug can stand in a workflow's name as it
\* is: no hyphen at the ends or beside another, and the slug of itself.
THEOREM SlugsAreLabels == Spec => []SlugIsLabel
<1>1. TypeOK => SlugIsLabel
  <2> SUFFICES ASSUME TypeOK, NEW e \in Caller, NEW s, s = Slug(input[e].identifier)
               PROVE  /\ Range(s) \subseteq Lower \cup {"-"}
                      /\ s # <<>> => s[1] # "-" /\ Last(s) # "-"
                      /\ \A i \in 1 .. (Len(s) - 1) : s[i] # "-" \/ s[i + 1] # "-"
                      /\ Slug(s) = s
    BY DEF SlugIsLabel
  <2>1. Clean(s) /\ Trimmed(s)
    BY InputFacts, SlugClean
  <2>2. Slug(s) = s
    BY <2>1, SlugFixed
  <2>3. Range(s) \subseteq Lower \cup {"-"}
    BY <2>1 DEF Clean, Char, Range
  <2> QED
    BY <2>1, <2>2, <2>3 DEF Clean, Trimmed
<1> QED
  BY <1>1, ArgoTypes, PTL

\* When TerminateJobs has returned nil, what it was given is over or could not be
\* stopped, whichever of the calls failed.
THEOREM WorkflowsEnded == Spec => []ListedAreOver
<1>1. ArgoInv => ListedAreOver
  BY DEF ArgoInv, ListedHandled, ListedAreOver
<1> QED
  BY <1>1, ArgoInvariant, PTL
=============================================================================
