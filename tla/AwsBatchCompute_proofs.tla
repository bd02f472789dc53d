----------------------- MODULE AwsBatchCompute_proofs -----------------------
(***************************************************************************)
(* Theorems about AwsBatchCompute, for any jobs, events and dependencies,  *)
(* any number of retries, pages of any size and any failures.              *)
(***************************************************************************)
EXTENDS AwsBatchCompute, TLAPS

LEMMA InitBatch == Init => BatchInv
<1> SUFFICES ASSUME Init PROVE BatchInv
  OBVIOUS
<1> USE DEF Init
<1>1. TypeOK
  <2>1. level \in DOMAIN StatusList
    BY DEF StatusList
  <2>2. /\ \A j \in Job : Retries[j] \in Nat /\ 0 <= Retries[j]
        /\ 1 \in Nat \ {0}
    BY OperationAssumption
  <2> QED
    BY <2>1, <2>2 DEF TypeOK, BatchStatus
<1>2. NotYetSubmitted /\ SubmittedWhole /\ DependencyOrder
  BY BatchAssumption DEF NotYetSubmitted, SubmittedWhole, DependencyOrder
<1>3. PagesHandled /\ RunningHandled /\ VendorJobsHandled /\ StatesCovered
  BY DEF PagesHandled, RunningHandled, VendorJobsHandled, StatesCovered, Due
<1> QED
  BY <1>1, <1>2, <1>3 DEF BatchInv

\* A submitter at its next job finds one, that nobody has submitted.
LEMMA NextJob ==
  ASSUME BatchInv, NEW e \in Caller, next[e] <= Len(Events[e])
  PROVE  /\ next[e] \in DOMAIN Events[e]
         /\ Events[e][next[e]] \in Job
         /\ status[Events[e][next[e]]] = "none"
<1>1. next[e] \in Nat \ {0} /\ Events[e] \in Seq(Job)
  BY BatchAssumption DEF BatchInv, TypeOK
<1>2. next[e] \in 1 .. Len(Events[e])
  BY <1>1
<1>3. status[Events[e][next[e]]] = "none"
  BY <1>1, <1>2 DEF BatchInv, NotYetSubmitted
<1> QED
  BY <1>1, <1>2, <1>3

LEMMA SubmitKeeps ==
  ASSUME BatchInv, NEW e \in Caller, SubmitJob(e)
  PROVE  BatchInv'
<1> DEFINE j == Events[e][next[e]]
<1>1. /\ NoJob \notin MapDependencies(e, j)
      /\ dependsOn' = [dependsOn EXCEPT ![j] = MapDependencies(e, j)]
      /\ status' = [status EXCEPT ![j] = "SUBMITTED"]
      /\ next' = [next EXCEPT ![e] = @ + 1]
      /\ next[e] <= Len(Events[e])
      /\ UNCHANGED <<retried, subpc, what, op, level, seen, more, page, present, running, reported>>
  BY DEF SubmitJob, opVars
<1>2. j \in Job /\ status[j] = "none" /\ next[e] \in DOMAIN Events[e]
  BY <1>1, NextJob
<1>3. MapDependencies(e, j) = ManifestDeps[j]
  BY <1>1 DEF MapDependencies
<1>4. ManifestDeps[j] \subseteq Job
  BY <1>2, BatchAssumption
<1> HIDE DEF j
<1>5. TypeOK'
  BY <1>1, <1>2, <1>3, <1>4 DEF BatchInv, TypeOK, BatchStatus, Active
<1>6. status \in [Job -> BatchStatus] /\ next \in [Caller -> Nat \ {0}]
      /\ dependsOn \in [Job -> SUBSET Job]
  BY DEF BatchInv, TypeOK
<1>7. \A i \in Job : i # j => status'[i] = status[i]
  BY <1>1, <1>6
<1>8. status'[j] = "SUBMITTED"
  BY <1>1, <1>2, <1>6
<1>9. NotYetSubmitted'
  <2> SUFFICES ASSUME NEW f \in Caller, NEW i \in 1 .. Len(Events[f]), i >= next'[f]
               PROVE  status'[Events[f][i]] = "none"
    BY DEF NotYetSubmitted
  <2>1. Events[f] \in Seq(Job) /\ i \in DOMAIN Events[f]
    BY BatchAssumption
  <2>2. i >= next[f] /\ ~(f = e /\ i = next[e])
    BY <1>1, <1>6
  <2>3. Events[f][i] # j
    BY <2>1, <2>2, <1>2, BatchAssumption DEF j
  <2>4. status[Events[f][i]] = "none"
    BY <2>2 DEF BatchInv, NotYetSubmitted
  <2> QED
    BY <2>1, <2>3, <2>4, <1>7
<1>10. SubmittedWhole'
  BY <1>1, <1>2, <1>3, <1>6, <1>7 DEF BatchInv, SubmittedWhole
<1>11. DependencyOrder'
  <2> SUFFICES ASSUME NEW i \in Job,
                      status'[i] \in {"RUNNABLE", "STARTING", "RUNNING", "SUCCEEDED"},
                      NEW d \in ManifestDeps[i]
               PROVE  status'[d] = "SUCCEEDED"
    BY DEF DependencyOrder
  <2>1. i # j /\ status'[i] = status[i]
    BY <1>7, <1>8
  <2>2. d \in Job /\ status[d] = "SUCCEEDED"
    BY <2>1, BatchAssumption DEF BatchInv, DependencyOrder
  <2> QED
    BY <2>2, <1>2, <1>7
<1>12. PagesHandled' /\ RunningHandled' /\ VendorJobsHandled'
  <2>1. present \subseteq Job /\ running \subseteq Job /\ j \notin present \cup running
    BY <1>2 DEF BatchInv, TypeOK, PagesHandled
  <2> QED
    BY <1>1, <1>7, <2>1
    DEF BatchInv, PagesHandled, RunningHandled, VendorJobsHandled, Handling
<1>13. StatesCovered'
  <2>1. present \subseteq Job /\ j \notin present
    BY <1>2 DEF BatchInv, TypeOK, PagesHandled
  <2>2. Due' = Due
    BY <1>1, <1>7, <2>1 DEF Due
  <2>3. \A i \in Due : status'[i] = status[i]
    BY <1>7, <2>1 DEF Due
  <2>4. seen \subseteq Job /\ (what = "TerminateQueue" => j \notin seen)
    BY <1>2 DEF BatchInv, TypeOK, StatesCovered
  <2>5. \A i \in Job : Handling(i)' = Handling(i)
    BY <1>1 DEF Handling
  <2> QED
    BY <1>1, <1>7, <2>2, <2>3, <2>4, <2>5 DEF BatchInv, StatesCovered
<1> QED
  BY <1>5, <1>9, <1>10, <1>11, <1>12, <1>13 DEF BatchInv

\* AWS Batch takes a job to a later state, or back by a retry.
LEMMA MoveKeeps ==
  ASSUME BatchInv, NEW j \in Job, NEW to \in BatchStatus,
         status[j] \in Active, to # "none",
         status' = [status EXCEPT ![j] = to],
         UNCHANGED <<dependsOn, next, subpc, what, op, level, seen, more, page, present, running, reported>>,
         retried' \in [Job -> Nat], \A i \in Job : retried'[i] <= Retries[i],
         \A i \in Job : retried'[i] = 0 => retried[i] = 0,
         retried'[j] = 0 /\ to \in Active => Rank[to] > Rank[status[j]],
         to \in {"RUNNABLE", "STARTING", "RUNNING", "SUCCEEDED"} =>
            \A d \in ManifestDeps[j] : status[d] = "SUCCEEDED"
  PROVE  BatchInv'
<1>1. status \in [Job -> BatchStatus] /\ present \subseteq Job /\ running \subseteq Job
      /\ seen \subseteq Job
  BY DEF BatchInv, TypeOK
<1>2. \A i \in Job : status'[i] = IF i = j THEN to ELSE status[i]
  BY <1>1
<1>3. \A i \in Job : status'[i] \in Active => status[i] \in Active
  BY <1>2
<1>4. \A i \in Job : (status'[i] = "none") = (status[i] = "none")
  BY <1>2 DEF Active
<1>5. \A i \in Job : Handling(i)' = Handling(i)
  BY DEF Handling
<1>6. TypeOK'
  BY DEF BatchInv, TypeOK
<1>7. NotYetSubmitted'
  <2> SUFFICES ASSUME NEW f \in Caller, NEW i \in 1 .. Len(Events[f]), i >= next'[f]
               PROVE  status'[Events[f][i]] = "none"
    BY DEF NotYetSubmitted
  <2>1. Events[f][i] \in Job
    BY BatchAssumption
  <2> QED
    BY <2>1, <1>4 DEF BatchInv, NotYetSubmitted
<1>8. SubmittedWhole'
  BY <1>4 DEF BatchInv, SubmittedWhole
<1>9. DependencyOrder'
  <2> SUFFICES ASSUME NEW i \in Job,
                      status'[i] \in {"RUNNABLE", "STARTING", "RUNNING", "SUCCEEDED"},
                      NEW d \in ManifestDeps[i]
               PROVE  status'[d] = "SUCCEEDED"
    BY DEF DependencyOrder
  <2>1. status[d] = "SUCCEEDED"
    BY <1>2 DEF BatchInv, DependencyOrder
  <2>2. d \in Job /\ d # j
    BY <2>1, BatchAssumption DEF Active
  <2> QED
    BY <2>1, <2>2, <1>2
<1>10. PagesHandled'
  BY <1>1, <1>4 DEF BatchInv, PagesHandled
<1>11. RunningHandled' /\ VendorJobsHandled'
  BY <1>1, <1>3, <1>5 DEF BatchInv, RunningHandled, VendorJobsHandled
<1>12. StatesCovered'
  <2>1. Due' \subseteq Due
    BY <1>1, <1>3 DEF Due
  <2>2. \A i \in Due' : Rank[status'[i]] = Rank[status[i]] \/ Rank[status'[i]] > Rank[status[i]]
    BY <1>1, <1>2 DEF Due
  <2>3. \A s \in Active : Rank[s] \in Nat
    BY DEF Active, Rank
  <2>4. \A i \in Due' : Rank[status'[i]] \in Nat /\ Rank[status[i]] \in Nat
    BY <1>1, <1>3, <2>3 DEF Due
  <2>5. level \in Nat
    BY DEF BatchInv, TypeOK, StatusList
  <2> QED
    BY <1>1, <1>3, <1>4, <1>5, <2>1, <2>2, <2>4, <2>5 DEF BatchInv, StatesCovered
<1> QED
  BY <1>6, <1>7, <1>8, <1>9, <1>10, <1>11, <1>12 DEF BatchInv

LEMMA ScheduleKeeps ==
  ASSUME BatchInv, NEW j \in Job, Schedule(j) \/ Run(j) \/ Retry(j)
  PROVE  BatchInv'
<1> USE DEF Moves, subVars, opVars
<1>1. /\ status \in [Job -> BatchStatus] /\ retried \in [Job -> Nat]
      /\ \A i \in Job : retried[i] <= Retries[i]
      /\ Retries \in [Job -> Nat]
  BY OperationAssumption DEF BatchInv, TypeOK
<1>2. status[j] # "none" => dependsOn[j] = ManifestDeps[j]
  BY DEF BatchInv, SubmittedWhole
<1>3. status[j] \in {"RUNNABLE", "STARTING", "RUNNING"} =>
         \A d \in ManifestDeps[j] : status[d] = "SUCCEEDED"
  BY DEF BatchInv, DependencyOrder
<1>4. CASE Schedule(j)
  <2>1. PICK to \in {"PENDING", "RUNNABLE", "FAILED"} :
           /\ status[j] \in {"SUBMITTED", "PENDING"}
           /\ status' = [status EXCEPT ![j] = to]
           /\ to \in Active => Rank[to] > Rank[status[j]]
           /\ to = "RUNNABLE" => \A d \in dependsOn[j] : status[d] = "SUCCEEDED"
    BY <1>4 DEF Schedule, Rank, Active
  <2> QED
    BY <1>1, <1>2, <1>4, <2>1, MoveKeeps DEF Schedule, BatchStatus, Active
<1>5. CASE Run(j)
  <2>1. PICK to \in {"STARTING", "RUNNING", "SUCCEEDED", "FAILED"} :
           /\ status[j] \in {"RUNNABLE", "STARTING", "RUNNING"}
           /\ status' = [status EXCEPT ![j] = to]
           /\ to \in Active => Rank[to] > Rank[status[j]]
    BY <1>5 DEF Run, Rank, Active
  <2> QED
    BY <1>1, <1>3, <1>5, <2>1, MoveKeeps DEF Run, BatchStatus, Active
<1>6. CASE Retry(j)
  <2>1. /\ status' = [status EXCEPT ![j] = "RUNNABLE"]
        /\ retried' = [retried EXCEPT ![j] = @ + 1]
        /\ status[j] = "RUNNING" /\ retried[j] < Retries[j]
        /\ UNCHANGED <<subVars, opVars>>
    BY <1>6 DEF Retry, MayRetry
  <2>2. /\ retried' \in [Job -> Nat] /\ retried'[j] # 0
        /\ \A i \in Job : retried'[i] <= Retries[i]
        /\ \A i \in Job : retried'[i] = 0 => retried[i] = 0
    BY <1>1, <2>1
  <2> QED
    BY <1>1, <1>3, <2>1, <2>2, MoveKeeps DEF BatchStatus, Active
<1> QED
  BY <1>4, <1>5, <1>6

LEMMA BeginKeeps ==
  ASSUME BatchInv, Begin
  PROVE  BatchInv'
<1>1. /\ op = "idle"
      /\ UNCHANGED <<status, dependsOn, next, subpc, retried, what, level, seen, more, running, reported>>
      /\ present' = ActiveJobs
      /\ op' = (IF what = "VendorJobs" THEN "stop" ELSE "list")
      /\ page' = IF what = "VendorJobs" THEN {Summary(j) : j \in ActiveJobs} ELSE {}
  BY DEF Begin, subVars
<1>2. /\ status \in [Job -> BatchStatus] /\ ActiveJobs \subseteq Job
      /\ \A j \in ActiveJobs : status[j] \in Active
  BY DEF BatchInv, TypeOK, ActiveJobs
<1>3. \A j \in ActiveJobs : Summary(j) \in [job : Job, status : BatchStatus] /\ Summary(j).job = j
  BY <1>2 DEF Summary
<1>4. page' \subseteq [job : Job, status : BatchStatus]
  BY <1>1, <1>3
<1>5. TypeOK'
  BY <1>1, <1>2, <1>4 DEF BatchInv, TypeOK
<1>6. NotYetSubmitted' /\ SubmittedWhole' /\ DependencyOrder'
  BY <1>1 DEF BatchInv, NotYetSubmitted, SubmittedWhole, DependencyOrder
<1>7. running = {} /\ seen = {}
  BY <1>1 DEF BatchInv, PagesHandled
<1>8. PagesHandled' /\ RunningHandled'
  BY <1>1, <1>2, <1>7 DEF BatchInv, PagesHandled, RunningHandled, Active
<1>9. VendorJobsHandled'
  BY <1>1, <1>3 DEF VendorJobsHandled, Handling
<1>10. StatesCovered'
  <2> SUFFICES ASSUME what = "TerminateQueue" PROVE StatesCovered'
    BY <1>1 DEF StatesCovered
  <2>1. level = 1
    BY <1>1 DEF BatchInv, PagesHandled
  <2>2. \A s \in Active : Rank[s] >= 1
    BY DEF Active, Rank
  <2>3. \A j \in Due' : status'[j] \in Active
    BY DEF Due
  <2> QED
    BY <1>1, <1>7, <2>1, <2>2, <2>3 DEF StatesCovered
<1> QED
  BY <1>5, <1>6, <1>8, <1>9, <1>10 DEF BatchInv

LEMMA ListKeeps ==
  ASSUME BatchInv, ListPage
  PROVE  BatchInv'
<1>1. PICK P \in SUBSET (Listed \ seen) :
         /\ page' = {Summary(j) : j \in P}
         /\ seen' = seen \cup P
         /\ more' = ~(Listed \subseteq seen')
         /\ running' = running \cup {j \in P : status[j] \in {"STARTING", "RUNNING"}}
  BY DEF ListPage
<1>2. /\ op = "list" /\ op' = "stop" /\ page = {}
      /\ UNCHANGED <<status, dependsOn, next, subpc, retried, what, level, present, reported>>
  BY DEF ListPage, subVars, BatchInv, PagesHandled
<1>3. /\ status \in [Job -> BatchStatus] /\ seen \subseteq Job /\ level \in 1 .. 5
      /\ running \subseteq Job
  BY DEF BatchInv, TypeOK, StatusList
<1>4. \A k \in 1 .. 5 : StatusList[k] \in Active /\ Rank[StatusList[k]] = k
  BY DEF StatusList, Rank, Active
<1>5. P \subseteq Job /\ \A j \in P : status[j] # "none"
  BY <1>3, <1>4 DEF Listed, Active
<1>6. \A j \in P : /\ Summary(j) \in [job : Job, status : BatchStatus]
                   /\ Summary(j).job = j /\ Summary(j).status = status[j]
  BY <1>3, <1>5 DEF Summary
<1>7. TypeOK'
  <2>1. page' \subseteq [job : Job, status : BatchStatus]
    BY <1>1, <1>6
  <2>2. seen' \subseteq Job /\ running' \subseteq Job
    BY <1>1, <1>3, <1>5
  <2>3. more' \in BOOLEAN
    BY <1>1
  <2> QED
    BY <1>2, <2>1, <2>2, <2>3 DEF BatchInv, TypeOK
<1>8. NotYetSubmitted' /\ SubmittedWhole' /\ DependencyOrder'
  BY <1>2 DEF BatchInv, NotYetSubmitted, SubmittedWhole, DependencyOrder
<1>9. PagesHandled'
  BY <1>1, <1>2, <1>5 DEF BatchInv, PagesHandled
<1>10. RunningHandled'
  <2> SUFFICES ASSUME NEW j \in (running \ reported)', status[j] \in Active
               PROVE  \E r \in page' : r.job = j /\ r.status \in {"STARTING", "RUNNING"}
    BY <1>2 DEF RunningHandled
  <2>1. j \in P /\ status[j] \in {"STARTING", "RUNNING"}
    BY <1>1, <1>2 DEF BatchInv, RunningHandled
  <2> QED
    BY <2>1, <1>1, <1>6
<1>11. VendorJobsHandled'
  BY <1>2 DEF BatchInv, PagesHandled, VendorJobsHandled
<1>12. StatesCovered'
  <2> SUFFICES ASSUME what = "TerminateQueue" PROVE StatesCovered'
    BY <1>2 DEF StatesCovered
  <2>1. \A j \in seen' :
            status[j] # "none" /\ (j \notin reported /\ status[j] \in Active => Handling(j)')
    <3> SUFFICES ASSUME NEW j \in seen'
                 PROVE  /\ status[j] # "none"
                        /\ j \notin reported /\ status[j] \in Active => Handling(j)'
      OBVIOUS
    <3>1. CASE j \in P
      BY <3>1, <1>1, <1>5, <1>6 DEF Handling
    <3>2. CASE j \in seen
      BY <3>2, <1>2 DEF BatchInv, StatesCovered, Handling
    <3> QED
      BY <3>1, <3>2, <1>1
  <2>2. Due' = Due
    BY <1>2 DEF Due
  <2>3. \A j \in Due : Rank[status[j]] >= level
    BY DEF BatchInv, StatesCovered
  <2>4. ASSUME ~more', NEW j \in Due, Rank[status[j]] = level
        PROVE  j \in seen'
    <3>1. status[j] \in Active /\ j \in Job
      BY DEF Due, BatchInv, TypeOK
    <3>2. status[j] = StatusList[level]
      BY <1>3, <2>4, <3>1 DEF Active, Rank, StatusList
    <3> QED
      BY <1>1, <2>4, <3>1, <3>2 DEF Listed
  <2> QED
    BY <1>2, <2>1, <2>2, <2>3, <2>4 DEF StatesCovered
<1> QED
  BY <1>7, <1>8, <1>9, <1>10, <1>11, <1>12 DEF BatchInv

LEMMA StopKeeps ==
  ASSUME BatchInv, StopJob
  PROVE  BatchInv'
<1>1. PICK r \in page :
         /\ page' = page \ {r}
         /\ status' = [status EXCEPT ![r.job] =
                           IF @ \in Stops(r.status) THEN "FAILED" ELSE @]
  BY DEF StopJob
<1>2. /\ op = "stop"
      /\ UNCHANGED <<dependsOn, next, subpc, retried, what, op, level, seen, more, present, running, reported>>
  BY DEF StopJob, subVars
<1>3. /\ status \in [Job -> BatchStatus] /\ r.job \in Job /\ r.status \in BatchStatus
      /\ page \subseteq [job : Job, status : BatchStatus]
      /\ present \subseteq Job /\ running \subseteq Job /\ seen \subseteq Job
  BY DEF BatchInv, TypeOK
<1>4. Stops(r.status) \subseteq Active
  BY DEF Stops, Terminated, Cancelled, Active
<1>5. \A j \in Job : status'[j] = IF j = r.job /\ status[j] \in Stops(r.status)
                                 THEN "FAILED" ELSE status[j]
  BY <1>1, <1>3
<1>6. \A j \in Job : /\ (status'[j] = "none") = (status[j] = "none")
                     /\ status'[j] = status[j] \/ status'[j] = "FAILED"
                     /\ status[j] = "SUCCEEDED" => status'[j] = "SUCCEEDED"
  BY <1>4, <1>5 DEF Active
<1>7. TypeOK'
  BY <1>1, <1>2, <1>3 DEF BatchInv, TypeOK, BatchStatus
<1>8. NotYetSubmitted'
  <2> SUFFICES ASSUME NEW f \in Caller, NEW i \in 1 .. Len(Events[f]), i >= next'[f]
               PROVE  status'[Events[f][i]] = "none"
    BY DEF NotYetSubmitted
  <2>1. Events[f][i] \in Job
    BY BatchAssumption
  <2> QED
    BY <1>2, <1>6, <2>1 DEF BatchInv, NotYetSubmitted
<1>9. SubmittedWhole'
  BY <1>2, <1>6 DEF BatchInv, SubmittedWhole
<1>10. DependencyOrder'
  <2> SUFFICES ASSUME NEW i \in Job,
                      status'[i] \in {"RUNNABLE", "STARTING", "RUNNING", "SUCCEEDED"},
                      NEW d \in ManifestDeps[i]
               PROVE  status'[d] = "SUCCEEDED"
    BY DEF DependencyOrder
  <2>1. d \in Job /\ status[d] = "SUCCEEDED"
    BY <1>6, BatchAssumption DEF BatchInv, DependencyOrder
  <2> QED
    BY <1>6, <2>1
<1>11. PagesHandled'
  BY <1>1, <1>2, <1>3, <1>6 DEF BatchInv, PagesHandled
<1>12. RunningHandled'
  <2> SUFFICES ASSUME NEW j \in running \ reported, status'[j] \in Active
               PROVE  \E q \in page' : q.job = j /\ q.status \in {"STARTING", "RUNNING"}
    BY <1>2 DEF RunningHandled
  <2>1. status[j] \in Active /\ j \in Job
    BY <1>3, <1>6 DEF Active
  <2>2. PICK q \in page : q.job = j /\ q.status \in {"STARTING", "RUNNING"}
    BY <2>1 DEF BatchInv, RunningHandled
  <2>3. q # r
    <3> SUFFICES ASSUME q = r PROVE FALSE
      OBVIOUS
    <3>1. Stops(r.status) = Active
      BY <2>2, r.status = "STARTING" \/ r.status = "RUNNING" DEF Stops, Terminated
    <3>2. status'[j] = "FAILED"
      BY <3>1, <2>1, <2>2, <1>5
    <3> QED
      BY <3>2 DEF Active
  <2> QED
    BY <2>2, <2>3, <1>1
\* Outside a query, a job that has been handled is over.
<1>13. ASSUME what # "TerminateJobs", NEW j \in Job, Handling(j), status'[j] \in Active
       PROVE  Handling(j)'
  <2>1. PICK q \in page : q.job = j
    BY <1>13 DEF Handling
  <2>2. Stops(r.status) = Active
    BY <1>13 DEF Stops, Terminated
  <2>3. q # r
    BY <2>1, <2>2, <1>5, <1>13 DEF Active
  <2> QED
    BY <2>1, <2>3, <1>1 DEF Handling
<1>14. VendorJobsHandled'
  <2> SUFFICES ASSUME what = "VendorJobs", NEW j \in present \ reported, status'[j] \in Active
               PROVE  Handling(j)'
    BY <1>2 DEF VendorJobsHandled
  <2>1. j \in Job /\ status[j] \in Active
    BY <1>3, <1>6 DEF Active
  <2> QED
    BY <2>1, <1>13 DEF BatchInv, VendorJobsHandled
<1>15. StatesCovered'
  <2> SUFFICES ASSUME what = "TerminateQueue" PROVE StatesCovered'
    BY <1>2 DEF StatesCovered
  <2>1. \A j \in seen :
            status'[j] # "none" /\ (j \notin reported /\ status'[j] \in Active => Handling(j)')
    <3> SUFFICES ASSUME NEW j \in seen
                 PROVE  /\ status'[j] # "none"
                        /\ j \notin reported /\ status'[j] \in Active => Handling(j)'
      OBVIOUS
    <3>1. j \in Job /\ status[j] # "none" /\ (status'[j] \in Active => status[j] \in Active)
      BY <1>3, <1>6 DEF Active, BatchInv, StatesCovered
    <3> QED
      BY <3>1, <1>6, <1>13 DEF BatchInv, StatesCovered
  <2>2. \A j \in Due' : j \in Due /\ status'[j] = status[j]
    BY <1>2, <1>3, <1>6 DEF Due, Active
  <2> QED
    BY <1>2, <2>1, <2>2 DEF BatchInv, StatesCovered
<1> QED
  BY <1>7, <1>8, <1>9, <1>10, <1>11, <1>12, <1>14, <1>15 DEF BatchInv

\* A job whose call failed is reported, and asked no more of.
LEMMA StopFailsKeeps ==
  ASSUME BatchInv, StopFails
  PROVE  BatchInv'
<1>1. PICK r \in page :
         /\ page' = page \ {r}
         /\ reported' = reported \cup {r.job}
  BY DEF StopFails
<1>2. /\ op = "stop"
      /\ UNCHANGED <<status, dependsOn, next, subpc, retried, what, op, level, seen, more,
                     present, running>>
  BY DEF StopFails, subVars
<1>3. /\ r.job \in Job /\ page \subseteq [job : Job, status : BatchStatus]
      /\ reported \subseteq Job
  BY DEF BatchInv, TypeOK
<1>4. TypeOK'
  BY <1>1, <1>2, <1>3 DEF BatchInv, TypeOK
<1>5. NotYetSubmitted' /\ SubmittedWhole' /\ DependencyOrder'
  BY <1>2 DEF BatchInv, NotYetSubmitted, SubmittedWhole, DependencyOrder
<1>6. \A q \in page : q.job \notin reported' => q \in page'
  BY <1>1
<1>7. \A j \in Job \ reported' : Handling(j) => Handling(j)'
  BY <1>6 DEF Handling
<1>8. PagesHandled'
  BY <1>1, <1>2 DEF BatchInv, PagesHandled
<1>9. RunningHandled'
  BY <1>1, <1>2, <1>6 DEF BatchInv, RunningHandled
<1>10. VendorJobsHandled'
  BY <1>1, <1>2, <1>7 DEF BatchInv, TypeOK, VendorJobsHandled
<1>11. StatesCovered'
  <2>1. Due' \subseteq Due
    BY <1>1, <1>2 DEF Due
  <2>2. \A j \in seen : j \in Job
    BY DEF BatchInv, TypeOK
  <2> QED
    BY <1>1, <1>2, <1>7, <2>1, <2>2 DEF BatchInv, StatesCovered
<1> QED
  BY <1>4, <1>5, <1>8, <1>9, <1>10, <1>11 DEF BatchInv

LEMMA PageKeeps ==
  ASSUME BatchInv, NextPage
  PROVE  BatchInv'
<1>1. /\ op = "stop" /\ page = {}
      /\ UNCHANGED <<status, dependsOn, next, subpc, retried, what, more, page, present, running, reported>>
  BY DEF NextPage, subVars
<1>2. level \in 1 .. 5 /\ Len(StatusList) = 5 /\ DOMAIN StatusList = 1 .. 5
  BY DEF BatchInv, TypeOK, StatusList
<1>3. NotYetSubmitted' /\ SubmittedWhole' /\ DependencyOrder'
  BY <1>1 DEF BatchInv, NotYetSubmitted, SubmittedWhole, DependencyOrder
<1>4. Due' = Due /\ \A j \in Job : Handling(j)' = Handling(j)
  BY <1>1 DEF Due, Handling
\* What this listing had to cover is over.
<1>5. ~more /\ what = "TerminateQueue" => \A j \in Due : Rank[status[j]] # level
  <2> SUFFICES ASSUME ~more, what = "TerminateQueue", NEW j \in Due, Rank[status[j]] = level
               PROVE  FALSE
    OBVIOUS
  <2>1. j \in seen
    BY <1>1 DEF BatchInv, StatesCovered
  <2>2. Handling(j)
    BY <2>1 DEF BatchInv, StatesCovered, Due
  <2> QED
    BY <2>2, <1>1 DEF Handling
<1>6. CASE more /\ op' = "list" /\ UNCHANGED <<level, seen>>
  <2>1. TypeOK'
    BY <1>1, <1>6 DEF BatchInv, TypeOK
  <2>2. PagesHandled' /\ RunningHandled' /\ VendorJobsHandled'
    BY <1>1, <1>6 DEF BatchInv, PagesHandled, RunningHandled, VendorJobsHandled, Handling
  <2>3. seen \subseteq Job
    BY DEF BatchInv, TypeOK
  <2>4. StatesCovered'
    BY <1>1, <1>4, <1>6, <2>3 DEF BatchInv, StatesCovered
  <2> QED
    BY <1>3, <2>1, <2>2, <2>4 DEF BatchInv
<1>7. CASE /\ ~more /\ what = "TerminateQueue" /\ level < 5
           /\ op' = "list" /\ level' = level + 1 /\ seen' = {}
  <2>1. TypeOK'
    <3>1. level' \in DOMAIN StatusList
      BY <1>2, <1>7
    <3> QED
      BY <1>1, <1>7, <3>1 DEF BatchInv, TypeOK
  <2>2. PagesHandled' /\ RunningHandled' /\ VendorJobsHandled'
    BY <1>1, <1>7 DEF BatchInv, PagesHandled, RunningHandled, VendorJobsHandled, Handling
  <2>3. \A j \in Due : Rank[status[j]] >= level + 1
    <3> SUFFICES ASSUME NEW j \in Due PROVE Rank[status[j]] >= level + 1
      OBVIOUS
    <3>1. Rank[status[j]] >= level /\ Rank[status[j]] # level
      BY <1>5, <1>7 DEF BatchInv, StatesCovered
    <3>2. Rank[status[j]] \in Nat
      BY DEF Due, Active, Rank
    <3> QED
      BY <3>1, <3>2, <1>2
  <2>4. StatesCovered'
    BY <1>1, <1>4, <1>7, <2>3 DEF StatesCovered
  <2> QED
    BY <1>3, <2>1, <2>2, <2>4 DEF BatchInv
<1>8. CASE /\ ~more /\ ~(what = "TerminateQueue" /\ level < 5)
           /\ op' = "done" /\ UNCHANGED <<level, seen>>
  <2>1. TypeOK'
    BY <1>1, <1>8 DEF BatchInv, TypeOK
  <2>2. PagesHandled' /\ RunningHandled' /\ VendorJobsHandled'
    BY <1>1, <1>8 DEF BatchInv, PagesHandled, RunningHandled, VendorJobsHandled, Handling
  <2>3. what = "TerminateQueue" => Due = {}
    <3> SUFFICES ASSUME what = "TerminateQueue", NEW j \in Due PROVE FALSE
      OBVIOUS
    <3>1. Rank[status[j]] >= level /\ Rank[status[j]] # level /\ level = 5
      BY <1>2, <1>5, <1>8 DEF BatchInv, StatesCovered
    <3>2. Rank[status[j]] \in 1 .. 5
      BY DEF Due, Active, Rank
    <3> QED
      BY <3>1, <3>2
  <2>4. StatesCovered'
    <3>1. seen \subseteq Job
      BY DEF BatchInv, TypeOK
    <3>2. \A j \in seen' :
             \/ what # "TerminateQueue"
             \/ status'[j] # "none" /\ (j \notin reported /\ status'[j] \in Active => Handling(j)')
      BY <1>1, <1>4, <1>8, <3>1 DEF BatchInv, StatesCovered
    <3> QED
      BY <1>1, <1>4, <1>8, <2>3, <3>2 DEF StatesCovered
  <2> QED
    BY <1>3, <2>1, <2>2, <2>4 DEF BatchInv
<1> QED
  BY <1>2, <1>6, <1>7, <1>8 DEF NextPage

LEMMA NextBatch == BatchInv /\ [Next]_vars => BatchInv'
<1> SUFFICES ASSUME BatchInv, [Next]_vars PROVE BatchInv'
  OBVIOUS
<1>1. CASE \E e \in Caller : SubmitJob(e)
  BY <1>1, SubmitKeeps
<1>2. ASSUME NEW e \in Caller, SubmitFails(e) PROVE BatchInv'
  <2>1. subpc' \in [Caller -> {"submit", "failed"}]
    BY <1>2 DEF SubmitFails, BatchInv, TypeOK
  <2>2. UNCHANGED <<status, dependsOn, next, retried, opVars>>
    BY <1>2 DEF SubmitFails
  <2> QED
    BY <2>1, <2>2 DEF BatchInv, TypeOK, NotYetSubmitted, SubmittedWhole, DependencyOrder,
       PagesHandled, RunningHandled, VendorJobsHandled, StatesCovered, Due, Handling, opVars
<1>3. CASE \E j \in Job : Schedule(j) \/ Run(j) \/ Retry(j)
  BY <1>3, ScheduleKeeps
<1>4. CASE Begin
  BY <1>4, BeginKeeps
<1>5. CASE ListPage
  BY <1>5, ListKeeps
<1>6. CASE ListFails
  <2>1. /\ op = "list" /\ op' = "failed"
        /\ UNCHANGED <<status, retried, subVars, what, level, seen, more, page, present, running, reported>>
    BY <1>6 DEF ListFails
  <2> QED
    BY <2>1 DEF BatchInv, TypeOK, NotYetSubmitted, SubmittedWhole, DependencyOrder,
       PagesHandled, RunningHandled, VendorJobsHandled, StatesCovered, Due, Handling, subVars
<1>7. CASE StopJob
  BY <1>7, StopKeeps
<1>8. CASE NextPage
  BY <1>8, PageKeeps
<1>10. CASE StopFails
  BY <1>10, StopFailsKeeps
<1>9. CASE UNCHANGED vars
  BY <1>9 DEF BatchInv, TypeOK, NotYetSubmitted, SubmittedWhole, DependencyOrder,
     PagesHandled, RunningHandled, VendorJobsHandled, StatesCovered, Due, Handling, vars,
     subVars, opVars
<1> QED
  BY <1>1, <1>2, <1>3, <1>4, <1>5, <1>6, <1>7, <1>8, <1>9, <1>10 DEF Next

\* The inductive invariant: jobs move through the states in order, and what has been
\* listed is over, waits to be handled, or was reported as not stopped.
THEOREM BatchInvariant == Spec => []BatchInv
<1> QED
  BY InitBatch, NextBatch, PTL DEF Spec

\* Every variable keeps its type.
THEOREM BatchTypes == Spec => []TypeOK
<1>1. BatchInv => TypeOK
  BY DEF BatchInv
<1> QED
  BY <1>1, BatchInvariant, PTL

\* No job is started before all that its manifest depends on has succeeded, whether
\* or not the event was sorted, submitted whole, or is being terminated.
THEOREM BatchOrder == Spec => []DependencyOrder
<1>1. BatchInv => DependencyOrder
  BY DEF BatchInv
<1> QED
  BY <1>1, BatchInvariant, PTL

\* TerminateQueue and a termination of VendorJobs leave none of the jobs active that
\* were active when they began, but for those that AWS Batch has retried and those
\* whose own call failed, which the caller was told of.
THEOREM QueueTerminated == Spec => []StopsAll
<1>1. BatchInv => StopsAll
  <2> SUFFICES ASSUME BatchInv, op = "done", what # "TerminateJobs", NEW j \in present \ reported,
                      status[j] \in Active
               PROVE  what = "TerminateQueue" /\ retried[j] > 0
    BY DEF StopsAll
  <2>1. page = {} /\ ~Handling(j)
    BY DEF BatchInv, PagesHandled, Handling
  <2>2. what = "TerminateQueue"
    BY <2>1 DEF BatchInv, TypeOK, Operation, VendorJobsHandled
  <2>3. retried[j] \in Nat /\ retried[j] # 0
    BY <2>2, OperationAssumption DEF BatchInv, TypeOK, StatesCovered, Due
  <2> QED
    BY <2>2, <2>3
<1> QED
  BY <1>1, BatchInvariant, PTL

\* What was listed as starting or running is over when the call returns nil, by
\* whichever of the three ways it was stopped, or was reported as not stopped.
THEOREM RunningTerminated == Spec => []StopsWhatRan
<1>1. BatchInv => StopsWhatRan
  BY DEF BatchInv, PagesHandled, RunningHandled, StopsWhatRan
<1> QED
  BY <1>1, BatchInvariant, PTL
=============================================================================
