-------------------------- MODULE JobStatusProofs --------------------------
(* Theorems about JobStatus, for every value of its constants.             *)
EXTENDS JobStatus, FiniteSetTheorems, TLAPS

\* The Jobs the informer's list shows as finished.
Done(job) == job.phase \in {"complete", "failed"}

\* What setStatus may find in a list of Jobs: nothing, or a summary of one of
\* those that finished last.
LEMMA SummariesFacts ==
  ASSUME NEW list \in [Jobs -> JobStates], NEW new \in Summaries(list)
  PROVE  \/ new = NoJob
         \/ \E j \in Jobs :
              /\ Done(list[j]) /\ new = Summarize(list, j)
              /\ \A i \in Jobs : Done(list[i]) => list[i].at <= list[j].at
  BY DEF Summaries, LastFinished, FinishedJobs, Done

\* What setStatus makes of a list of Jobs is a status.lastJob.
LEMMA SummarizeType ==
  ASSUME NEW list \in [Jobs -> JobStates], NEW new \in Summaries(list)
  PROVE  new \in LastJobs
  BY SummariesFacts DEF LastJobs, JobStates, Summarize

\* What a write of the status does, in terms of what it is given.
LEMMA WriteStatusFacts ==
  ASSUME TypeOK, NEW new \in LastJobs, WriteStatus(new)
  PROVE  /\ queued' \in BOOLEAN
         /\ \/ status' = status /\ crFresh' = crFresh
            \/ crFresh /\ status' = new /\ crFresh' = FALSE
<1>1. CASE new = crCache
  BY <1>1 DEF WriteStatus
<1>2. CASE new # crCache /\ crFresh
  BY <1>2 DEF WriteStatus
<1>3. CASE new # crCache /\ ~crFresh
  BY <1>3 DEF WriteStatus
<1>4. QED BY <1>1, <1>2, <1>3

\* SetStatus and ListFails as one step: the status is kept, or replaced, if
\* the cached resource is current, by something found in the cached list.
LEMMA WriteFacts ==
  ASSUME TypeOK, SetStatus \/ ListFails
  PROVE  \E new \in LastJobs :
           /\ new = NoJob \/ new \in Summaries(jobCache)
           /\ queued' \in BOOLEAN
           /\ \/ status' = status /\ crFresh' = crFresh
              \/ crFresh /\ status' = new /\ crFresh' = FALSE
           /\ UNCHANGED <<jobs, now, jobCache, crCache>>
           /\ listErrors' \in Nat
<1>1. CASE SetStatus
  <2>1. PICK new \in Summaries(jobCache) : WriteStatus(new)
    BY <1>1 DEF SetStatus
  <2>2. new \in LastJobs
    BY SummarizeType DEF TypeOK
  <2>3. QED BY <1>1, <2>1, <2>2, WriteStatusFacts DEF SetStatus, TypeOK
<1>2. CASE ListFails
  <2>1. NoJob \in LastJobs
    BY DEF LastJobs
  <2>2. WriteStatus(NoJob) /\ UNCHANGED <<jobs, now, jobCache, crCache>>
        /\ listErrors' \in Nat
    BY <1>2 DEF ListFails, TypeOK
  <2>3. /\ queued' \in BOOLEAN
        /\ \/ status' = status /\ crFresh' = crFresh
           \/ crFresh /\ status' = NoJob /\ crFresh' = FALSE
    BY <2>1, <2>2, WriteStatusFacts
  <2>4. QED BY <2>1, <2>2, <2>3
<1>3. QED BY <1>1, <1>2

\* TypeOK is not inductive: that the count of failed pods stays in bounds
\* needs that a Job still running has not used up its retries.
RetriesLeft ==
  \A j \in Jobs : jobs[j].phase \in {"none", "active"} => jobs[j].failed <= BackoffLimit

\* Jobs, caches and status stay in their types whatever order Kubernetes and
\* the operator act in; no Job counts more failed pods than its retries allow.
THEOREM JobTypeInvariance == Spec => []TypeOK
<1> DEFINE Inv == TypeOK /\ RetriesLeft
<1>1. Init => Inv
  BY JobAssumption DEF Init, TypeOK, JobStates, LastJobs, RetriesLeft
<1>2. Inv /\ [Next]_vars => Inv'
  <2> SUFFICES ASSUME TypeOK, RetriesLeft, [Next]_vars PROVE Inv'
    OBVIOUS
  <2> USE JobAssumption
  <2>1. ASSUME NEW j \in Jobs, StartJob(j) PROVE Inv'
    BY <2>1 DEF StartJob, TypeOK, JobStates, RetriesLeft
  <2>2. ASSUME NEW j \in Jobs, PodFails(j) PROVE Inv'
    <3>1. CASE jobs[j].failed < BackoffLimit
      <4>1. /\ jobs' = [jobs EXCEPT ![j].failed = @ + 1]
            /\ UNCHANGED <<now, status, jobCache, crCache, crFresh, queued, listErrors>>
        BY <2>2, <3>1 DEF PodFails
      <4>2. jobs' \in [Jobs -> JobStates]
        BY <3>1, <4>1 DEF TypeOK, JobStates
      <4>3. RetriesLeft'
        BY <3>1, <4>1 DEF TypeOK, JobStates, RetriesLeft
      <4>4. QED BY <4>1, <4>2, <4>3 DEF TypeOK
    <3>2. CASE ~(jobs[j].failed < BackoffLimit)
      <4>1. jobs[j].failed + 1 \in 0..(BackoffLimit + 1)
        BY <2>2, <3>2 DEF PodFails, TypeOK, JobStates, RetriesLeft
      <4>2. Finish(j, "failed", jobs[j].failed + 1)
        BY <2>2, <3>2 DEF PodFails
      <4>3. jobs' \in [Jobs -> JobStates] /\ now' \in Nat /\ RetriesLeft'
        BY <4>1, <4>2 DEF Finish, TypeOK, JobStates, RetriesLeft
      <4>4. QED BY <2>2, <4>3 DEF PodFails, TypeOK
    <3>3. QED BY <3>1, <3>2
  <2>3. ASSUME NEW j \in Jobs, JobCompletes(j) PROVE Inv'
    BY <2>3 DEF JobCompletes, Finish, TypeOK, JobStates, RetriesLeft
  <2>4. ASSUME NEW j \in Jobs, RemoveJob(j) PROVE Inv'
    BY <2>4 DEF RemoveJob, TypeOK, JobStates, RetriesLeft
  <2>5. CASE SyncJobs
    BY <2>5 DEF SyncJobs, TypeOK, RetriesLeft
  <2>6. CASE SyncCR
    BY <2>6 DEF SyncCR, TypeOK, RetriesLeft
  <2>7. CASE SetStatus \/ ListFails
    BY <2>7, WriteFacts DEF TypeOK, RetriesLeft
  <2>8. CASE ResyncAll
    BY <2>8 DEF ResyncAll, TypeOK, RetriesLeft
  <2>9. CASE UNCHANGED vars
    BY <2>9 DEF vars, TypeOK, RetriesLeft
  <2>10. QED
    BY <2>1, <2>2, <2>3, <2>4, <2>5, <2>6, <2>7, <2>8, <2>9
       DEF Next, Kubernetes, Operator
<1>3. QED BY <1>1, <1>2, PTL DEF Spec

---------------------------------------------------------------------------
(* What the status says of a Job is still true of it.  The cached list is  *)
(* stale, so the argument goes through the cache: a finished Job never      *)
(* changes again except by being removed, so what the cache shows of it is  *)
(* what there is to know.                                                  *)

\* A cached Job that finished is the Job itself, if that still exists.
CacheHonest ==
  \A j \in Jobs : Done(jobCache[j]) =>
    jobs[j] = jobCache[j] \/ jobs[j].phase = "gone"

\* The Job the status names has finished, and if it failed the status says so.
StatusHonest ==
  \A j \in Jobs : status.name = j =>
    /\ Done(jobs[j]) \/ jobs[j].phase = "gone"
    /\ jobs[j].phase = "failed" => status.outcome = "Failed"

Honest == CacheHonest /\ StatusHonest

\* Kubernetes changes a Job that has not finished, or removes one that has.
LEMMA KubernetesFacts ==
  ASSUME TypeOK, Kubernetes
  PROVE  /\ UNCHANGED <<status, jobCache, crCache, crFresh>>
         /\ \E j \in Jobs :
              /\ \A i \in Jobs \ {j} : jobs'[i] = jobs[i]
              /\ \/ ~Done(jobs[j]) /\ jobs[j].phase # "gone" /\ ~Done(jobs'[j])
                   /\ now' = now
                 \/ /\ ~Done(jobs[j]) /\ jobs[j].phase # "gone"
                    /\ Done(jobs'[j]) /\ jobs'[j].at = now /\ now' >= now
                 \/ RemoveJob(j) /\ Done(jobs[j]) /\ jobs'[j].phase = "gone"
<1> USE JobAssumption DEF Done
<1>1. ASSUME NEW j \in Jobs, StartJob(j)
      PROVE  /\ UNCHANGED <<status, jobCache, crCache, crFresh, now>>
             /\ \A i \in Jobs \ {j} : jobs'[i] = jobs[i]
             /\ jobs[j].phase = "none" /\ jobs'[j].phase = "active"
  BY <1>1 DEF StartJob, TypeOK, JobStates
<1>2. ASSUME NEW j \in Jobs, NEW to \in {"complete", "failed"}, NEW n,
             Finish(j, to, n)
      PROVE  /\ \A i \in Jobs \ {j} : jobs'[i] = jobs[i]
             /\ Done(jobs'[j]) /\ jobs'[j].at = now /\ now' >= now
  BY <1>2 DEF Finish, TypeOK
<1>3. ASSUME NEW j \in Jobs, PodFails(j)
      PROVE  /\ UNCHANGED <<status, jobCache, crCache, crFresh>>
             /\ \A i \in Jobs \ {j} : jobs'[i] = jobs[i]
             /\ jobs[j].phase = "active"
             /\ \/ jobs'[j].phase = "active" /\ now' = now
                \/ Done(jobs'[j]) /\ jobs'[j].at = now /\ now' >= now
  <2>1. CASE jobs[j].failed < BackoffLimit
    BY <1>3, <2>1 DEF PodFails, TypeOK, JobStates
  <2>2. CASE ~(jobs[j].failed < BackoffLimit)
    <3>1. Finish(j, "failed", jobs[j].failed + 1)
      BY <1>3, <2>2 DEF PodFails
    <3>2. QED BY <1>2, <1>3, <3>1 DEF PodFails
  <2>3. QED BY <2>1, <2>2
<1>4. ASSUME NEW j \in Jobs, JobCompletes(j)
      PROVE  /\ UNCHANGED <<status, jobCache, crCache, crFresh>>
             /\ \A i \in Jobs \ {j} : jobs'[i] = jobs[i]
             /\ jobs[j].phase = "active"
             /\ Done(jobs'[j]) /\ jobs'[j].at = now /\ now' >= now
  BY <1>2, <1>4 DEF JobCompletes
<1>5. ASSUME NEW j \in Jobs, RemoveJob(j)
      PROVE  /\ UNCHANGED <<status, jobCache, crCache, crFresh>>
             /\ \A i \in Jobs \ {j} : jobs'[i] = jobs[i]
             /\ Done(jobs[j]) /\ jobs'[j].phase = "gone"
  BY <1>5 DEF RemoveJob, TypeOK
<1>6. QED BY <1>1, <1>3, <1>4, <1>5 DEF Kubernetes

\* A failed Job is never reported as a success, although the status is
\* computed from a cached list and outlives the Job it names.
THEOREM SuccessIsTrue == Spec => []SucceededMeansSucceeded
<1>1. Init => Honest
  BY JobAssumption DEF Init, Honest, CacheHonest, StatusHonest, Done, NoJob, Jobs
<1>2. TypeOK /\ Honest /\ [Next]_vars => Honest'
  <2> SUFFICES ASSUME TypeOK, Honest, [Next]_vars PROVE Honest'
    OBVIOUS
  <2> USE DEF Honest
  <2>1. CASE Kubernetes
    BY <2>1, KubernetesFacts DEF CacheHonest, StatusHonest, Done
  <2>2. CASE SyncJobs
    BY <2>2 DEF SyncJobs, CacheHonest, StatusHonest, Done
  <2>3. CASE SyncCR \/ ResyncAll \/ UNCHANGED vars
    BY <2>3 DEF SyncCR, ResyncAll, vars, CacheHonest, StatusHonest, Done
  <2>4. CASE SetStatus \/ ListFails
    <3>1. PICK new \in LastJobs :
            /\ new = NoJob \/ new \in Summaries(jobCache)
            /\ status' = status \/ status' = new
            /\ UNCHANGED <<jobs, jobCache>>
      BY <2>4, WriteFacts
    <3>2. CASE status' = status \/ new = NoJob
      BY <3>1, <3>2 DEF CacheHonest, StatusHonest, Done, NoJob, Jobs
    <3>3. CASE status' = new /\ new \in Summaries(jobCache) /\ new # NoJob
      <4>1. PICK j \in Jobs : Done(jobCache[j]) /\ new = Summarize(jobCache, j)
        BY <3>3, SummariesFacts DEF TypeOK
      <4>2. new.name = j /\ (jobCache[j].phase = "failed" => new.outcome = "Failed")
        BY <4>1 DEF Summarize, Failed
      <4>3. QED BY <3>1, <3>3, <4>1, <4>2 DEF CacheHonest, StatusHonest, Done
    <3>4. QED BY <3>1, <3>2, <3>3
  <2>5. QED BY <2>1, <2>2, <2>3, <2>4 DEF Next, Operator
<1>3. Honest => SucceededMeansSucceeded
  <2> SUFFICES ASSUME Honest, NEW j \in Jobs, status.name = j,
                      jobs[j].phase = "failed"
               PROVE  Condition(status) = "False"
    BY DEF SucceededMeansSucceeded
  <2>1. status.outcome = "Failed"
    BY DEF Honest, StatusHonest
  <2>2. status # NoJob
    BY <2>1 DEF NoJob
  <2>3. QED BY <2>1, <2>2 DEF Condition
<1>4. QED BY <1>1, <1>2, <1>3, JobTypeInvariance, PTL DEF Spec

---------------------------------------------------------------------------
(* A list that has shown a Job goes on to show it until it is removed, so  *)
(* the status goes back only past Jobs that no longer exist.               *)

\* The Job the status names is in the cached list as the status tells of it,
\* or it is gone.
StatusSeen ==
  \A j \in Jobs : status.name = j =>
    \/ Done(jobCache[j]) /\ jobCache[j].at = status.at
    \/ jobs[j].phase = "gone"

\* One write of the status.
LEMMA WriteKeepsSeen ==
  ASSUME TypeOK, CacheHonest, StatusSeen, SetStatus \/ ListFails
  PROVE  /\ StatusSeen'
         /\ \/ status'.at >= status.at \/ status' = NoJob
            \/ \A j \in Jobs : status.name = j => jobs[j].phase = "gone"
<1>0. status.at \in Nat /\ \A j \in Jobs : jobCache[j].at \in Nat
  BY DEF TypeOK, LastJobs, NoJob, JobStates
<1>1. PICK new \in LastJobs :
        /\ new = NoJob \/ new \in Summaries(jobCache)
        /\ status' = status \/ status' = new
        /\ UNCHANGED <<jobs, jobCache>>
  BY WriteFacts
<1>2. CASE status' = status
  BY <1>0, <1>1, <1>2 DEF StatusSeen, Done
<1>3. CASE status' = NoJob
  <2>1. status'.name = 0
    BY <1>3 DEF NoJob
  <2>2. QED BY <1>3, <2>1 DEF StatusSeen, Jobs
<1>4. CASE status' = new /\ new \in Summaries(jobCache) /\ new # NoJob
  <2>1. PICK j \in Jobs :
          /\ Done(jobCache[j]) /\ new = Summarize(jobCache, j)
          /\ \A i \in Jobs : Done(jobCache[i]) => jobCache[i].at <= jobCache[j].at
    BY <1>4, SummariesFacts DEF TypeOK
  <2>2. status'.name = j /\ status'.at = jobCache[j].at
    BY <1>4, <2>1 DEF Summarize
  <2>3. StatusSeen'
    BY <1>1, <2>1, <2>2 DEF StatusSeen, Done
  <2>4. ASSUME NEW i \in Jobs, status.name = i, jobs[i].phase # "gone"
        PROVE  status'.at >= status.at
    BY <1>0, <2>1, <2>2, <2>4 DEF StatusSeen
  <2>5. QED BY <2>3, <2>4
<1>5. QED BY <1>1, <1>2, <1>3, <1>4

\* status.lastJob goes back only past a Job that has been removed, however the
\* Jobs overlap and whatever the history limits are.
THEOREM NeverPastExisting == Spec => BackOnlyPastRemoved
<1> DEFINE Inv == CacheHonest /\ StatusSeen
           A == status'.at < status.at =>
                  \/ status' = NoJob
                  \/ \A j \in Jobs : status.name = j => jobs[j].phase = "gone"
<1>1. Init => Inv
  BY JobAssumption DEF Init, CacheHonest, StatusSeen, Done, NoJob, Jobs
<1>2. TypeOK /\ TypeOK' /\ Inv /\ [Next]_vars => Inv' /\ [A]_vars
  <2> SUFFICES ASSUME TypeOK, TypeOK', CacheHonest, StatusSeen, [Next]_vars
               PROVE  Inv' /\ A
    OBVIOUS
  <2>0. status.at \in Nat /\ status'.at \in Nat
    BY DEF TypeOK, LastJobs, NoJob
  <2>1. CASE Kubernetes
    BY <2>0, <2>1, KubernetesFacts DEF CacheHonest, StatusSeen, Done
  <2>2. CASE SyncJobs
    BY <2>0, <2>2 DEF SyncJobs, CacheHonest, StatusSeen, Done
  <2>3. CASE SyncCR \/ ResyncAll \/ UNCHANGED vars
    BY <2>0, <2>3 DEF SyncCR, ResyncAll, vars, CacheHonest, StatusSeen, Done
  <2>4. CASE SetStatus \/ ListFails
    <3>1. UNCHANGED <<jobs, jobCache>>
      BY <2>4, WriteFacts
    <3>2. CacheHonest'
      BY <3>1 DEF CacheHonest, Done
    <3>3. QED BY <2>0, <2>4, <3>2, WriteKeepsSeen
  <2>5. QED BY <2>1, <2>2, <2>3, <2>4 DEF Next, Operator
<1>3. QED BY <1>1, <1>2, JobTypeInvariance, PTL DEF Spec, BackOnlyPastRemoved

---------------------------------------------------------------------------
(* The status does not fall back to an earlier Job.  A list may lack the   *)
(* Job the status names; what matters is that as long as it shows any      *)
(* finished Job, it shows one that finished no earlier.  The history is cut *)
(* in the order the Jobs started, so this needs that they finish in it.    *)

\* A list that shows a finished Job shows one that finished at t or later.
Ahead(list, t) ==
  (\E j \in Jobs : Done(list[j])) =>
     \E j \in Jobs : Done(list[j]) /\ list[j].at >= t

Forward ==
  /\ crFresh => crCache = status
  /\ status.at <= now
  /\ \A j \in Jobs : /\ Done(jobs[j]) => jobs[j].at <= now
                     /\ Done(jobCache[j]) => jobCache[j].at <= now
  /\ Ahead(jobs, status.at) /\ Ahead(jobCache, status.at)
  /\ \A i \in Jobs : Done(jobCache[i]) => Ahead(jobs, jobCache[i].at)

\* Jobs that do not overlap: one that has started comes after ones that have
\* finished, and finishes no earlier than they did.
InOrder ==
  \A i, j \in Jobs : i < j =>
    /\ jobs[j].phase # "none" => Done(jobs[i]) \/ jobs[i].phase = "gone"
    /\ Done(jobs[i]) /\ Done(jobs[j]) => jobs[i].at <= jobs[j].at

\* Jobs that wait for each other finish in the order they start.
LEMMA OrderKept ==
  ASSUME ~Overlap, TypeOK, TypeOK', InOrder, Kubernetes,
         \A j \in Jobs : Done(jobs[j]) => jobs[j].at <= now
  PROVE  InOrder'
<1>0a. now \in Nat /\ \A j \in Jobs : jobs[j].at \in Nat /\ jobs'[j].at \in Nat
  BY DEF TypeOK, JobStates
<1>0b. \A i, j \in Jobs : i \in Int /\ j \in Int /\ (i < j => ~(j < i))
  BY JobAssumption DEF Jobs
<1>0. /\ now \in Nat /\ \A j \in Jobs : jobs[j].at \in Nat /\ jobs'[j].at \in Nat
      /\ \A i, j \in Jobs : i \in Int /\ j \in Int /\ (i < j => ~(j < i))
  BY <1>0a, <1>0b
<1>1. PICK j \in Jobs :
        /\ \A i \in Jobs \ {j} : jobs'[i] = jobs[i]
        /\ \/ StartJob(j)
           \/ jobs[j].phase = "active" /\ jobs'[j].phase = "active"
           \/ jobs[j].phase = "active" /\ Done(jobs'[j]) /\ jobs'[j].at = now
           \/ Done(jobs[j]) /\ jobs'[j].phase = "gone"
  <2>1. PICK j \in Jobs : StartJob(j) \/ PodFails(j) \/ JobCompletes(j) \/ RemoveJob(j)
    BY DEF Kubernetes
  <2>2. CASE StartJob(j)
    BY <2>2 DEF StartJob, TypeOK
  <2>3. CASE PodFails(j)
    <3>1. CASE jobs[j].failed < BackoffLimit
      BY <2>3, <3>1 DEF PodFails, TypeOK, JobStates
    <3>2. CASE ~(jobs[j].failed < BackoffLimit)
      BY <2>3, <3>2 DEF PodFails, Finish, TypeOK, JobStates, Done
    <3>3. QED BY <3>1, <3>2
  <2>4. CASE JobCompletes(j)
    BY <2>4 DEF JobCompletes, Finish, TypeOK, JobStates, Done
  <2>5. CASE RemoveJob(j)
    BY <2>5 DEF RemoveJob, TypeOK, JobStates, Done
  <2>6. QED BY <2>1, <2>2, <2>3, <2>4, <2>5
<1>2. CASE StartJob(j)
  <2>1. \A i \in Jobs : i < j => Done(jobs[i]) \/ jobs[i].phase = "gone"
    <3>1. \A i \in Jobs : i < j => i \in 1..(j - 1)
      BY JobAssumption DEF Jobs
    <3>2. \A i \in Jobs : jobs[i].phase \in {"none", "active", "complete", "failed", "gone"}
      BY DEF TypeOK, JobStates
    <3>3. QED BY <1>2, <3>1, <3>2 DEF StartJob, Done
  <2>2. jobs'[j].phase = "active" /\ jobs[j].phase = "none"
    BY <1>2 DEF StartJob, TypeOK, JobStates
  <2>3. QED BY <1>0, <1>1, <2>1, <2>2 DEF InOrder, Done
<1>3. CASE jobs[j].phase = "active" /\ jobs'[j].phase = "active"
  BY <1>0, <1>1, <1>3 DEF InOrder, Done
<1>4. CASE jobs[j].phase = "active" /\ Done(jobs'[j]) /\ jobs'[j].at = now
  BY <1>0, <1>1, <1>4 DEF InOrder, Done
<1>5. CASE Done(jobs[j]) /\ jobs'[j].phase = "gone"
  BY <1>0, <1>1, <1>5 DEF InOrder, Done
<1>6. QED BY <1>1, <1>2, <1>3, <1>4, <1>5

\* Neither history limit nor TTL removes the Job that finished last while
\* another one stays, if the history keeps one Job of each outcome.
LEMMA RemovalKeepsAhead ==
  ASSUME SuccessHistory >= 1, FailedHistory >= 1, TypeOK, InOrder, NEW t \in Nat,
         NEW j \in Jobs, RemoveJob(j), Ahead(jobs, t)
  PROVE  Ahead(jobs, t)'
<1> DEFINE keep == IF jobs[j].phase = "failed" THEN FailedHistory ELSE SuccessHistory
           later == {i \in Jobs : jobs[i].phase = jobs[j].phase /\ i > j}
<1>1. /\ \A i \in Jobs \ {j} : jobs'[i] = jobs[i]
      /\ Done(jobs[j]) /\ ~Done(jobs'[j])
      /\ \A i \in Jobs : jobs[i].at \in Nat
  BY DEF RemoveJob, TypeOK, JobStates, Done
<1>2. CASE Superseded(j)
  <2>1. Cardinality(later) >= keep
    BY <1>2 DEF Superseded
  <2>2. Cardinality({}) = 0
    BY FS_EmptySet
  <2>3. keep >= 1 /\ keep \in Nat
    BY JobAssumption
  <2> HIDE DEF later, keep
  <2>4. later # {}
    BY <2>1, <2>2, <2>3
  <2>5. PICK i \in Jobs : jobs[i].phase = jobs[j].phase /\ i > j /\ jobs[i].at >= jobs[j].at
    BY <1>1, <2>4, JobAssumption DEF later, InOrder, Done, Jobs
  <2>6. i # j /\ Done(jobs'[i]) /\ jobs'[i] = jobs[i]
    BY <1>1, <2>5, JobAssumption DEF Done, Jobs
  <2>7. PICK k \in Jobs : Done(jobs[k]) /\ jobs[k].at >= t
    BY <1>1 DEF Ahead
  <2>8. CASE k = j
    BY <1>1, <2>5, <2>6, <2>7, <2>8 DEF Ahead
  <2>9. CASE k # j
    BY <1>1, <2>7, <2>9 DEF Ahead
  <2>10. QED BY <2>8, <2>9
<1>3. CASE Expired(j)
  <2> SUFFICES ASSUME NEW i \in Jobs, Done(jobs'[i])
               PROVE  \E k \in Jobs : Done(jobs'[k]) /\ jobs'[k].at >= t
    BY DEF Ahead
  <2>1. i # j /\ jobs'[i] = jobs[i] /\ jobs[i].at >= jobs[j].at
    BY <1>1, <1>3 DEF Expired, Done
  <2>2. PICK k \in Jobs : Done(jobs[k]) /\ jobs[k].at >= t
    BY <1>1 DEF Ahead
  <2>3. CASE k = j
    BY <1>1, <2>1, <2>2, <2>3
  <2>4. CASE k # j
    BY <1>1, <2>2, <2>4
  <2>5. QED BY <2>3, <2>4
<1>4. QED BY <1>2, <1>3 DEF RemoveJob

\* A Job that finishes does so no earlier than anything known so far, and one
\* that goes on running changes nothing.
LEMMA FinishKeepsAhead ==
  ASSUME TypeOK, NEW t \in Nat, t <= now, NEW j \in Jobs, ~Done(jobs[j]),
         \A i \in Jobs \ {j} : jobs'[i] = jobs[i],
         ~Done(jobs'[j]) \/ jobs'[j].at = now, Ahead(jobs, t)
  PROVE  Ahead(jobs, t)'
  BY DEF Ahead, TypeOK, Done

\* Where Jobs do not overlap, status.lastJob goes on to Jobs that finished no
\* earlier, or is emptied.  A history limit of 0 is left out, because it may
\* remove the last Job of all and keep earlier ones of the other outcome.
THEOREM NeverBackwards ==
  ASSUME ~Overlap, SuccessHistory >= 1, FailedHistory >= 1
  PROVE  Spec => LastJobForward
<1>1. Init => Forward /\ InOrder
  BY JobAssumption DEF Init, Forward, InOrder, Ahead, Done, NoJob, Jobs
<1>2. TypeOK /\ TypeOK' /\ Forward /\ InOrder /\ [Next]_vars => InOrder'
  <2> SUFFICES ASSUME TypeOK, TypeOK', Forward, InOrder, [Next]_vars PROVE InOrder'
    OBVIOUS
  <2>1. CASE Kubernetes
    BY <2>1, OrderKept DEF Forward
  <2>2. CASE SyncJobs \/ SyncCR \/ ResyncAll \/ UNCHANGED vars
    BY <2>2 DEF SyncJobs, SyncCR, ResyncAll, vars, InOrder, Done
  <2>3. CASE SetStatus \/ ListFails
    BY <2>3, WriteFacts DEF InOrder, Done
  <2>4. QED BY <2>1, <2>2, <2>3 DEF Next, Operator
<1>3. TypeOK /\ TypeOK' /\ Forward /\ InOrder /\ [Next]_vars =>
        Forward' /\ (status'.at >= status.at \/ status' = NoJob)
  <2> SUFFICES ASSUME TypeOK, TypeOK', Forward, InOrder, [Next]_vars
               PROVE  Forward' /\ (status'.at >= status.at \/ status' = NoJob)
    OBVIOUS
  <2> DEFINE Goal == Forward' /\ (status'.at >= status.at \/ status' = NoJob)
  <2>0. /\ status.at \in Nat /\ now \in Nat /\ now' \in Nat
        /\ \A j \in Jobs : jobs[j].at \in Nat /\ jobCache[j].at \in Nat
    BY DEF TypeOK, LastJobs, NoJob, JobStates
  <2>1. CASE Kubernetes
    <3>1. PICK j \in Jobs :
            /\ UNCHANGED <<status, jobCache, crCache, crFresh>>
            /\ \A i \in Jobs \ {j} : jobs'[i] = jobs[i]
            /\ \/ /\ ~Done(jobs[j]) /\ now' >= now
                  /\ ~Done(jobs'[j]) \/ jobs'[j].at = now
               \/ RemoveJob(j) /\ ~Done(jobs'[j])
      BY <2>0, <2>1, KubernetesFacts DEF Done
    <3>2. now' >= now
      BY <2>0, <3>1 DEF RemoveJob
    <3>3. ASSUME NEW t \in Nat, t <= now, Ahead(jobs, t) PROVE Ahead(jobs, t)'
      <4>1. CASE RemoveJob(j)
        BY <3>3, <4>1, RemovalKeepsAhead
      <4>2. CASE ~RemoveJob(j)
        BY <3>1, <3>3, <4>2, FinishKeepsAhead
      <4>3. QED BY <4>1, <4>2
    <3>4. Ahead(jobs, status.at)'
      BY <2>0, <3>1, <3>3 DEF Forward, Ahead
    <3>5. ASSUME NEW i \in Jobs, Done(jobCache'[i]) PROVE Ahead(jobs, jobCache[i].at)'
      <4>1. jobCache'[i] = jobCache[i] /\ jobCache[i].at <= now /\ Ahead(jobs, jobCache[i].at)
        BY <3>1, <3>5 DEF Forward
      <4>2. Ahead(jobs', jobCache[i].at)
        BY <2>0, <3>3, <4>1 DEF Ahead
      <4>3. QED BY <4>1, <4>2 DEF Ahead
    <3>6. \A i \in Jobs : /\ Done(jobs'[i]) => jobs'[i].at <= now'
                         /\ Done(jobCache'[i]) => jobCache'[i].at <= now'
      BY <2>0, <3>1, <3>2 DEF Forward
    <3>7. Ahead(jobCache, status.at)'
      BY <3>1 DEF Forward, Ahead
    <3>8. QED BY <2>0, <3>1, <3>2, <3>4, <3>5, <3>6, <3>7 DEF Forward
  <2>2. CASE SyncJobs
    <3>1. \A i \in Jobs : Done(jobs[i]) => Ahead(jobs, jobs[i].at)
      BY <2>0 DEF Ahead
    <3>2. QED BY <2>0, <2>2, <3>1 DEF SyncJobs, Forward, Ahead
  <2>3. CASE SyncCR \/ ResyncAll \/ UNCHANGED vars
    BY <2>0, <2>3 DEF SyncCR, ResyncAll, vars, Forward, Ahead
  <2>4. CASE SetStatus \/ ListFails
    <3>1. PICK new \in LastJobs :
            /\ new = NoJob \/ new \in Summaries(jobCache)
            /\ \/ status' = status /\ crFresh' = crFresh
               \/ crFresh /\ status' = new /\ crFresh' = FALSE
            /\ UNCHANGED <<jobs, now, jobCache, crCache>>
      BY <2>4, WriteFacts
    <3>2. CASE status' = status /\ crFresh' = crFresh
      BY <2>0, <3>1, <3>2 DEF Forward, Ahead
    <3>3. CASE status' = NoJob /\ crFresh' = FALSE
      <4>1. status'.at = 0
        BY <3>3 DEF NoJob
      <4>2. QED BY <2>0, <3>1, <3>3, <4>1 DEF Forward, Ahead
    <3>4. CASE status' = new /\ crFresh' = FALSE /\ new \in Summaries(jobCache) /\ new # NoJob
      <4>1. PICK j \in Jobs :
              /\ Done(jobCache[j]) /\ new = Summarize(jobCache, j)
              /\ \A i \in Jobs : Done(jobCache[i]) => jobCache[i].at <= jobCache[j].at
        BY <3>4, SummariesFacts DEF TypeOK
      <4>2. status'.at = jobCache[j].at
        BY <3>4, <4>1 DEF Summarize
      <4>3. jobCache[j].at >= status.at
        BY <2>0, <4>1 DEF Forward, Ahead
      <4>4. Forward'
        BY <2>0, <3>1, <3>4, <4>1, <4>2 DEF Forward, Ahead
      <4>5. QED BY <4>2, <4>3, <4>4
    <3>5. QED BY <3>1, <3>2, <3>3, <3>4
  <2>5. QED BY <2>1, <2>2, <2>3, <2>4 DEF Next, Operator
<1>4. QED BY <1>1, <1>2, <1>3, JobTypeInvariance, PTL DEF Spec, LastJobForward
=============================================================================
