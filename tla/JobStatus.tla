----------------------------- MODULE JobStatus -----------------------------
(***************************************************************************)
(* How the outcome of a Job reaches status.lastJob of its Backup or Restore *)
(* and the metrics: internal/jobstatus, the Job half of setStatus in       *)
(* internal/controller, and internal/metrics.                              *)
(*                                                                         *)
(* The Jobs of one custom resource finish, fail and are removed by         *)
(* Kubernetes.  The operator sees them, and its own resource, through       *)
(* informer caches that lag behind, and writes what it finds into the      *)
(* status.  Admission and owned objects are the subject of Reconcile.      *)
(***************************************************************************)
EXTENDS Integers, FiniteSets

CONSTANTS
  MaxJobs,         \* number of Jobs of the resource, in order of creation
  Overlap,         \* a Job may start while another one runs
  BackoffLimit,    \* spec.job.backoffLimit
  SuccessHistory,  \* spec.job.successfulJobsHistoryLimit
  FailedHistory,   \* spec.job.failedJobsHistoryLimit
  Ttl,             \* ttlSecondsAfterFinished passes within a behaviour
  SameSecond,      \* two Jobs may finish within one second
  Resync,          \* the informers' resync period passes within a behaviour
  MaxListErrors    \* bound on failing List calls

ASSUME JobAssumption ==
  /\ MaxJobs \in Nat /\ BackoffLimit \in Nat /\ MaxListErrors \in Nat
  /\ SuccessHistory \in Nat /\ FailedHistory \in Nat
  /\ Overlap \in BOOLEAN /\ Ttl \in BOOLEAN /\ SameSecond \in BOOLEAN /\ Resync \in BOOLEAN

VARIABLES
  jobs,        \* the Jobs as the API server has them
  now,         \* seconds, as far as Jobs finished in different ones
  status,      \* status.lastJob as the API server has it
  jobCache,    \* the operator's cache of jobs
  crCache,     \* the operator's cache of status
  crFresh,     \* the cached resource is the current one
  queued,      \* the resource waits in the work queue
  listErrors   \* List calls that have failed

vars == <<jobs, now, status, jobCache, crCache, crFresh, queued, listErrors>>

Jobs == 1..MaxJobs

\* failed: Status.Failed, the pods that failed;  at: when the Job finished.
JobStates == [phase : {"none", "active", "complete", "failed", "gone"},
              failed : 0..(BackoffLimit + 1), at : Nat]
NoJob == [name |-> 0, outcome |-> "none", at |-> 0]
LastJobs == [name : Jobs, outcome : {"Succeeded", "Failed"}, at : Nat]
              \cup {NoJob}

TypeOK ==
  /\ jobs \in [Jobs -> JobStates] /\ jobCache \in [Jobs -> JobStates]
  /\ now \in Nat /\ listErrors \in Nat
  /\ status \in LastJobs /\ crCache \in LastJobs
  /\ crFresh \in BOOLEAN /\ queued \in BOOLEAN

Init ==
  /\ jobs = [j \in Jobs |-> [phase |-> "none", failed |-> 0, at |-> 0]]
  /\ jobCache = jobs
  /\ now = 1 /\ listErrors = 0
  /\ status = NoJob /\ crCache = NoJob
  /\ crFresh = TRUE /\ queued = TRUE

---------------------------------------------------------------------------
(* Kubernetes: the CronJob, Job and TTL controllers.                       *)

\* A Job starts after those before it.  Under Forbid it also waits for them to
\* finish; under Allow, and if it is a manual one, it does not.
StartJob(j) ==
  /\ jobs[j].phase = "none"
  /\ \A i \in 1..(j - 1) : /\ jobs[i].phase # "none"
                           /\ jobs[i].phase = "active" => Overlap
  /\ jobs' = [jobs EXCEPT ![j].phase = "active"]
  /\ UNCHANGED <<now, status, jobCache, crCache, crFresh, queued, listErrors>>

Finish(j, to, failed) ==
  /\ jobs' = [jobs EXCEPT ![j] = [phase |-> to, failed |-> failed, at |-> now]]
  /\ now' \in {now + 1} \cup (IF SameSecond THEN {now} ELSE {})

\* A pod of the Job fails: the Job retries with a new one, or fails.
PodFails(j) ==
  /\ jobs[j].phase = "active"
  /\ IF jobs[j].failed < BackoffLimit
     THEN jobs' = [jobs EXCEPT ![j].failed = @ + 1] /\ UNCHANGED now
     ELSE Finish(j, "failed", jobs[j].failed + 1)
  /\ UNCHANGED <<status, jobCache, crCache, crFresh, queued, listErrors>>

\* A pod succeeds.  Status.Failed keeps the pods that failed before it.
JobCompletes(j) ==
  /\ jobs[j].phase = "active"
  /\ Finish(j, "complete", jobs[j].failed)
  /\ UNCHANGED <<status, jobCache, crCache, crFresh, queued, listErrors>>

\* History keeps the Jobs of each outcome that started last, whenever they
\* finished.
Superseded(j) ==
  LET later == {i \in Jobs : jobs[i].phase = jobs[j].phase /\ i > j}
  IN Cardinality(later) >= IF jobs[j].phase = "failed" THEN FailedHistory
                                                       ELSE SuccessHistory

\* The TTL is the same for all Jobs, so it removes them in finishing order.
Expired(j) ==
  Ttl /\ \A i \in Jobs : jobs[i].phase \in {"complete", "failed"}
                           => jobs[j].at <= jobs[i].at

RemoveJob(j) ==
  /\ jobs[j].phase \in {"complete", "failed"}
  /\ Superseded(j) \/ Expired(j)
  /\ jobs' = [jobs EXCEPT ![j] = [phase |-> "gone", failed |-> 0, at |-> 0]]
  /\ UNCHANGED <<now, status, jobCache, crCache, crFresh, queued, listErrors>>

---------------------------------------------------------------------------
(* What the operator makes of a list of Jobs.                              *)

FinishedJobs(list) == {j \in Jobs : list[j].phase \in {"complete", "failed"}}

\* Mutant: whichever finished Job the list has first.
LastFinished_Any(list) == FinishedJobs(list)

\* The first of the list among those that finished last; the order of a list
\* read from the cache is arbitrary.
LastFinished(list) ==
  {j \in FinishedJobs(list) :
     \A i \in FinishedJobs(list) : list[i].at <= list[j].at}

Failed(job) == job.failed > 0 \/ job.phase = "failed"

\* Mutants: the conditions are confused; a success is left unsaid.
Summarize_Inverted(list, j) ==
  [name |-> j, at |-> list[j].at,
   outcome |-> IF list[j].phase = "complete" THEN "Failed" ELSE "Succeeded"]

Summarize_NoOutcome(list, j) ==
  [name |-> j, at |-> list[j].at,
   outcome |-> IF Failed(list[j]) THEN "Failed" ELSE ""]

Summarize(list, j) ==
  [name |-> j, at |-> list[j].at,
   outcome |-> IF Failed(list[j]) THEN "Failed" ELSE "Succeeded"]

Summaries(list) == IF FinishedJobs(list) = {} THEN {NoJob}
                   ELSE {Summarize(list, j) : j \in LastFinished(list)}

\* collectBackup / collectRestore: the Jobs are asked only when the status
\* says nothing.
Reported == IF crCache = NoJob THEN Summaries(jobCache) ELSE {crCache}

\* setJobSucceededCondition: BackupSucceeded or RestoreSucceeded, written into
\* the status together with lastJob.
Condition(last) == CASE last = NoJob                -> "Unknown"
                     [] last.outcome = "Succeeded" -> "True"
                     [] OTHER                      -> "False"

\* Mutant: a resource without finished Jobs is reported failed.
LastJobFailed_NotTrue(last) == IF last.outcome = "Succeeded" THEN 0 ELSE 1

\* emitLastJob: the gauge alerts are made from.
LastJobFailed(last) == IF last.outcome = "Failed" THEN 1 ELSE 0

---------------------------------------------------------------------------
(* Caches and reconciliation.                                              *)

\* The Job informer catches up; mapJobToOwner queues the owner.
SyncJobs ==
  /\ jobCache # jobs
  /\ jobCache' = jobs
  /\ queued' = TRUE
  /\ UNCHANGED <<jobs, now, status, crCache, crFresh, listErrors>>

SyncCR ==
  /\ ~crFresh
  /\ crCache' = status /\ crFresh' = TRUE /\ queued' = TRUE
  /\ UNCHANGED <<jobs, now, status, jobCache, listErrors>>

\* The tail of setStatus: nothing changed, a write, or a conflict.
WriteStatus(new) ==
  CASE new = crCache -> queued' = FALSE /\ UNCHANGED <<status, crFresh>>
    [] new # crCache /\ crFresh
         -> queued' = FALSE /\ status' = new /\ crFresh' = FALSE
    [] OTHER -> queued' = TRUE /\ UNCHANGED <<status, crFresh>>

SetStatus ==
  /\ queued
  /\ \E new \in Summaries(jobCache) : WriteStatus(new)
  /\ UNCHANGED <<jobs, now, jobCache, crCache, listErrors>>

\* lastJobStatus takes a failing List for an empty one.
ListFails ==
  /\ queued /\ listErrors < MaxListErrors
  /\ WriteStatus(NoJob)
  /\ listErrors' = listErrors + 1
  /\ UNCHANGED <<jobs, now, jobCache, crCache>>

\* The informer hands every object out again, changed or not.
ResyncAll ==
  /\ Resync /\ ~queued
  /\ queued' = TRUE
  /\ UNCHANGED <<jobs, now, status, jobCache, crCache, crFresh, listErrors>>

Kubernetes == \E j \in Jobs : \/ StartJob(j) \/ PodFails(j) \/ JobCompletes(j)
                              \/ RemoveJob(j)
Operator == SyncJobs \/ SyncCR \/ SetStatus \/ ListFails \/ ResyncAll
Next == Kubernetes \/ Operator

Spec == Init /\ [][Next]_vars

\* Informers deliver and the work queue is served; Jobs owe nothing.
FairSpec == /\ Spec /\ WF_vars(SyncJobs) /\ WF_vars(SyncCR)
            /\ WF_vars(SetStatus) /\ WF_vars(ResyncAll)

---------------------------------------------------------------------------
(* Properties.                                                             *)

\* r names a Job that still exists and after which no other such Job finished.
NamesLatest(r) ==
  LET done == {j \in Jobs : jobs[j].phase \in {"complete", "failed"}}
  IN IF done = {} THEN r = NoJob
     ELSE r.name \in done /\ \A i \in done : jobs[i].at <= jobs[r.name].at

\* Whatever the caches showed on the way, once the Jobs come to rest the
\* status and the metrics settle on the Job that finished last.
StatusConverges ==
  (<>[][FALSE]_jobs) =>
    <>[](NamesLatest(status) /\ \A r \in Reported : NamesLatest(r))

\* No two finished Jobs finished in the same second.
NoTie == \A i, j \in FinishedJobs(jobs) : i # j => jobs[i].at # jobs[j].at

\* The gauge and the condition come to agree, although the one falls back on
\* the Jobs when the status says nothing: an alert is raised if and only if
\* the condition is False.  (Two Jobs of one second, of which one failed, may
\* alternate in the status with every resync.)
AlertAgrees ==
  <>[][FALSE]_jobs /\ <>[]NoTie =>
    <>[](\A r \in Reported : (LastJobFailed(r) = 1) <=> (Condition(status) = "False"))

\* status.lastJob goes back to a Job that finished earlier only when the one it
\* names has been removed: a stale list never takes it back past a Job that
\* still exists, whether Jobs overlap or not.
BackOnlyPastRemoved ==
  [][status'.at < status.at => \/ status' = NoJob
                               \/ \A j \in Jobs : status.name = j
                                                   => jobs[j].phase = "gone"]_vars

\* Jobs that do not overlap are removed in the order they finished, and
\* status.lastJob never goes back to a Job that finished earlier, although it
\* is computed each time from a stale list that Kubernetes keeps cutting.
LastJobForward == [][status'.at >= status.at \/ status' = NoJob]_vars

\* "BackupSucceeded is True when the last finished Backup Job succeeded":
\* the condition is False only if the Job it tells of failed.
FailedMeansFailed ==
  \A j \in Jobs : status.name = j /\ jobs[j].phase = "complete"
                    => Condition(status) = "True"

\* ... and True only if it succeeded.
SucceededMeansSucceeded ==
  \A j \in Jobs : status.name = j /\ jobs[j].phase = "failed"
                    => Condition(status) = "False"
=============================================================================
