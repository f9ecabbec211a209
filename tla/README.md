# TLA+ specifications of KArkive

KArkive is a Kubernetes operator that turns `Backup` and `Restore` resources
into CronJobs, whose pods run a pipeline of shell scripts. This directory
holds TLA+ models of the parts with state, concurrency and failure, the TLC
configurations that check them, and TLAPS proofs. Every definition is
translated from the code; `PROJECT.json` says from which lines.

## 1. The system

| Part | State it keeps | Operations | Talks to |
|---|---|---|---|
| Marker protocol (`internal/pipeline/scripts/common.sh`) | `.step-*` files in a scratch directory named after the pod, on a volume that outlives the pod | `pipeline_init`, `wait_for`, `hold_until_job_done`, `already_done_*`, `mark_failed`, `mark_job_done`, the EXIT trap | the containers of one pod, through the file system only |
| Backup stages (`scripts/backup`) | dump files, `retained/`, objects in S3 | cleanup, dump (four engines), compress, encrypt, s3-sync | the source database or PVC, S3 |
| Restore stages (`scripts/restore`) | dump files, the target database | cleanup, fetch, decrypt, extract, restore (three engines) | S3, the target |
| Reconcilers (`internal/controller`) | none of their own: resources, owned objects, `status` at the API server; informer caches; the work queue | reconcile (admission, prerequisites, owned objects, legacy cleanup, holder gating, `setStatus`) | API server, informers, users, CronJob controller, garbage collector |
| Job status (`internal/jobstatus`, `last_job.go`) | `status.lastJob` | pick the Job that finished last and summarise it | Job informer, reconcilers |
| Metrics (`internal/metrics`) | none | report `status.lastJob`, or the Jobs when it is empty | caches |
| Resource builders (`internal/resources`) | none | names, CronJob, ConfigMap, PVC, holder | reconcilers |
| API types, validation, webhooks (`api/v1alpha1`) | none | pure checks of a spec | reconcilers, API server |
| Operator process (`cmd`, `internal/config`) | none | flags, start-up | controller-runtime |

What is hard here, and what makes each part correct:

* **Marker protocol.** Five containers run at once and know of each other only
  through files in a directory that another pod's cleanup, or their own last
  stage, may remove. A container can fail (its EXIT trap writes
  `.step-failed`), be killed (no trap), or be restarted in place. Correct
  means: a stage works only when the one before is through; markers of a live
  pod are not taken back; nobody waits in vain or for ever.
* **Backup.** Only encrypted, complete dumps may leave the pod, although
  `s3-sync.sh` mirrors whatever is in the directory; a pod that succeeds has
  stored its dump; pruning never removes the last one.
* **Restore.** Data is replaced only with consent; success means that all of
  the wanted dump is in the target; a Redis target is handed back writable; no
  decrypted dump stays behind.
* **Reconcilers.** Every read is stale, every write may conflict or fail, and
  the process may restart between two calls. Correct means: Ready is only said
  of objects that are there and up to date; nobody else's object is taken over
  or deleted; everything settles on the status its spec deserves.
* **Builders, validation and the pods they make.** What a stage finds (its
  peers, variables, keys, volumes) is decided in four places, and reaches a
  pod in parts: the stage list with the Job's template, the environment when
  a container starts. Correct means: whatever passes admission gives every
  stage what its script needs, a run under one Ready generation is of one
  piece, and a spec that cannot be had is reported.
* **Job status.** The last Job is recomputed from a stale, shrinking list. It
  must not go back past a Job that is still there, must not call a failed Job
  Succeeded, and must settle, with the alert that the metrics derive from it.

The places where these can go wrong are the `hazards` of
`PROJECT.json`, each with its line and the properties that cover it.

## 2. Modules

| Module | Models | Extends |
|---|---|---|
| `StageChain` | common.sh, the pod, the kubelet, the Job and CronJob controllers as far as they start, restart and delete pods | |
| `Relay` | what the marker protocol promises: the abstract specification `StageChain` implements | |
| `BackupPipeline` | the backup scripts | `StageChain` |
| `RestorePipeline` | the restore scripts and the target | `StageChain` |
| `JobStatus` | Jobs, their informer, `status.lastJob` and its condition, the metrics' choice and alert | |
| `Reconcile` | both reconcilers, caches, API server, users | |
| `Manifests` | validation and the resource builders: what becomes of a spec | |
| `Rollout` | an edited spec on its way through the reconciler, the API server, Jobs and the kubelet into running containers | `Manifests` |
| `MC*` | instances for TLC | the module they name |
| `StageChainProofs` | lemmas about the marker protocol, for both pipelines | `StageChain` |
| `BackupPipelineProofs`, `RestorePipelineProofs`, `JobStatusProofs`, `ReconcileProofs`, `RolloutProofs` | theorems | the module they name |
| `BackupStorageProofs` | theorems about what a backup leaves behind | `BackupPipelineProofs` |

### StageChain

`pc[p][s]` is where the container of stage `s` of pod `p` is; `markers[p]` and
`dir` are the `.step-*` files and the scratch directory. `StartContainer` is
`pipeline_init`; `Begin` is `wait_for` returning, followed by the
already-done test and, in dump and fetch, the removal of an old
`.step-failed`; `HoldEnds`, `PeerFailed`, `TimesOut` are the exits of the
polling loops; `TouchDone` the stage's marker. `Exit1` is any exit under
`set -e`: the trap's `mark_failed` ignores its own error, so the mark is lost
if the directory is gone. `Restart` is the kubelet under restartPolicy
OnFailure, `BackoffExceeded` the Job controller, `Kill` a SIGKILL or OOM
without trap, `Evict` the loss of the pod. The set `Faults` says which
accidents an instance has.

Abstractions. A poll that finds its marker and the already-done test are one
step: nothing but the stage itself writes the marker it then tests. 24 h of
patience pass only when no container of the pod can do anything else, unless
`"slow"` is among the faults. concurrencyPolicy Replace is an eviction followed by
a start. Log files and messages are left out.

### Relay

The specification of a pod as its author would put it: one stage runs at a
time, each once and in order, all stay until the last is through, and a lost
relay stays lost. Nobody in the code keeps this order; it comes about from
files that each container tests and touches by itself. `StageChain` maps its
`pc` to it (`R == INSTANCE Relay WITH ...`): a stage runs while it is neither
waiting nor through, has left when its container ended well, and the pod is
lost once a container failed. `TakesTurns == R!Spec` is checked in both
pipelines under restartPolicy Never. Under OnFailure it does not hold, nor
should it: a failed stage runs again.

### BackupPipeline

`files[p]` are the dump files in `p`'s directory, each with its minute, form
(plain, sed's temporary, gz, gpg) and whether it is complete (`whole`), cut
short by its writer (`torn`) or made from a file that was (`half`);
`retained` and `s3` also record when a file was stored. Each program that
writes a file is two steps, so that a failure, a kill or another pod can fall
in between. cleanup's `rm -rf` of another pod's directory is two steps,
entries and `rmdir`, because the second fails when something was written in
between; the list of directories is made once, as `find` does. The pruning of
stray `.gz.gpg` files in scratch directories is subsumed by the removal of
those directories. An upload and the pruning that follows it fall in one tick.
A tick stands for the minute of a dump's name and for the unit of the
retention windows: what matters is which dumps share a name and which are
past their window.

### RestorePipeline

As above with a `target`: what it holds, from which dump, and (Redis) its
role. `live` is data the pipeline did not just put there. The steps of a
restore script (does the target exist, is it empty, drop, create, filter,
apply) are separate; `mysqlrestore.sh` takes a failing count for zero, as the
code does. `redisrestore.sh` copies the dump once more in the clear, to
`redis-data/dump.rdb` (`CopyRdb`), for a server in the pod to load; the target
becomes a replica of that server, syncs, and is promoted, and the copy goes
last (`RemoveCopy`). Nothing but this step and the removal of the directory
takes it away: cleanup's and fetch's `rm dump*` do not reach it (`NoDumps`).
Restore's `rm -rf`s are one step, as pods do not overlap in this
module. `RemoveScratch` comes 20 s after `.step-job-done`; no peer is still
polling then (they poll every 2 to 5 s) unless `"stall"` is among the faults.
Applications write to the target only between runs.

### JobStatus

Jobs start, one after the other or (`Overlap`) beside each other, their pods
fail or succeed, and they are removed: the history limits cut those that
started first, as the CronJob controller does, the TTL those that finished
first. `jobCache` and `crCache` are informer caches; `SyncJobs`
delivers the current list at once, so that intermediate lists may be missed.
`SetStatus` is the Job half of `setStatus`, with its optimistic-lock conflict;
`ListFails` is `lastJobStatus` taking an error for an empty list. `Condition`
is `BackupSucceeded` or `RestoreSucceeded`, `LastJobFailed` the gauge alerts
are made of; the one is written from the status, the other read from it or,
when it is empty, from the metrics' own look at the Jobs (`Reported`).

### Reconcile

A reconcile is a sequence of steps, `Take`, `Check`, `Ensure` (ConfigMap, PVC,
Deployment, CronJob), `DeleteLegacyOwned`, `Available`, `SetStatus`, each with
one read of a cache and one write to the API server. The caches are one per
type; an update conflicts unless the cached version is the current one
(`fresh`, `current`). Names are sequences of parts, so that cut and colliding
names happen. One worker serves each controller; a requeue after some time is
being queued at once; the informers' resync is an option. An object's content
is the revision of the spec it was made from (a PVC is never rewritten).
An object of another resource is refused; one that carries an earlier uid of
the resource's own kind and name is taken over, for `SetControllerReference`
compares kind and name only. Deployments and CronJobs are always written, since
the builders replace their whole spec and the defaults of the API server make
a difference each time; such a write leaves an unchanged object as it is, but
meets a conflict when the cached version is stale. A holder has no pod yet, one
that is up, one of an earlier template, or has lost it; an edit makes its pod
one of an earlier template, which strategy Recreate takes away before there is
another (`HolderRolls`). Whether a spec passes validation is a field of it. A
prerequisite is broken at the start only if the first spec needs it. `First`
says with which specs resources begin.

### Manifests

Pure operators, in the order of the code: defaults, `validation.go`, the keys
that `ensureSecret` and its siblings ask for, the two ConfigMaps, the two Job
templates, the claim. A field is a string and the empty string is unset; a
tri-state flag is `""`, `"true"` or `"false"`. Of a cron expression, a path,
an exclude pattern or a selector only the class counts that validation tells
apart; of resources, memory in MiB. `ScriptNeeds` and `Finishes` are what the
scripts do with what they are given: the variables without which they end
(`set -u`, `${X:?}`), and who writes `.step-job-done`.

### Rollout

One resource whose spec is edited. A reconcile is `Begin` (all checks),
`WriteConfigMap`, `WritePVC`, `WriteCronJob`, `SetStatus`, in that order and
with an early return to `SetStatus` at each; the objects are represented by
the spec they were made from, since `Manifests` says what they hold. Each is
read from a cache of its type that lags (`fresh`, `SyncCache`): a ConfigMap
whose cached version holds what is wanted is left alone, a claim whose cached
size is large enough too, a CronJob is always written, and an update over a
stale version is a conflict.
`CreateJob` copies the template of the CronJob, `RetryJob` keeps it,
`StartContainer` reads the ConfigMap of that moment and needs the keys it
refers to. The API server's refusals are external: a claim that shrinks, or
grows where the StorageClass does not allow it, a Job that restarts Always, a
request over its limit. Holders, failing calls, restarts, deletions and other
owners are left to `Reconcile`. An edit falls between any two steps; unless
`Reverts`, none brings back what an earlier ConfigMap held. Four constants
bound an instance: `Due` names the specs whose CronJobs create Jobs, only those
in `Busy` are edited while there are pods or more than once, at most `MaxEdits`
times, and `PodEdits` times while there are pods. With all specs in both sets
there is no bound but the numbers, and the theorems hold for any.

## 3. Runs

All of them within the bounds named in the cfg; the longest take two to
three minutes.

| Run | Instance | Shows |
|---|---|---|
| `backup_faults` | 2 postgres pods in sequence, S3, Never, any program fails, 1 eviction, clock to 3 | `NoPlaintextLeavesPod`, `OnlyWholeDumpsInS3`, `SuccessMeansStored`, `JobDoneMeansSuccess`, `S3NeverEmptied`, `NoVainWait`, `TakesTurns` |
| `backup_on_failure` | 1 MariaDB pod, no S3, OnFailure, failing programs, 1 kill, stages slower than their peers' patience, 3 restarts | `SuccessMeansStored`, `DoneMarkersStay`, `PodEnds` |
| `backup_overlap_stored` | 2 pods at once | violation, section 5 |
| `restore_faults` | 2 postgres pods, only the second allowed to drop, any program fails, 1 eviction | `DoneMeansRestored`, `LiveDataKept`, `NoVainWait`, `TakesTurns` |
| `restore_on_failure` | 1 Redis pod, OnFailure, 2 kills, sync that never finishes, stalled peer, backupFile not stored | `DoneMeansRestored`, `ReplicaOnlyWhileSyncing`, `SourceIsWanted`, `NothingLeftBehind`, `PodEnds` |
| `restore_mariadb_count` | 1 MariaDB pod, failing programs | violation, section 5 |
| `job_history` | 3 Jobs, 1 retry each, that may overlap, history 1/1, TTL, equal finishing times, 1 failing List, resync | `SucceededMeansSucceeded`, `BackOnlyPastRemoved`, `AlertAgrees`, `StatusConverges` |
| `job_retried` | 1 Job with a retry | violation, section 5 |
| `reconcile_safety` | 1 Backup, 5 specs (2 revisions, unsupported, invalid, no bucket), created, edited, deleted and created again, failing calls, restarts, CronJob status writes, a Secret that goes; 2 such turns | `ReadyMeansSynced` |
| `reconcile_namesakes` | Backup `app` and Restore `backup-app`, both synced, 5 specs (holder or not, other revision, pvc); 1 edit, Secret that turns invalid or holder pod that goes; resync | `DeletesOnlyOwn`, `HolderFirst`, `Converges` |
| `reconcile_upgrade` | the same two, new, the Restore's legacy objects there under the names the Backup needs; the Restore supported or not; resync | `NoTakeover`, `Converges` |
| `rollout_edits` | 17 Backup and 6 Restore specs, 3 sets of Secret keys, a StorageClass that expands or not; any number of runs and retries without an edit, 1 edit of any spec without runs; among 3 specs, 1 edit with runs and retries of one of them, and 2 edits without; no edit is undone | `SyncedWhenReady`, `ReadyRunsUnmixed`, `NothingMissing`, `OneFinisher`, `WorkOnVolume`, `Settles` |

`TypeOK` is checked in the first run of each module.

Why the bounds are enough to be interesting: two pods are what it takes for
one to meet what the other left (partial files, same names, expired copies,
a filled target); three ticks are what it takes for a stored dump to be in
its window, at its edge and past it; three Jobs let one be superseded while
another is shown; two turns let an edit, a deletion, a failed call or a
restart fall between any two steps of a reconcile that another one began. In
`rollout_edits` any spec may follow any other of its kind, so that a claim is
made, raised and lowered; webhooks are off, so that the reconciler meets what
they would refuse. `NothingMissing`, `OneFinisher` and `WorkOnVolume` are
about pods made of one revision, for which no edit is needed. Two edits are what
it takes for the cache, the object, the reconcile's copy and the resource to be
of three revisions at once; the three specs that have them differ in ConfigMap
and template. One edit suffices for a pod to meet two revisions.
CHECK_DEADLOCK is off for `JobStatus` and `Reconcile` only: an operator with
nothing queued and nothing to sync does stop. The pipelines may stutter when
all pods have ended, and `Rollout` always has a reconcile to begin, so a
deadlock there is a real one.

Every property of a passing run has a mutant in `PROJECT.json`: a plausible
mistake in the code (a dropped guard, an ignored exit status, a swapped
marker) under which TLC finds the property violated.

### Fairness

* Pipelines: weak fairness of each stage's own steps (every program ends),
  of the polling loops (`sleep`, `test` and a counter), of `TimesOut` (the
  loops count to 24 h) and of the kubelet and Job controller. The sync loop of
  `redisrestore.sh` gives up after an hour. A program that hangs for ever is
  excluded by this; the scripts have no guard against it, which is a hazard.
  Kills, evictions and failures are never fair.
* Rollout: weak fairness of the reconcile as a whole, since events and the
  resync keep causing it, and of each informer. Edits, Jobs and containers owe
  nothing.
* JobStatus and Reconcile: informers deliver, the queue is served, garbage is
  collected, a holder pod starts, a broken Secret is eventually put right, and
  (where the instance has it) the resync period passes. Jobs, users and faults
  owe nothing.

## 4. Proofs

TLC checks the instances of section 3; the theorems below hold for every value
of the constants (any number of pods, Jobs, resources, restarts, kills and
edits, any names, specs, Secrets, clock bounds and retention windows) that
meets the named assumptions. `ChainAssumption`, `ConstantsAssumption`,
`RestoreAssumption`, `JobAssumption`, `ReconcileAssumption` and
`RolloutAssumption` give the constants their types and say which stages a pod
has; TLC evaluates them in the runs of their modules. What a theorem needs
beyond them is one of its hypotheses, and stands for something in the code or
its configuration:

| Hypothesis | Stands for | Without it |
|---|---|---|
| `RestartPolicy = "Never"` | `spec.job.restartPolicy` (the builders' default), no restart in place | a retried dump finds the partial file of the attempt before (section 5) |
| `~Overlap` | concurrencyPolicy Forbid and no Job by hand | run `backup_overlap_stored`; section 5, `status.lastJob` |
| `~SameMinute` | a schedule is at least a minute apart, as far as the dumps' names tell | section 5, two runs in one minute |
| no `"slow"`, no `"stall"` | stages are done within the 24 h, and polls within the 20 s, their peers allow them | a peer gives up on a stage that is merely late |
| no `"kill"` | no container dies without its EXIT trap | a peer times out after `.step-job-done` |
| no `"tool"` | `mc`, `mariadb`, `redis-cli` do not fail | run `restore_mariadb_count`; section 5, `fetch.sh` |
| history limits of at least 1 | the fields allow 0, the default is 3 | section 5, `status.lastJob` |
| no `"revert"`, `~Reverts` | no edit brings an earlier revision, or what its ConfigMap held, back | section 5, an edit that is undone |
| `OwnNames`, if `Start = "synced"` | resources that begin Ready share no object's name | they cannot both have been Ready |
| `spec.dataDir` unset or `/backup/data` | the default | section 5, `spec.dataDir` |

### Both pipelines (`StageChainProofs`, `BackupPipelineProofs`, `RestorePipelineProofs`)

* `TypeInvariance`, `RestoreTypeInvariance`: `Spec => []TypeOK`.
* `BackupTakesTurns`, `RestoreTakesTurns` (Never): the containers implement
  the relay of `Relay`. `TurnInv` is the invariant the step simulation needs:
  in a pod that is not lost a marker stands for a stage that is through, and
  whoever is up has all before it behind it. It speaks of pods that are not
  lost only, since another pod's cleanup may take markers away (`NoNewMarks`):
  overlap does not break the relay, it only stops it. The order of the stages
  is all the argument knows of a pipeline (`InOrder`, `Rank`), so it is made
  once and used by both.
* `BackupMarkersStay`, `OnlyEndedPodsAreSwept` (`~Overlap`, either restart
  policy). `PodsInv` says that a pod begins when those before it have ended,
  `SweepInv` that the list cleanup works through has ended pods only, and
  `MarkInv` that the markers present are those of a prefix of the stages:
  that is why a restarted cleanup finds its own marker and removes nothing.
* `BackupNoVainWait`, `RestoreNoVainWait`, `BackupDoneMeansSuccess` (Never,
  `~Overlap`, no `"slow"`; the second no `"stall"`, the third no `"kill"`).
  The absence of a vain wait is a deadlock argument: if nobody was killed and
  nobody can move, the first stage that is not through has either failed in
  the open, so `.step-failed` is there for its peers to see, or its
  predecessor's marker is. `Alive` is what makes it inductive: an exit
  non-zero has left the mark, nobody clears it, the directory is there, and
  the failing stage is one at its turn.

### What a backup stores (`BackupPipelineProofs`, `BackupStorageProofs`)

* `HandOverInvariance`, `OnlyEncryptedLeaves`, `OnlyWholeReachesS3` (Never,
  overlapping pods included). Neither property is inductive: `s3-sync`
  mirrors whatever the directory holds, so one has to know what it can hold.
  `HandOver` says, per pod, that once a stage's marker is written or the next
  stage is active, the stage and all before it write no file any more
  (`Stopped`), and that what remains is of the right form and complete; that
  an incomplete file belongs to a program that is still running or has failed;
  that the directory is empty before the dump starts; and that what is stored
  is as the two properties say. There is one lemma per stage (`DumpStep`, ...),
  one for the marker protocol (`PollStep`) and one for what is stored
  (`OutStep`). A cleanup of another pod only removes files and markers, which
  falsifies no part of it (`CleanupKeeps`).
* `SuccessIsStored`, `PruningKeepsOne` (Never, `~Overlap`, `~SameMinute`),
  with any failing program, killed container and evicted pod. `HandOver` says
  what the directory may hold, `StoreInv` what it must: the whole dump in the
  form the next stage takes it in (`ScratchInv`), from the copy on an entry of
  `retained/` and from the upload on an object in S3 that are no older than
  the dump (`CopyInv`, `UploadInv`), so that they outlive its window. That no
  other run's copy or upload replaces them is because names differ (`NameInv`)
  and an object in S3 belongs to a pod past its upload (`OwnerInv`); that
  pruning leaves one is because it follows an upload of the same minute
  (`PruneInv`).

### What a restore does to its target (`RestorePipelineProofs`)

* `ReleasedMeansRestored`, `SuccessLeavesNothing`: no hypotheses, so with
  restarts in place, kills, evictions and failing programs. `RestoreInv`
  follows the dump from stage to stage: extract's marker means that no torn
  plain file is there, every step of the restore stage has the form it reads,
  and from `tidy` on the target holds all of it, with role master. The copy a
  Redis server loads is a file like the others; that only Redis has one is
  `CopyInv`. It needs `MarkInv`, up to the point where the last stage removes
  the markers itself (`Closed`).
* `LiveDataIsKept` (MariaDB only without `"tool"`): `LiveInv`, a stage without
  consent that is past its inspection has no live data before it.
* `FetchesTheWanted` (no `"tool"`, one database): the last name of a finite
  listing is the newest dump.
* `ReplicaIsHandedBack` (no `"tool"`).

### Job status (`JobStatusProofs`)

* `JobTypeInvariance`; `SuccessIsTrue`: no hypotheses. A finished Job never
  changes except by being removed, so a stale cache is wrong about whether it
  exists and not about how it ended (`Honest`).
* `NeverPastExisting`: no hypotheses. `StatusSeen` says that the Job the status
  names is in the operator's list as it was reported, or has been removed; so
  whatever replaces it finished no earlier.
* `NeverBackwards` (`~Overlap`, history limits of at least 1): `Forward` says
  that a list that shows any finished Job, cached or current, shows one that
  finished no earlier than the Job in the status. `RemovalKeepsAhead` is where
  the limits come in, and `InOrder` where the overlap does: of Jobs that follow
  each other the one that started last finished last.

### Reconcilers (`ReconcileProofs`)

* `ReconcileTypeInvariance`, `NothingTakenOver`, `OnlyOwnDeleted`: no
  hypotheses; names may be cut and collide. `SeenOwner` is the reason: a
  cached object and the current one of that name have one owner, up to its
  uid, since nothing is created under a name the cache still shows. `UidInv`
  says that uids grow from the objects over the reconcile's copy and the cache
  to the resource: an object that is taken over goes from a uid that is no more
  to a later one of the same resource. `Touched` sums up what any
  step may do to an object, so that these proofs have five cases and not
  twenty actions.
* `ReadyIsTrue` (no `"revert"`; `OwnNames` for a synced start): `SyncInv`. The
  reconcile works on a copy of the resource and writes through caches of the
  objects; copy, cache and resource are ordered by age (`VersionInv`), and an
  object was made from the copy or from an earlier one (`ContentInv`), so a
  cached object with the content of the current spec is current
  (`ProgressInv`).
* `HolderIsFirst` (the same hypotheses): a holder the cache shows to have been
  available has been (`SeenUp`). It may have lost its pod since.

### Builders and rollout (`RolloutProofs`)

* `RolloutTypeInvariance`: no hypotheses.
* `ReadyMeansCurrent`, `ReadyMeansOneRevision` (`~Reverts`), for any specs and
  any number of edits. `RevisionInv` ties the reconcile's copy, the two
  objects, the status and the running pod together by generation. It needs
  `CacheInv` where the reconcile finds nothing to do: cached ConfigMap, current
  ConfigMap, the reconcile's copy and the resource are ordered by age, and as
  nothing comes back, what the first has in common with the third the second
  has too.
* `DumpsOutlivePods`, `OneStageReleases`, `StagesHaveTheirNeeds`,
  `StagesWorkOnTheVolume` (default `dataDir`): for every spec at all, and so
  far beyond the 23 of `rollout_edits`. `SoundInv` says that no object is
  written and no pod made from a spec that did not pass validation and the
  Secret checks; from there on it is a matter of `Manifests`: what `validation.go`, the
  checked keys, the ConfigMaps and the templates say agrees, engine by engine.

### Only proved

Three properties are theorems and no run's. `LastJobForward` (`NeverBackwards`)
does not hold of the overlapping Jobs of `job_history`. `SweepsOnlyEndedPods`
(`OnlyEndedPodsAreSwept`) follows from the order of the pods; what happens when
they overlap is shown by `backup_overlap_stored`. `DumpOutlivesPod`
(`DumpsOutlivePods`) depends on no interleaving, only on what `validation.go`
lets through.

### Only model-checked

Liveness (`PodEnds`, `StatusConverges`, `AlertAgrees`, `Converges`,
`Settles`) is out of the prover's reach. So far `SuccessMeansStored` under
OnFailure (`backup_on_failure`) is not proved either: there the scratch
directory may hold files of several attempts, which `HandOver` excludes.

## 5. Findings and observations

Three runs show the code doing other than a document or comment of the
repository says; the quotations are in `PROJECT.json`.

* `backup_overlap_stored`: a manual Job beside a scheduled one. The second
  pod's cleanup empties the first one's directory; its mirror of nothing
  succeeds, and the pod Succeeds with no object in S3.
* `restore_mariadb_count`: a failing count of the target's tables counts as
  zero and the dump is applied over live data without consent.
* `job_retried`: a Job that succeeded on its second pod is reported Failed.

One passing property holds where the repository's documents say it does not.
`src/api/v1alpha1/common_types.go:213` says of restartPolicy "OnFailure restarts
one container in-place and can wipe pipeline markers", and `src/README.md:195`
of Never "Do not restart a single container in-place (wipes pipeline markers)".
In the scripts as they are, `DoneMarkersStay` holds under OnFailure (checked in
`backup_on_failure`, proved as `BackupMarkersStay` for pods that do not
overlap): `cleanup.sh:10` asks for its own marker before it removes any, as the
comment at `common.sh:68` wants it ("Cleanup must not run `rm -f .step-*`
again"), and that marker is written before any other stage can write one. What an
in-place restart does remove is `.step-failed` (`clear_step_failed`), and what
it really costs is the partial file of the first item below. The two documents
describe scripts without `already_done_hold`.

Further behaviours the models show when their constants are set so; they are
listed as hazards rather than as runs:

* `spec.dataDir`: `newScriptContainer` (`cronjob.go:211`) mounts the work volume
  at `/backup/data` unless it is given a path, and no stage of a Backup gives
  one, while `MutateBackupConfigMap` (`configmap.go:23`) sets `DATA_DIR` to
  `spec.dataDir`. The stages then work on a root file system that is read-only,
  and fail, where `backup_types.go:96` says "DataDir is the volume mount path."
  (`WorkOnVolume`, with a Backup that sets `dir`.)
* An edit that is undone before the ConfigMap's cache has seen it: the reconcile
  finds what it wants in the cache, leaves the edit's ConfigMap in place and
  says Ready (`owned.go:79`), where `common_types.go:224` says "ConditionReady
  is True when owned resources are admitted and synced." It lasts until the
  cache catches up, whose event causes another reconcile. Only a ConfigMap can
  be left so; a CronJob or holder is always written, and meets a conflict.
  (`SyncedWhenReady`, `Reverts`, two edits; `Settles` holds all the same.)
* An edit that changes the holder's template: `AvailableReplicas` is read
  without `observedGeneration` (`owned.go:178`), and the Deployment is replaced
  by Recreate (`holder.go:55`), so that Ready may be written for the new
  generation over a pod that is about to go or just went, where
  `src/README.md:87` says "Ready waits until the holder is Available." What does
  hold is `HolderFirst`: not before it first was. (`Reconcile` with two
  revisions of a spec with a holder and one edit.)
* OnFailure with S3: the partial file of a failed dump, of an earlier minute,
  is compressed, encrypted and uploaded beside the retried one
  (`OnlyWholeDumpsInS3`, RestartPolicy OnFailure, faults `tool`).
* Two runs in one minute without S3: a failing copy of the second cuts off
  the retained copy of the first (`SuccessMeansStored`, SameMinute).
* `fetch.sh`: a failing `mc stat` or a listing that breaks off goes unnoticed
  and another dump is taken; with two databases under one path, the last by
  name is taken however old (`SourceIsWanted`, faults `tool`, two databases).
* `status.lastJob` returns to nil when the TTL removes the last Job, and to an
  earlier success when failedJobsHistoryLimit is 0. If Jobs overlap, it also
  goes back when the Job that finished last had started before another one:
  the history is cut by start time (`LastJobForward`, Overlap).
* A resource deleted and created again takes over the objects of the earlier
  one that are not collected yet: `SetControllerReference` (`owned.go:75`)
  compares kind and name, and overwrites the uid. Dumps on a claim survive
  that way, or do not, as the garbage collector is late or not.
* A resource that is no longer supported or valid keeps its legacy objects,
  since only a reconcile that gets through cleans up; a namesake that needs
  these names shows an error for as long (`Blocked` in `Converges`).
* Two finished Jobs of one second alternate in the status with every resync,
  and the alert may pick the other one (`AlertAgrees` without `NoTie`).
* A reconcile behind a lagging cache creates what exists; AlreadyExists is not
  a conflict (`owned.go:52`) and the resource shows Error until the next one.
  So does the `Get` after the creation of a holder, which reads a cache that
  need not have it.
* A run between the writes of an edit, or retried after it, mixes revisions
  (`OneRevision` is not an invariant). If the edit switches S3 off, `encrypt`
  may release its peers while `s3-sync` still waits, which then skips the
  upload; if it switches S3 on, nobody is left to write `.step-job-done` and
  the pod waits for its time limit.
* A pod killed while a Redis target syncs leaves it a read-only replica; a
  failed restore leaves its decrypted dump until the next run's cleanup.

Read in the code and outside the models: `spec.pvc.consumerSelector` may match
the Backup's own pods, which carry `app.kubernetes.io/name` with the Backup's
name, and a pod that matches its own affinity is scheduled though no consumer
runs, where `backup_types.go:39` says that Jobs stay Pending; a holder placed
beside a consumer does not follow it to another node; a resource name that makes
the CronJob's name longer than 52 characters passes admission and ends in
CronJobError; `cleanup.sh` prunes local copies by age before the new dump
exists, so a Backup without S3 whose runs keep failing loses its last copy.

## 6. Not modelled

Images, ports, retention settings, security contexts, labels and affinities of
the generated objects: values that are copied and that no step of the operator
or of a script branches on. Placement is the scheduler's. The syntax of cron
expressions, paths and selectors is that of libraries; the models know its
classes. Events, log rotation, the text of the SQL filters, roles and
extensions of a restored database are left out; so are the generated deep
copies, the embedding of the scripts, the Helm chart, CRDs and documentation.
Leader election, probes and start-up belong to controller-runtime.

## 7. Plan

1. Done: `StageChain`, `BackupPipeline`, `RestorePipeline`, `JobStatus`,
   `Reconcile`, their runs, and the proofs of section 4; then `Relay` and its
   refinement, the condition and the alert in `JobStatus`, `Manifests` and
   `Rollout`.
2. Done, proofs: every safety property and the refinement of the passing runs,
   under the hypotheses of section 4, but for the one named there.
3. Next: `SuccessMeansStored` under OnFailure, from an invariant about the
   files of the last attempt; weaker hypotheses where the code allows them
   (`NoVainWait` with overlapping pods, `OnlyEncryptedLeaves` under OnFailure).
4. Open: nodes and affinities, should placement become part of the operator's
   own decisions.
