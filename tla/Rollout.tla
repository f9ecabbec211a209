------------------------------ MODULE Rollout ------------------------------
(***************************************************************************)
(* How an edited spec reaches the pods that run.  The reconciler writes    *)
(* ConfigMap, claim and CronJob one after the other; a Job keeps the       *)
(* template its CronJob had when it was created, its retries included,     *)
(* while every container reads the ConfigMap when it starts.  So a pod may *)
(* run containers made for different revisions of the spec.                *)
(*                                                                         *)
(* What the objects hold is a function of the spec they were made from     *)
(* (Manifests), so the state names that spec.  The objects are read from   *)
(* caches that lag and written over the cached version or not at all.      *)
(* Failing calls, restarts, deletions and other owners are the subject of  *)
(* Reconcile.                                                              *)
(***************************************************************************)
EXTENDS Manifests, FiniteSets

CONSTANTS
  Specs,       \* name |-> spec, of the specs users write: see Manifests
  Cfg,         \* the operator's flags, [endpoint, bucket]
  SecretSets,  \* sets of the <<Secret, key>> that may exist
  Claims,      \* claim |-> access mode, of the claims there are besides
  Webhooks,    \* the operator runs with --webhooks
  Reverts,     \* edits may bring back what an earlier ConfigMap held
  Due,         \* the specs whose CronJobs create Jobs
  Busy,        \* the specs edited while there are pods, or more than once
  MaxEdits,    \* bound on the edits of the spec
  PodEdits     \* bound on its edits while there are pods

None == "none"

ASSUME RolloutAssumption ==
  /\ DOMAIN Specs # {} /\ None \notin DOMAIN Specs
  /\ \A n \in DOMAIN Specs : /\ Specs[n].kind \in {"Backup", "Restore"}
                             /\ Specs[n].persistence.size \in Nat
  /\ SecretSets # {} /\ Due \subseteq DOMAIN Specs
  /\ Busy \subseteq DOMAIN Specs
  /\ Webhooks \in BOOLEAN /\ Reverts \in BOOLEAN
  /\ MaxEdits \in Nat /\ PodEdits \in Nat

VARIABLES
  spec,      \* the resource's spec
  gen,       \* its generation
  past,      \* the specs it had before
  secrets,   \* the <<Secret, key>> there are
  expands,   \* the StorageClass sets allowVolumeExpansion
  cm,        \* the spec the ConfigMap was made from
  claim,     \* the storage the claim requests; 0: no claim
  cron,      \* the spec the CronJob was made from
  cmSeen,    \* cm, claim and cron as the operator's caches have them
  claimSeen,
  cronSeen,
  fresh,     \* the objects whose cached version is the current one
  status,    \* reason and observedGeneration
  step,      \* where the reconcile is
  local,     \* the copy of the resource it works on
  todo,      \* the reason it will report
  pod        \* the pod of the latest run, or NoPod

resource == <<spec, gen, past>>
caches == <<cmSeen, claimSeen, cronSeen>>
cluster == <<secrets, expands, pod>>
vars == <<resource, cm, claim, cron, caches, fresh, status, step, local, todo, cluster>>

Names == DOMAIN Specs
Objects == {"ConfigMap", "PVC", "CronJob"}
Reasons == {"none", "Unsupported", "InvalidSpec", "NotFound", "Invalid",
            "ConfigMapError", "PVCError", "CronJobError", "Synced"}

\* What the objects made from each spec hold.
Template == [n \in Names |-> TemplateOf(Specs[n])]
ConfigMap == [n \in Names |-> ConfigMapOf(Specs[n], Cfg)]
Containers(n) == DOMAIN Template[n].containers

\* of: the spec of the template;  got[i]: the spec of the ConfigMap container i
\* read, or None before it starts;  gen: the generation that was Ready from the
\* creation of the Job to the last start of a container, or 0.
PodOf(n, g) == [of |-> n, got |-> [i \in Containers(n) |-> None], gen |-> g]

NoPod == [of |-> None, got |-> << >>, gen |-> 0]

TypeOK ==
  /\ spec \in Names /\ gen \in 1..(MaxEdits + 1)
  /\ secrets \in SecretSets /\ expands \in BOOLEAN
  /\ past \subseteq Names /\ fresh \subseteq Objects
  /\ cm \in Names \cup {None} /\ cron \in Names \cup {None} /\ claim \in Nat
  /\ cmSeen \in Names \cup {None} /\ cronSeen \in Names \cup {None}
  /\ claimSeen \in Nat
  /\ status.reason \in Reasons /\ status.observed \in 0..gen
  /\ step \in {"idle", "ConfigMap", "PVC", "CronJob", "status"}
  /\ local.spec \in Names /\ local.gen \in 1..gen
  /\ todo \in Reasons
  /\ pod # NoPod =>
       /\ pod.of \in Names /\ pod.gen \in 0..gen
       /\ pod.got \in [Containers(pod.of) -> Names \cup {None}]

Admitted(s) == Webhooks => Validate(s)

Init ==
  /\ spec \in {n \in Names : Admitted(Specs[n])} /\ gen = 1 /\ past = {}
  /\ secrets \in SecretSets /\ expands \in BOOLEAN
  /\ cm = None /\ claim = 0 /\ cron = None
  /\ cmSeen = None /\ claimSeen = 0 /\ cronSeen = None /\ fresh = Objects
  /\ status = [reason |-> "none", observed |-> 0]
  /\ step = "idle" /\ local = [spec |-> spec, gen |-> 1] /\ todo = "none"
  /\ pod = NoPod

---------------------------------------------------------------------------
(* The reconciler.                                                         *)

\* Mutant: ReadWriteOncePod is reported by its own name.
CheckSource_Mode(s) ==
  CASE EffectiveEngine(s) # "pvc"         -> "none"
    [] s.pvc.claim \notin DOMAIN Claims   -> "NotFound"
    [] OTHER -> IF Claims[s.pvc.claim] = "RWOP" THEN "RWOP" ELSE "none"

\* checkSourcePVC; the claim "own" is the one the Backup itself owns.
CheckSource(s) ==
  CASE EffectiveEngine(s) # "pvc" -> "none"
    [] EffectiveEngine(s) = "pvc" /\ s.pvc.claim = "own" -> "Invalid"
    [] EffectiveEngine(s) = "pvc" /\ s.pvc.claim \notin DOMAIN Claims \cup {"own"} ->
         "NotFound"
    [] OTHER -> IF Claims[s.pvc.claim] = "RWOP" THEN "Invalid" ELSE "none"

\* ensureSecret / ensureJobSecret and ensureTargetSecret.
CheckSecrets(s) ==
  LET there == {k[1] : k \in secrets}
  IN CASE RequiredKeys(s) \subseteq secrets -> "none"
       [] s.secret \notin there -> "NotFound"
       [] s.secret \in there /\ (\E k \in RequiredKeys(s) \ secrets : k[1] = s.secret) ->
            "Invalid"
       [] OTHER -> IF RestoreTargetSecret(s).name \in there THEN "Invalid" ELSE "NotFound"

\* What a reconcile refuses before it writes anything.
Refusal(s) ==
  CASE ~EngineImplemented(s)    -> "Unsupported"
    [] EngineImplemented(s) /\ ~Validate(s) -> "InvalidSpec"
    [] OTHER -> IF CheckSecrets(s) # "none" THEN CheckSecrets(s) ELSE CheckSource(s)

Report(reason) == step' = "status" /\ todo' = reason

\* A reconcile may begin at any time: events and resyncs cause it.
Begin ==
  /\ step = "idle"
  /\ local' = [spec |-> spec, gen |-> gen]
  /\ IF Refusal(Specs[spec]) = "none" THEN step' = "ConfigMap" /\ UNCHANGED todo
                               ELSE Report(Refusal(Specs[spec]))
  /\ UNCHANGED <<resource, cm, claim, cron, caches, fresh, status, cluster>>

\* An object that is created or updated gets a version the cache does not have.
Put(t) == fresh' = fresh \ {t}

\* An update over a version that is no longer the current one: try again.
Conflict == step' = "idle" /\ UNCHANGED <<fresh, todo>>

\* Mutant: what exists is left as it is.
WriteConfigMap_CreateOnly ==
  /\ step = "ConfigMap"
  /\ IF ConfigMapError(Specs[local.spec], Cfg)
     THEN Report("ConfigMapError") /\ UNCHANGED <<cm, fresh>>
     ELSE /\ IF cm = None THEN cm' = local.spec /\ Put("ConfigMap")
                          ELSE UNCHANGED <<cm, fresh>>
          /\ step' = "PVC" /\ UNCHANGED todo
  /\ UNCHANGED <<resource, claim, cron, caches, status, local, cluster>>

\* The ConfigMap is compared with its cached version: if that holds the same,
\* there is nothing to do.
WriteConfigMap ==
  /\ step = "ConfigMap"
  /\ \/ /\ \/ ConfigMapError(Specs[local.spec], Cfg)
           \/ cmSeen = None /\ cm # None
        /\ Report("ConfigMapError") /\ UNCHANGED <<cm, fresh>>
     \/ /\ ~ConfigMapError(Specs[local.spec], Cfg)
        /\ \/ cmSeen = None /\ cm = None
           \/ /\ cmSeen # None /\ ConfigMap[cmSeen] # ConfigMap[local.spec]
              /\ "ConfigMap" \in fresh
        /\ cm' = local.spec /\ Put("ConfigMap")
        /\ step' = "PVC" /\ UNCHANGED todo
     \/ /\ ~ConfigMapError(Specs[local.spec], Cfg)
        /\ cmSeen # None /\ ConfigMap[cmSeen] # ConfigMap[local.spec]
        /\ "ConfigMap" \notin fresh
        /\ Conflict /\ UNCHANGED cm
     \/ /\ ~ConfigMapError(Specs[local.spec], Cfg)
        /\ cmSeen # None /\ ConfigMap[cmSeen] = ConfigMap[local.spec]
        /\ step' = "PVC" /\ UNCHANGED <<cm, fresh, todo>>
  /\ UNCHANGED <<resource, claim, cron, caches, status, local, cluster>>

\* The API server refuses to shrink a claim, and to let it grow unless the
\* StorageClass allows it.
ClaimRefused(new) == claim > 0 /\ (new < claim \/ (new > claim /\ ~expands))

\* A claim that exists is given the new size if its cached size is smaller.
WritePVC ==
  /\ step = "PVC"
  /\ LET s == Specs[local.spec]
         new == IF claimSeen = 0 THEN persistenceSize(s) ELSE ExpandPVC(claimSeen, s)
         differs == claimSeen = 0 \/ new # claimSeen
         stale == claimSeen > 0 /\ "PVC" \notin fresh
         refused == (claimSeen = 0 /\ claim > 0) \/ ClaimRefused(new)
     IN \/ /\ ~PersistenceEnabled(s) \/ ~differs
           /\ step' = "CronJob" /\ UNCHANGED <<claim, fresh, todo>>
        \/ /\ PersistenceEnabled(s) /\ differs /\ stale
           /\ Conflict /\ UNCHANGED claim
        \/ /\ PersistenceEnabled(s) /\ differs /\ ~stale /\ refused
           /\ Report("PVCError") /\ UNCHANGED <<claim, fresh>>
        \/ /\ PersistenceEnabled(s) /\ differs /\ ~stale /\ ~refused
           /\ claim' = new /\ Put("PVC")
           /\ step' = "CronJob" /\ UNCHANGED todo
  /\ UNCHANGED <<resource, cm, cron, caches, status, local, cluster>>

\* The API server refuses a Job whose containers are always restarted, and a
\* container that requests more than its limit.
TemplateRefused(t) ==
  \/ t.restart = "Always"
  \/ \E i \in DOMAIN t.containers : LET r == t.containers[i].resources
                                    IN r.requests.memory > r.limits.memory

\* Mutant: a CronJob that exists is left as it is.
WriteCronJob_CreateOnly ==
  /\ step = "CronJob"
  /\ IF TemplateRefused(Template[local.spec])
     THEN Report("CronJobError") /\ UNCHANGED <<cron, fresh>>
     ELSE /\ IF cron = None THEN cron' = local.spec /\ Put("CronJob")
                            ELSE UNCHANGED <<cron, fresh>>
          /\ Report("Synced")
  /\ UNCHANGED <<resource, cm, claim, caches, status, local, cluster>>

\* The builder overwrites the whole spec of the CronJob, so that the fields the
\* API server fills in always make a difference and an update is sent.
WriteCronJob ==
  /\ step = "CronJob"
  /\ LET stale == cronSeen # None /\ "CronJob" \notin fresh
         refused == \/ cronSeen = None /\ cron # None
                    \/ TemplateRefused(Template[local.spec])
     IN \/ /\ stale
           /\ Conflict /\ UNCHANGED cron
        \/ /\ ~stale /\ refused
           /\ Report("CronJobError") /\ UNCHANGED <<cron, fresh>>
        \/ /\ ~stale /\ ~refused
           /\ cron' = local.spec /\ Report("Synced")
           /\ IF cron = local.spec THEN UNCHANGED fresh ELSE Put("CronJob")
  /\ UNCHANGED <<resource, cm, claim, caches, status, local, cluster>>

\* A status made from an older version of the resource meets a conflict.
SetStatus ==
  /\ step = "status"
  /\ step' = "idle"
  /\ status' = IF local.gen = gen THEN [reason |-> todo, observed |-> gen] ELSE status
  /\ UNCHANGED <<resource, cm, claim, cron, caches, fresh, local, todo, cluster>>

\* The informer of a type catches up.
SyncCache(t) ==
  /\ t \notin fresh
  /\ fresh' = fresh \cup {t}
  /\ cmSeen' = IF t = "ConfigMap" THEN cm ELSE cmSeen
  /\ claimSeen' = IF t = "PVC" THEN claim ELSE claimSeen
  /\ cronSeen' = IF t = "CronJob" THEN cron ELSE cronSeen
  /\ UNCHANGED <<resource, cm, claim, cron, status, step, local, todo, cluster>>

Reconcile == Begin \/ WriteConfigMap \/ WritePVC \/ WriteCronJob \/ SetStatus

---------------------------------------------------------------------------
(* Users, Jobs and pods.                                                   *)

\* Bounds the histories: a spec outside Busy is edited once and without pods, or
\* has pods and is not edited.
InBusy == past \cup {spec} \subseteq Busy

Edit(n) ==
  /\ gen <= MaxEdits /\ (pod # NoPod => gen <= PodEdits) /\ n # spec
  /\ (InBusy /\ n \in Busy) \/ (past = {} /\ pod = NoPod)
  /\ Specs[n].kind = Specs[spec].kind /\ Admitted(Specs[n])
  /\ \/ Reverts \/ ConfigMap[n] = ConfigMap[spec]
     \/ \A m \in past : ConfigMap[m] # ConfigMap[n]
  /\ spec' = n /\ gen' = gen + 1 /\ past' = past \cup {spec}
  /\ UNCHANGED <<cm, claim, cron, caches, fresh, status, step, local, todo, cluster>>

ReadyGen == IF status.reason = "Synced" /\ status.observed = gen THEN gen ELSE 0

Rest == <<resource, secrets, expands, cm, claim, cron, caches, fresh, status, step,
          local, todo>>

\* A Job is created from the CronJob, on schedule or by hand, and its first pod.
CreateJob ==
  /\ cron \in Due /\ gen <= PodEdits + 1 /\ (InBusy \/ past = {})
  /\ pod' = PodOf(cron, ReadyGen)
  /\ UNCHANGED Rest

\* The pod failed: the Job tries again with the template it was created with.
RetryJob ==
  /\ pod # NoPod
  /\ pod' = PodOf(pod.of, pod.gen)
  /\ UNCHANGED Rest

\* The <<Secret, key>> a container refers to, and the volume every pod mounts.
KeysOf(t, i) == {t.containers[i].keys[v] : v \in DOMAIN t.containers[i].keys}
                  \cup {t.volumes.gpg}

\* The kubelet starts container i, if the keys it refers to exist.
StartContainer(i) ==
  /\ pod.got[i] = None
  /\ KeysOf(Template[pod.of], i) \subseteq secrets
  /\ pod' = [of |-> pod.of, got |-> [pod.got EXCEPT ![i] = cm],
             gen |-> IF ReadyGen = pod.gen THEN pod.gen ELSE 0]
  /\ UNCHANGED Rest

Next == \/ Reconcile
        \/ \E t \in Objects : SyncCache(t)
        \/ \E n \in Names : Edit(n)
        \/ CreateJob \/ RetryJob
        \/ pod # NoPod /\ \E i \in DOMAIN pod.got : StartContainer(i)

Spec == Init /\ [][Next]_vars

\* The operator keeps reconciling and its informers deliver.
FairSpec == Spec /\ WF_vars(Reconcile) /\ \A t \in Objects : WF_vars(SyncCache(t))

---------------------------------------------------------------------------
(* Properties.                                                             *)

Started == {i \in DOMAIN pod.got : pod.got[i] # None}
Env(i) == ConfigMap[pod.got[i]]
Container(i) == Template[pod.of].containers[i]

\* There is a pod, and the containers that started read what was made for its
\* template.
OneRevision == pod # NoPod /\ \A i \in Started : Env(i) = ConfigMap[pod.of]

\* "Ready is True when owned resources are admitted and synced": of the current
\* spec.
SyncedWhenReady == ReadyGen > 0 => ConfigMap[cm] = ConfigMap[spec] /\ cron = spec

\* A run that begins, and whose containers all start, while the status says
\* Ready for one and the same generation is not a mixture of two revisions.
\* (Otherwise it may be: encrypt and s3-sync may disagree on S3_ENABLED.)
ReadyRunsUnmixed == pod # NoPod /\ pod.gen > 0 => OneRevision

\* A spec that passed admission and the Secret checks gives every stage what
\* its script needs: each variable is set and not empty, each Secret key it
\* refers to exists.
NothingMissing ==
  OneRevision =>
    /\ \A i \in DOMAIN pod.got : KeysOf(Template[pod.of], i) \subseteq secrets
    /\ \A i \in Started : \A v \in ScriptNeeds(Specs[pod.of].kind, Container(i).name) :
         v \in DOMAIN Container(i).keys \/ (v \in DOMAIN Env(i) /\ Env(i)[v] # "")

\* Peers wait for .step-job-done: when all containers run, exactly one of them
\* is going to write it, whether the stage list or S3_ENABLED decides.
OneFinisher ==
  OneRevision /\ Started = DOMAIN pod.got =>
    Cardinality({i \in Started : Finishes(Container(i).name, Env(i))}) = 1

\* "false keeps dumps in retained/ on the PVC (requires persistence)": the dump
\* of a Backup goes to S3 or to a claim, never only to a volume that ends with
\* the pod.
DumpOutlivesPod ==
  OneRevision /\ Specs[pod.of].kind = "Backup" =>
    \/ \E i \in DOMAIN pod.got : Container(i).name = "s3-sync"
    \/ Template[pod.of].volumes.work = "claim"

\* "DataDir is the volume mount path", "Workdir is the volume mount path": the
\* directory a stage works in is where its work volume is mounted, the root
\* file system being read-only.
WorkOnVolume ==
  OneRevision => \A i \in Started :
    Container(i).mount = IF Specs[pod.of].kind = "Backup" THEN Env(i).DATA_DIR
                                                   ELSE Env(i).WORKDIR

\* What a spec deserves in the end, the sizes its claim had included.
Expected ==
  LET s == Specs[spec]
      stuck == claim > 0 /\ ~expands /\ persistenceSize(s) > claim
  IN CASE Refusal(s) # "none" -> Refusal(s)
       [] Refusal(s) = "none" /\ ConfigMapError(s, Cfg) -> "ConfigMapError"
       [] OTHER -> CASE PersistenceEnabled(s) /\ stuck -> "PVCError"
                     [] TemplateRefused(Template[spec])
                          /\ ~(PersistenceEnabled(s) /\ stuck) -> "CronJobError"
                     [] OTHER -> "Synced"

\* "lowering it is ignored": whatever sizes, engines and modes a resource went
\* through, its status comes to tell of its current spec, and a Ready one has
\* a claim that is large enough.
Settles ==
  <>[](/\ status.observed = gen /\ status.reason = Expected
       /\ Expected = "Synced" => /\ ConfigMap[cm] = ConfigMap[spec] /\ cron = spec
                                 /\ PersistenceEnabled(Specs[spec]) =>
                                      claim >= persistenceSize(Specs[spec]))
=============================================================================
