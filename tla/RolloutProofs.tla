--------------------------- MODULE RolloutProofs ---------------------------
(* Theorems about Rollout and Manifests, for every set of specs, flags and  *)
(* Secrets.                                                                *)
EXTENDS Rollout, FiniteSetTheorems, TLAPS

\* What a reconcile refuses it reports with one of the reasons of the API.
LEMMA RefusalType == \A s : Refusal(s) \in Reasons
<1> SUFFICES ASSUME NEW s PROVE Refusal(s) \in Reasons
  OBVIOUS
<1>1. CheckSource(s) \in Reasons
  BY DEF CheckSource, Reasons
<1>2. CheckSecrets(s) \in Reasons
  BY DEF CheckSecrets, Reasons
<1>3. QED BY <1>1, <1>2 DEF Refusal, Reasons

\* The size of a claim is a number.
LEMMA SizeType == \A n \in Names : persistenceSize(Specs[n]) \in Nat
  BY RolloutAssumption DEF Names, persistenceSize

\* The objects, the status, the reconcile and the pod stay well formed.
THEOREM RolloutTypeInvariance == Spec => []TypeOK
<1> USE RolloutAssumption
<1>1. Init => TypeOK
  BY DEF Init, TypeOK, Reasons, Names
<1>2. TypeOK /\ [Next]_vars => TypeOK'
  <2> SUFFICES ASSUME TypeOK, [Next]_vars PROVE TypeOK'
    OBVIOUS
  <2> DEFINE PodOK == pod # NoPod => /\ pod.of \in Names /\ pod.gen \in 0..gen
                                     /\ pod.got \in [Containers(pod.of) -> Names \cup {None}]
  <2>0. gen \in Nat \ {0} /\ gen \in 1..(MaxEdits + 1) /\ PodOK
    BY DEF TypeOK
  <2>1. ASSUME UNCHANGED pod, gen' \in Nat, gen <= gen' PROVE PodOK'
    BY <2>0, <2>1 DEF Containers, Template
  <2>2. CASE Begin
    BY <2>0, <2>1, <2>2, RefusalType DEF Begin, Report, TypeOK, resource, caches, cluster
  <2>3. CASE WriteConfigMap
    BY <2>0, <2>1, <2>3 DEF WriteConfigMap, Report, Put, Conflict, TypeOK, resource, caches, cluster,
       Reasons
  <2>4. CASE WritePVC
    <3>1. claim' \in Nat
      BY <2>4, SizeType DEF WritePVC, ExpandPVC, Put, Conflict, TypeOK
    <3>2. step' \in {"idle", "CronJob", "status"} /\ todo' \in Reasons /\ fresh' \subseteq Objects
      BY <2>4 DEF WritePVC, Report, Put, Conflict, TypeOK, Reasons
    <3>3. UNCHANGED <<resource, cm, cron, caches, status, local, cluster>>
      BY <2>4 DEF WritePVC
    <3>4. QED BY <2>0, <2>1, <3>1, <3>2, <3>3 DEF TypeOK, resource, caches, cluster
  <2>5. CASE WriteCronJob
    BY <2>0, <2>1, <2>5 DEF WriteCronJob, Report, Put, Conflict, TypeOK, resource, caches, cluster,
       Reasons
  <2>6. CASE SetStatus
    BY <2>0, <2>1, <2>6 DEF SetStatus, TypeOK, resource, caches, cluster
  <2>7. ASSUME NEW n \in Names, Edit(n) PROVE TypeOK'
    <3>1. gen' \in 1..(MaxEdits + 1) /\ gen' = gen + 1 /\ spec' \in Names
      BY <2>0, <2>7 DEF Edit
    <3>2. QED BY <2>0, <2>1, <2>7, <3>1 DEF Edit, TypeOK, caches, cluster
  <2>8. ReadyGen \in 0..gen
    BY <2>0 DEF ReadyGen
  <2>9. CASE CreateJob
    BY <2>0, <2>8, <2>9 DEF CreateJob, PodOf, Rest, TypeOK, resource, caches, Containers, Template
  <2>10. CASE RetryJob
    BY <2>0, <2>10 DEF RetryJob, PodOf, Rest, TypeOK, resource, caches, Containers, Template
  <2>11. ASSUME pod # NoPod, NEW i \in DOMAIN pod.got, StartContainer(i) PROVE TypeOK'
    BY <2>0, <2>11 DEF StartContainer, Rest, TypeOK, resource, caches, Containers, Template
  <2>12. ASSUME NEW t \in Objects, SyncCache(t) PROVE TypeOK'
    BY <2>0, <2>1, <2>12 DEF SyncCache, TypeOK, resource, cluster
  <2>13. CASE UNCHANGED vars
    BY <2>0, <2>1, <2>13 DEF vars, TypeOK, resource, caches, cluster
  <2>14. QED BY <2>2, <2>3, <2>4, <2>5, <2>6, <2>7, <2>9, <2>10, <2>11, <2>12, <2>13
     DEF Next, Reconcile
<1>3. QED BY <1>1, <1>2, PTL DEF Spec

---------------------------------------------------------------------------
(* One revision.                                                           *)

\* The ConfigMap in the cache is no newer than the one there is, that is no
\* newer than the copy a reconcile works on, and that no newer than the
\* resource: where no edit brings back what a ConfigMap held before, what the
\* first and the last have in common is what all have in common.
CacheInv ==
  /\ local.spec \in past \cup {spec}
  /\ cm # None => cm \in past \cup {spec}
  /\ cmSeen # None => cmSeen \in past \cup {spec} /\ cm # None
  /\ cmSeen # None /\ ConfigMap[cmSeen] = ConfigMap[local.spec] =>
       ConfigMap[cm] = ConfigMap[local.spec]
  /\ cmSeen # None /\ ConfigMap[cmSeen] = ConfigMap[spec] => ConfigMap[cm] = ConfigMap[spec]
  /\ cm # None /\ ConfigMap[cm] = ConfigMap[spec] => ConfigMap[local.spec] = ConfigMap[spec]

\* The copy a reconcile works on is the resource unless that was edited since;
\* what it wrote, or found written, holds what was made from this copy; a
\* status that tells of the current generation leaves nobody at work on an
\* older one; so while it says Ready both objects are those of the current
\* spec, and a run that was Ready throughout has read nothing else.
RevisionInv ==
  /\ local.gen = gen => local.spec = spec
  /\ status.observed = gen => local.gen = gen
  /\ step \in {"PVC", "CronJob"} => ConfigMap[cm] = ConfigMap[local.spec]
  /\ step = "status" /\ todo = "Synced" =>
       ConfigMap[cm] = ConfigMap[local.spec] /\ cron = local.spec
  /\ ReadyGen > 0 => ConfigMap[cm] = ConfigMap[spec] /\ cron = spec
  /\ pod # NoPod /\ pod.gen > 0 =>
       /\ \A i \in DOMAIN pod.got : pod.got[i] = None \/ Env(i) = ConfigMap[pod.of]
       /\ pod.gen = gen => pod.of = spec

\* A refusal is never a success.
LEMMA RefusalFails == \A s : Refusal(s) # "Synced"
<1> SUFFICES ASSUME NEW s PROVE Refusal(s) # "Synced"
  OBVIOUS
<1>1. CheckSource(s) # "Synced"
  BY DEF CheckSource
<1>2. CheckSecrets(s) # "Synced"
  BY DEF CheckSecrets
<1>3. QED BY <1>1, <1>2 DEF Refusal

\* CacheInv is inductive.
LEMMA CacheStep ==
  ASSUME ~Reverts, TypeOK, CacheInv, [Next]_vars
  PROVE  CacheInv'
<1> USE RolloutAssumption
<1>1. CASE Begin
  BY <1>1 DEF Begin, CacheInv, resource, caches
<1>2. CASE WriteConfigMap
  <2>1. UNCHANGED <<spec, past, cmSeen, local>>
    BY <1>2 DEF WriteConfigMap, resource, caches
  <2>2. cm' = cm \/ cm' = local.spec
    BY <1>2 DEF WriteConfigMap
  <2>3. CASE cm' = cm
    BY <2>1, <2>3 DEF CacheInv
  <2>4. CASE cm' = local.spec
    <3>1. local.spec # None
      BY DEF TypeOK, Names
    <3>2. QED BY <2>1, <2>4, <3>1 DEF CacheInv
  <2>5. QED BY <2>2, <2>3, <2>4
<1>3. CASE WritePVC \/ WriteCronJob \/ SetStatus
  <2>1. UNCHANGED <<spec, past, cm, cmSeen, local>>
    BY <1>3 DEF WritePVC, WriteCronJob, SetStatus, resource, caches
  <2>2. QED BY <2>1 DEF CacheInv
<1>4. ASSUME NEW n \in Names, Edit(n) PROVE CacheInv'
  <2>1. /\ spec' = n /\ past' = past \cup {spec} /\ UNCHANGED <<cm, cmSeen, local>>
        /\ ConfigMap[n] = ConfigMap[spec] \/ \A m \in past : ConfigMap[m] # ConfigMap[n]
    BY <1>4 DEF Edit, caches
  <2>2. CASE ConfigMap[n] = ConfigMap[spec]
    BY <2>1, <2>2 DEF CacheInv
  <2>3. CASE ConfigMap[n] # ConfigMap[spec]
    <3>1. \A m \in past \cup {spec} : ConfigMap[m] # ConfigMap[n]
      BY <2>1, <2>3
    <3>2. QED BY <2>1, <3>1 DEF CacheInv
  <2>4. QED BY <2>2, <2>3
<1>5. CASE CreateJob \/ RetryJob \/ \E i \in DOMAIN pod.got : StartContainer(i)
  <2>1. UNCHANGED <<spec, past, cm, cmSeen, local>>
    BY <1>5 DEF CreateJob, RetryJob, StartContainer, Rest, resource, caches
  <2>2. QED BY <2>1 DEF CacheInv
<1>6. ASSUME NEW t \in Objects, SyncCache(t) PROVE CacheInv'
  <2>1. UNCHANGED <<spec, past, cm, local>> /\ (cmSeen' = cm \/ cmSeen' = cmSeen)
    BY <1>6 DEF SyncCache, resource
  <2>2. QED BY <2>1 DEF CacheInv
<1>7. CASE UNCHANGED vars
  BY <1>7 DEF vars, CacheInv, resource, caches
<1>8. QED BY <1>1, <1>2, <1>3, <1>4, <1>5, <1>6, <1>7 DEF Next, Reconcile

\* RevisionInv is inductive, given CacheInv.
LEMMA RevisionStep ==
  ASSUME TypeOK, CacheInv, RevisionInv, [Next]_vars
  PROVE  RevisionInv'
<1> USE RolloutAssumption
<1> DEFINE PodInv == pod # NoPod /\ pod.gen > 0 =>
                       /\ \A i \in DOMAIN pod.got : pod.got[i] = None \/ Env(i) = ConfigMap[pod.of]
                       /\ pod.gen = gen => pod.of = spec
<1>0. gen \in Nat \ {0} /\ status.observed \in 0..gen /\ local.gen \in 1..gen /\ PodInv
  BY DEF TypeOK, RevisionInv
<1>1. ASSUME UNCHANGED <<pod, spec, gen>> PROVE PodInv'
  BY <1>0, <1>1 DEF Env
<1>2. CASE Begin
  BY <1>0, <1>1, <1>2, RefusalFails DEF Begin, Report, RevisionInv, ReadyGen, resource, cluster
<1>3. CASE WriteConfigMap
  <2>1. /\ UNCHANGED <<spec, gen, cron, status, local, pod>>
        /\ step' \in {"idle", "PVC", "status"} /\ (step' = "status" => todo' # "Synced")
    BY <1>3 DEF WriteConfigMap, Report, Conflict, resource, cluster
  <2>2. cm' = local.spec \/ cm' = cm
    BY <1>3 DEF WriteConfigMap
  <2>3. step' = "PVC" => ConfigMap[cm'] = ConfigMap[local.spec]
    BY <1>3 DEF WriteConfigMap, Report, Conflict, CacheInv
  <2>4. QED BY <1>0, <1>1, <2>1, <2>2, <2>3 DEF RevisionInv, ReadyGen
<1>4. CASE WritePVC
  <2>1. UNCHANGED <<spec, gen, cm, cron, status, local, pod>> /\ step = "PVC"
    BY <1>4 DEF WritePVC, resource, cluster
  <2>2. step' \in {"idle", "CronJob", "status"} /\ (step' = "status" => todo' # "Synced")
    BY <1>4 DEF WritePVC, Report, Conflict
  <2>3. QED BY <1>0, <1>1, <2>1, <2>2 DEF RevisionInv, ReadyGen
<1>5. CASE WriteCronJob
  <2>1. UNCHANGED <<spec, gen, cm, status, local, pod>> /\ step = "CronJob"
    BY <1>5 DEF WriteCronJob, resource, cluster
  <2>2. /\ step' \in {"idle", "status"} /\ cron' \in {cron, local.spec}
        /\ step' = "status" /\ todo' = "Synced" => cron' = local.spec
    BY <1>5 DEF WriteCronJob, Report, Conflict
  <2>3. QED BY <1>0, <1>1, <2>1, <2>2 DEF RevisionInv, ReadyGen
<1>6. CASE SetStatus
  BY <1>0, <1>1, <1>6 DEF SetStatus, RevisionInv, ReadyGen, resource, cluster
<1>7. ASSUME NEW n \in Names, Edit(n) PROVE RevisionInv'
  <2>1. PodInv'
    BY <1>0, <1>7 DEF Edit, TypeOK, Env, cluster
  <2>2. QED BY <1>0, <1>7, <2>1 DEF Edit, RevisionInv, ReadyGen, cluster
<1>8. ReadyGen > 0 => ReadyGen = gen
  BY <1>0 DEF ReadyGen
<1>9. CASE CreateJob
  BY <1>0, <1>8, <1>9 DEF CreateJob, PodOf, Rest, RevisionInv, ReadyGen, Env, resource
<1>10. CASE RetryJob
  BY <1>0, <1>10 DEF RetryJob, PodOf, Rest, RevisionInv, ReadyGen, Env, resource
<1>11. ASSUME pod # NoPod, NEW i \in DOMAIN pod.got, StartContainer(i) PROVE RevisionInv'
  <2>1. /\ UNCHANGED <<spec, gen, cm, cron, status, step, local, todo>>
        /\ pod'.of = pod.of /\ pod'.got = [pod.got EXCEPT ![i] = cm]
        /\ pod'.gen = IF ReadyGen = pod.gen THEN pod.gen ELSE 0
    BY <1>11 DEF StartContainer, Rest, resource
  <2>2. ASSUME pod'.gen > 0
        PROVE  /\ \A j \in DOMAIN pod'.got : pod'.got[j] = None \/ Env(j)' = ConfigMap[pod'.of]
               /\ pod'.gen = gen => pod'.of = spec
    <3>1. pod.gen > 0 /\ pod.gen = gen /\ ReadyGen > 0
      BY <1>8, <2>1, <2>2
    <3>2. ConfigMap[cm] = ConfigMap[pod.of]
      BY <1>0, <1>11, <3>1 DEF RevisionInv
    <3>3. QED BY <1>0, <1>11, <2>1, <3>1, <3>2 DEF Env
  <2>3. PodInv'
    BY <2>1, <2>2
  <2>4. QED BY <2>1, <2>3 DEF RevisionInv, ReadyGen
<1>12. ASSUME NEW t \in Objects, SyncCache(t) PROVE RevisionInv'
  BY <1>0, <1>1, <1>12 DEF SyncCache, RevisionInv, ReadyGen, resource, cluster
<1>13. CASE UNCHANGED vars
  BY <1>0, <1>1, <1>13 DEF vars, RevisionInv, ReadyGen, resource, cluster
<1>14. QED BY <1>2, <1>3, <1>4, <1>5, <1>6, <1>7, <1>9, <1>10, <1>11, <1>12, <1>13
   DEF Next, Reconcile

\* Both hold of every resource whose edits bring nothing back.
LEMMA RevisionInvariance ==
  ASSUME ~Reverts
  PROVE  Spec => [](CacheInv /\ RevisionInv)
<1>1. Init => CacheInv /\ RevisionInv
  BY DEF Init, CacheInv, RevisionInv, ReadyGen, NoPod
<1>2. TypeOK /\ CacheInv /\ RevisionInv /\ [Next]_vars => CacheInv' /\ RevisionInv'
  BY CacheStep, RevisionStep
<1>3. QED BY <1>1, <1>2, RolloutTypeInvariance, PTL DEF Spec

\* Ready is only said over the ConfigMap and the CronJob of the current spec,
\* however far the caches lag behind, as long as no edit brings back what an
\* earlier ConfigMap held: CreateOrUpdate leaves alone a ConfigMap whose cached
\* version is the one it wants.
THEOREM ReadyMeansCurrent ==
  ASSUME ~Reverts
  PROVE  Spec => []SyncedWhenReady
<1>1. RevisionInv => SyncedWhenReady
  BY DEF RevisionInv, SyncedWhenReady
<1>2. QED BY <1>1, RevisionInvariance, PTL

\* Then a run that is Ready for one generation from its creation to its last
\* start of a container is made of one revision of the spec, however edits,
\* caches and the three writes of the reconcilers interleave.
THEOREM ReadyMeansOneRevision ==
  ASSUME ~Reverts
  PROVE  Spec => []ReadyRunsUnmixed
<1>1. RevisionInv => ReadyRunsUnmixed
  BY DEF RevisionInv, ReadyRunsUnmixed, OneRevision, Started
<1>2. QED BY <1>1, RevisionInvariance, PTL

---------------------------------------------------------------------------
(* What pods are made from.                                                *)

\* The checks of a reconcile, and the refusals of the ConfigMap.
Checked(n) == /\ EngineImplemented(Specs[n]) /\ Validate(Specs[n])
              /\ RequiredKeys(Specs[n]) \subseteq secrets
Sound(n) == Checked(n) /\ ~ConfigMapError(Specs[n], Cfg)

\* No object is written, and no pod made, from a spec that did not pass them.
SoundInv ==
  /\ step \in {"ConfigMap", "PVC", "CronJob"} => Checked(local.spec)
  /\ step \in {"PVC", "CronJob"} => Sound(local.spec)
  /\ cron # None => Sound(cron)
  /\ pod # NoPod => Sound(pod.of)

\* A spec the reconciler does not refuse has passed every check.
LEMMA NotRefused ==
  ASSUME NEW n, Refusal(Specs[n]) = "none"
  PROVE  Checked(n)
<1>1. EngineImplemented(Specs[n]) /\ Validate(Specs[n])
  BY DEF Refusal
<1>2. CheckSecrets(Specs[n]) = "none"
  BY <1>1 DEF Refusal
<1>3. RequiredKeys(Specs[n]) \subseteq secrets
  BY <1>2 DEF CheckSecrets
<1>4. QED BY <1>1, <1>3 DEF Checked

\* Checks depend on the spec and the Secrets only.
LEMMA SoundStays ==
  ASSUME UNCHANGED secrets, NEW n
  PROVE  /\ Checked(n) => Checked(n)'
         /\ Sound(n) => Sound(n)'
  BY DEF Checked, Sound

\* SoundInv is inductive: the objects are made of specs that were checked.
LEMMA SoundStep ==
  ASSUME TypeOK, SoundInv, [Next]_vars
  PROVE  SoundInv'
<1> USE RolloutAssumption
<1>1. UNCHANGED secrets
  BY DEF Next, Reconcile, Begin, WriteConfigMap, WritePVC, WriteCronJob, SetStatus, SyncCache,
     Edit, CreateJob, RetryJob, StartContainer, Rest, cluster, vars
<1>2. \A n : (Checked(n) => Checked(n)') /\ (Sound(n) => Sound(n)')
  BY <1>1, SoundStays
<1>3. CASE Begin
  <2>1. step' = "ConfigMap" => Checked(spec)
    BY <1>3, NotRefused DEF Begin, Report
  <2>2. step' \in {"ConfigMap", "status"} /\ local'.spec = spec /\ UNCHANGED <<cron, pod>>
    BY <1>3 DEF Begin, Report, cluster
  <2>3. QED BY <1>2, <2>1, <2>2 DEF SoundInv
<1>4. CASE WriteConfigMap
  <2>1. /\ step' \in {"idle", "PVC", "status"} /\ UNCHANGED <<local, cron, pod>>
        /\ step' = "PVC" => Sound(local.spec)
    BY <1>4 DEF WriteConfigMap, Report, Conflict, cluster, SoundInv, Sound
  <2>2. QED BY <1>2, <1>4, <2>1 DEF SoundInv, WriteConfigMap
<1>5. CASE WritePVC
  <2>1. /\ UNCHANGED <<local, cron, pod>> /\ step = "PVC"
        /\ step' \in {"idle", "CronJob", "status"}
    BY <1>5 DEF WritePVC, Report, Conflict, cluster
  <2>2. QED BY <1>2, <2>1 DEF SoundInv
<1>6. CASE WriteCronJob
  <2>1. /\ UNCHANGED <<local, pod>> /\ step = "CronJob" /\ step' \in {"idle", "status"}
        /\ cron' \in {cron, local.spec}
    BY <1>6 DEF WriteCronJob, Report, Conflict, cluster
  <2>2. QED BY <1>2, <2>1 DEF SoundInv
<1>7. CASE SetStatus
  BY <1>2, <1>7 DEF SetStatus, SoundInv, cluster
<1>8. ASSUME NEW n \in Names, Edit(n) PROVE SoundInv'
  BY <1>2, <1>8 DEF Edit, SoundInv, cluster
<1>9. CASE CreateJob \/ RetryJob
  BY <1>2, <1>9 DEF CreateJob, RetryJob, PodOf, Rest, SoundInv
<1>10. ASSUME pod # NoPod, NEW i \in DOMAIN pod.got, StartContainer(i) PROVE SoundInv'
  BY <1>2, <1>10 DEF StartContainer, Rest, SoundInv
<1>11. ASSUME NEW t \in Objects, SyncCache(t) PROVE SoundInv'
  BY <1>2, <1>11 DEF SyncCache, SoundInv, cluster
<1>12. CASE UNCHANGED vars
  BY <1>2, <1>12 DEF vars, SoundInv, cluster
<1>13. QED BY <1>3, <1>4, <1>5, <1>6, <1>7, <1>8, <1>9, <1>10, <1>11, <1>12 DEF Next, Reconcile

\* SoundInv holds of every edited resource.
LEMMA SoundInvariance == Spec => []SoundInv
<1>1. Init => SoundInv
  BY DEF Init, SoundInv, None
<1>2. TypeOK /\ SoundInv /\ [Next]_vars => SoundInv'
  BY SoundStep
<1>3. QED BY <1>1, <1>2, RolloutTypeInvariance, PTL DEF Spec

---------------------------------------------------------------------------
(* What the objects of an admitted spec hold.                              *)

LEMMA BackupShape ==
  ASSUME NEW n \in Names, Specs[n].kind = "Backup"
  PROVE  LET c == Template[n].containers
         IN /\ DOMAIN c = IF S3Enabled(Specs[n]) THEN 1..5 ELSE 1..4
            /\ c[1].name = "cleanup" /\ c[1].keys = << >>
            /\ c[2] = dumpContainer(Specs[n])
            /\ c[3].name = "compress" /\ c[3].keys = << >>
            /\ c[4].name = "encrypt" /\ c[4].keys = << >>
            /\ S3Enabled(Specs[n]) => c[5].name = "s3-sync" /\ c[5].keys = S3Keys(Specs[n])
            /\ \A i \in DOMAIN c : c[i].mount = "/backup/data"
<1> DEFINE s == Specs[n]
           c == Template[n].containers
           Stage(name, stage, keys) == newScriptContainer(s, name, stage, "", keys)
<1>1. c = BackupContainers(s)
  BY DEF Template, TemplateOf
<1>2. \A name, stage, keys : /\ Stage(name, stage, keys).name = name
                             /\ Stage(name, stage, keys).keys = keys
                             /\ Stage(name, stage, keys).mount = "/backup/data"
  BY DEF newScriptContainer, firstNonEmpty
<1>3. dumpContainer(s).mount = "/backup/data"
  BY DEF dumpContainer, newScriptContainer, firstNonEmpty
<1> HIDE DEF c, Stage
<1>4. c = <<Stage("cleanup", "cleanup", << >>), dumpContainer(s),
            Stage("compress", "compress", << >>), Stage("encrypt", "encrypt", << >>)>>
          \o IF S3Enabled(s) THEN <<Stage("s3-sync", "s3Sync", S3Keys(s))>> ELSE << >>
  BY <1>1 DEF BackupContainers, Stage
<1>5. CASE S3Enabled(s)
  <2>1. /\ DOMAIN c = 1..5 /\ c[1] = Stage("cleanup", "cleanup", << >>) /\ c[2] = dumpContainer(s)
        /\ c[3] = Stage("compress", "compress", << >>) /\ c[4] = Stage("encrypt", "encrypt", << >>)
        /\ c[5] = Stage("s3-sync", "s3Sync", S3Keys(s))
    BY <1>4, <1>5
  <2>2. QED BY <1>2, <1>3, <1>5, <2>1 DEF c
<1>6. CASE ~S3Enabled(s)
  <2>1. /\ DOMAIN c = 1..4 /\ c[1] = Stage("cleanup", "cleanup", << >>) /\ c[2] = dumpContainer(s)
        /\ c[3] = Stage("compress", "compress", << >>) /\ c[4] = Stage("encrypt", "encrypt", << >>)
    BY <1>4, <1>6
  <2>2. QED BY <1>2, <1>3, <1>6, <2>1 DEF c
<1>7. QED BY <1>5, <1>6

\* The containers of a Restore's Job template.
LEMMA RestoreShape ==
  ASSUME NEW n \in Names, Specs[n].kind = "Restore"
  PROVE  LET c == Template[n].containers
             workdir == firstNonEmpty(Specs[n].dir, "/workdir")
         IN /\ DOMAIN c = 1..5
            /\ c[1].name = "cleanup" /\ c[1].keys = << >>
            /\ c[2].name = "fetch" /\ c[2].keys = S3Keys(Specs[n])
            /\ c[3].name = "decrypt" /\ c[3].keys = << >>
            /\ c[4].name = "extract" /\ c[4].keys = << >>
            /\ c[5] = restoreEngineContainer(Specs[n], workdir)
            /\ \A i \in DOMAIN c : c[i].mount = workdir
<1> DEFINE s == Specs[n]
           c == Template[n].containers
           workdir == firstNonEmpty(Specs[n].dir, "/workdir")
           Stage(name, keys) == newScriptContainer(s, name, name, workdir, keys)
<1>1. c = RestoreContainers(s)
  BY DEF Template, TemplateOf
<1>2. workdir # "" /\ firstNonEmpty(workdir, "/backup/data") = workdir
  BY DEF firstNonEmpty
<1>3. \A name, keys : /\ Stage(name, keys).name = name
                      /\ Stage(name, keys).keys = keys
                      /\ Stage(name, keys).mount = workdir
  BY <1>2 DEF newScriptContainer
<1>4. restoreEngineContainer(s, workdir).mount = workdir
  BY <1>2 DEF restoreEngineContainer, newScriptContainer
<1> HIDE DEF c, Stage, workdir
<1>5. c = <<Stage("cleanup", << >>), Stage("fetch", S3Keys(s)), Stage("decrypt", << >>),
            Stage("extract", << >>), restoreEngineContainer(s, workdir)>>
  BY <1>1 DEF RestoreContainers, Stage, workdir
<1>6. /\ DOMAIN c = 1..5 /\ c[1] = Stage("cleanup", << >>) /\ c[2] = Stage("fetch", S3Keys(s))
      /\ c[3] = Stage("decrypt", << >>) /\ c[4] = Stage("extract", << >>)
      /\ c[5] = restoreEngineContainer(s, workdir)
  BY <1>5
<1>7. QED BY <1>3, <1>4, <1>6 DEF c, workdir

\* What the ConfigMap holds of the variables the scripts cannot do without.
LEMMA EnvShape ==
  ASSUME NEW n \in Names
  PROVE  LET e == ConfigMap[n]
             s == Specs[n]
             db == DatabaseEnv(s)
             s3 == S3Env(s, Cfg)
         IN /\ s.kind = "Backup" =>
                 /\ "DATA_DIR" \in DOMAIN e /\ e["DATA_DIR"] = firstNonEmpty(s.dir, "/backup/data")
                 /\ e["S3_ENABLED"] = IF S3Enabled(s) THEN "true" ELSE "false"
            /\ s.kind = "Restore" =>
                 /\ "WORKDIR" \in DOMAIN e /\ e["WORKDIR"] = firstNonEmpty(s.dir, "/workdir")
            /\ \A v \in DOMAIN db : v \in DOMAIN e /\ e[v] = db[v]
            /\ s.kind = "Restore" \/ S3Enabled(s) =>
                 \A v \in DOMAIN s3 : v \in DOMAIN e /\ e[v] = s3[v]
<1> DEFINE s == Specs[n]
           e == ConfigMap[n]
           db == DatabaseEnv(s)
           s3 == S3Env(s, Cfg)
<1>0. s.kind \in {"Backup", "Restore"}
  BY RolloutAssumption DEF Names
<1>1. DOMAIN s3 = {"S3_ENDPOINT", "S3_BUCKET", "S3_PATH"}
  BY DEF S3Env
<1>2. DOMAIN db \cap {"DUMP_PREFIX", "DATA_DIR", "WORKDIR", "S3_ENABLED", "S3_ENDPOINT",
                      "S3_BUCKET", "S3_PATH"} = {}
  BY DEF DatabaseEnv
<1> HIDE DEF db, s3
<1> DEFINE rest == Over(db, IF S3Enabled(s) THEN s3 ELSE << >>)
           rest2 == Over(db, s3)
<1>3. /\ DOMAIN db \subseteq DOMAIN rest /\ \A v \in DOMAIN db : rest[v] = db[v]
      /\ S3Enabled(s) => DOMAIN s3 \subseteq DOMAIN rest /\ \A v \in DOMAIN s3 : rest[v] = s3[v]
      /\ DOMAIN rest \subseteq DOMAIN db \cup DOMAIN s3
  <2>1. CASE S3Enabled(s)
    BY <1>1, <1>2, <2>1 DEF Over
  <2>2. CASE ~S3Enabled(s)
    BY <1>1, <1>2, <2>2 DEF Over
  <2>3. QED BY <2>1, <2>2
<1>4. /\ DOMAIN db \subseteq DOMAIN rest2 /\ \A v \in DOMAIN db : rest2[v] = db[v]
      /\ DOMAIN s3 \subseteq DOMAIN rest2 /\ \A v \in DOMAIN s3 : rest2[v] = s3[v]
      /\ DOMAIN rest2 \subseteq DOMAIN db \cup DOMAIN s3
  BY <1>1, <1>2 DEF Over
<1> HIDE DEF rest, rest2, e
<1>5. CASE s.kind = "Backup"
  <2>1. e = Over([DUMP_PREFIX |-> DumpPrefix(s), DATA_DIR |-> firstNonEmpty(s.dir, "/backup/data"),
                  S3_ENABLED |-> IF S3Enabled(s) THEN "true" ELSE "false"], rest)
    BY <1>5 DEF e, ConfigMap, ConfigMapOf, MutateBackupConfigMap, rest, db, s3
  <2>2. /\ "DATA_DIR" \in DOMAIN e /\ e["DATA_DIR"] = firstNonEmpty(s.dir, "/backup/data")
        /\ e["S3_ENABLED"] = IF S3Enabled(s) THEN "true" ELSE "false"
    BY <2>1 DEF Over
  <2>3. \A v \in DOMAIN rest \ {"DUMP_PREFIX", "DATA_DIR", "S3_ENABLED"} :
          v \in DOMAIN e /\ e[v] = rest[v]
    BY <2>1 DEF Over
  <2>4. QED BY <1>1, <1>2, <1>3, <1>5, <2>2, <2>3 DEF e, db, s3
<1>6. CASE s.kind = "Restore"
  <2>1. e = Over([DUMP_PREFIX |-> DumpPrefix(s), WORKDIR |-> firstNonEmpty(s.dir, "/workdir")],
                 rest2)
    BY <1>6 DEF e, ConfigMap, ConfigMapOf, MutateRestoreConfigMap, rest2, db, s3
  <2>2. "WORKDIR" \in DOMAIN e /\ e["WORKDIR"] = firstNonEmpty(s.dir, "/workdir")
    BY <2>1 DEF Over
  <2>3. \A v \in DOMAIN rest2 \ {"DUMP_PREFIX", "WORKDIR"} : v \in DOMAIN e /\ e[v] = rest2[v]
    BY <2>1 DEF Over
  <2>4. QED BY <1>1, <1>2, <1>4, <1>6, <2>2, <2>3 DEF e, db, s3
<1>7. QED BY <1>0, <1>5, <1>6

---------------------------------------------------------------------------
(* What every pod gets.                                                    *)

\* "false keeps dumps in retained/ on the PVC (requires persistence)": no pod
\* made of one revision of a Backup keeps its dump only on a volume that ends
\* with it.
THEOREM DumpsOutlivePods == Spec => []DumpOutlivesPod
<1>1. ASSUME TypeOK, SoundInv, OneRevision, Specs[pod.of].kind = "Backup"
      PROVE  \/ \E i \in DOMAIN pod.got : Container(i).name = "s3-sync"
             \/ Template[pod.of].volumes.work = "claim"
  <2>1. /\ pod.of \in Names /\ DOMAIN pod.got = DOMAIN Template[pod.of].containers
        /\ Validate(Specs[pod.of])
    BY <1>1 DEF TypeOK, SoundInv, OneRevision, Sound, Checked, Containers
  <2>2. CASE S3Enabled(Specs[pod.of])
    <3>1. 5 \in DOMAIN pod.got /\ Container(5).name = "s3-sync"
      BY <1>1, <2>1, <2>2, BackupShape DEF Container
    <3>2. QED BY <3>1
  <2>3. CASE ~S3Enabled(Specs[pod.of])
    BY <1>1, <2>1, <2>3 DEF Validate, ValidateBackupSpec, Template, TemplateOf, Volumes
  <2>4. QED BY <2>2, <2>3
<1>2. TypeOK /\ SoundInv => DumpOutlivesPod
  BY <1>1 DEF DumpOutlivesPod
<1>3. QED BY <1>2, RolloutTypeInvariance, SoundInvariance, PTL

\* The engine's stages write .step-job-done in a Restore, never in a Backup.
LEMMA EngineStages ==
  ASSUME NEW s
  PROVE  /\ dumpContainer(s).name \in {"mysqldump", "redisdump", "pvcdump", "pgdump"}
         /\ \A w : restoreEngineContainer(s, w).name \in {"mysqlrestore", "redisrestore", "pgrestore"}
  BY DEF dumpContainer, restoreEngineContainer, newScriptContainer

\* Whatever its S3_ENABLED says, a pod made of one revision has exactly one
\* stage that releases the others.
THEOREM OneStageReleases == Spec => []OneFinisher
<1>1. ASSUME TypeOK, OneRevision, Started = DOMAIN pod.got
      PROVE  Cardinality({i \in Started : Finishes(Container(i).name, Env(i))}) = 1
  <2> DEFINE F == {i \in Started : Finishes(Container(i).name, Env(i))}
             n == pod.of
  <2>1. /\ n \in Names /\ Started = DOMAIN Template[n].containers
        /\ \A i \in Started : Env(i) = ConfigMap[n] /\ Container(i) = Template[n].containers[i]
    BY <1>1 DEF TypeOK, OneRevision, Containers, Started, Env, Container
  <2>2. Specs[n].kind \in {"Backup", "Restore"}
    BY <2>1, RolloutAssumption DEF Names
  <2> HIDE DEF n
  <2>3. CASE Specs[n].kind = "Backup" /\ S3Enabled(Specs[n])
    <3>1. Started = 1..5 /\ \A i \in Started : Finishes(Container(i).name, Env(i)) <=> i = 5
      BY <2>1, <2>3, BackupShape, EnvShape, EngineStages DEF Finishes
    <3>2. F = {5}
      BY <3>1
    <3>3. QED BY <3>2, FS_Singleton
  <2>4. CASE Specs[n].kind = "Backup" /\ ~S3Enabled(Specs[n])
    <3>1. Started = 1..4 /\ \A i \in Started : Finishes(Container(i).name, Env(i)) <=> i = 4
      BY <2>1, <2>4, BackupShape, EnvShape, EngineStages DEF Finishes
    <3>2. F = {4}
      BY <3>1
    <3>3. QED BY <3>2, FS_Singleton
  <2>5. CASE Specs[n].kind = "Restore"
    <3> DEFINE c == Template[n].containers
    <3>1. /\ DOMAIN c = 1..5 /\ c[1].name = "cleanup" /\ c[2].name = "fetch"
          /\ c[3].name = "decrypt" /\ c[4].name = "extract"
          /\ c[5] = restoreEngineContainer(Specs[n], firstNonEmpty(Specs[n].dir, "/workdir"))
      BY <2>1, <2>5, RestoreShape
    <3>2. c[5].name \in {"mysqlrestore", "redisrestore", "pgrestore"}
      BY <3>1, EngineStages
    <3> HIDE DEF c
    <3>3. \A i \in 1..5 : Finishes(c[i].name, Env(i)) <=> i = 5
      BY <3>1, <3>2 DEF Finishes
    <3>4. F = {5}
      BY <2>1, <3>1, <3>3 DEF c
    <3>5. QED BY <3>4, FS_Singleton
  <2>6. QED BY <2>2, <2>3, <2>4, <2>5
<1>2. TypeOK => OneFinisher
  BY <1>1 DEF OneFinisher
<1>3. QED BY <1>2, RolloutTypeInvariance, PTL

\* The directory a stage of a pod made of one revision works in is where its
\* volume is mounted, provided no Backup sets spec.dataDir to another path than
\* the default: the container of a Backup's stage is given no mount path.
THEOREM StagesWorkOnTheVolume ==
  ASSUME \A n \in Names : Specs[n].kind = "Backup" => Specs[n].dir \in {"", "/backup/data"}
  PROVE  Spec => []WorkOnVolume
<1>1. ASSUME TypeOK, OneRevision, NEW i \in Started
      PROVE  Container(i).mount = IF Specs[pod.of].kind = "Backup" THEN Env(i).DATA_DIR
                                                             ELSE Env(i).WORKDIR
  <2>1. /\ pod.of \in Names /\ i \in DOMAIN Template[pod.of].containers
        /\ Env(i) = ConfigMap[pod.of] /\ Container(i) = Template[pod.of].containers[i]
    BY <1>1 DEF TypeOK, OneRevision, Containers, Started, Env, Container
  <2>2. Specs[pod.of].kind \in {"Backup", "Restore"}
    BY <2>1, RolloutAssumption DEF Names
  <2>3. CASE Specs[pod.of].kind = "Backup"
    <3>1. Container(i).mount = "/backup/data"
      BY <2>1, <2>3, BackupShape
    <3>2. Env(i)["DATA_DIR"] = firstNonEmpty(Specs[pod.of].dir, "/backup/data")
      BY <2>1, <2>3, EnvShape
    <3>3. Env(i)["DATA_DIR"] = "/backup/data"
      BY <2>1, <2>3, <3>2 DEF firstNonEmpty
    <3>4. QED BY <2>3, <3>1, <3>3
  <2>4. CASE Specs[pod.of].kind = "Restore"
    <3>1. Container(i).mount = firstNonEmpty(Specs[pod.of].dir, "/workdir")
      BY <2>1, <2>4, RestoreShape
    <3>2. Env(i)["WORKDIR"] = firstNonEmpty(Specs[pod.of].dir, "/workdir")
      BY <2>1, <2>4, EnvShape
    <3>3. QED BY <2>4, <3>1, <3>2
  <2>5. QED BY <2>2, <2>3, <2>4
<1>2. TypeOK => WorkOnVolume
  BY <1>1 DEF WorkOnVolume
<1>3. QED BY <1>2, RolloutTypeInvariance, PTL

\* The keys a stage's container refers to are among those the reconcile asks for.
LEMMA KeysAreRequired ==
  ASSUME NEW n \in Names, Checked(n), NEW i \in DOMAIN Template[n].containers
  PROVE  KeysOf(Template[n], i) \subseteq RequiredKeys(Specs[n])
<1> DEFINE s == Specs[n]
           c == Template[n].containers
           Refers(K) == \A v \in DOMAIN K : K[v] \in RequiredKeys(s)
           t == RestoreTargetSecret(s)
<1>0. s.kind \in {"Backup", "Restore"} /\ EngineImplemented(s)
  BY RolloutAssumption DEF Names, Checked
<1>1. Template[n].volumes.gpg \in RequiredKeys(s)
  BY DEF Template, TemplateOf, Volumes, RequiredKeys
<1>2. Refers(<< >>)
  OBVIOUS
<1>3. ASSUME s.kind = "Restore" \/ S3Enabled(s) PROVE Refers(S3Keys(s))
  BY <1>3 DEF S3Keys, RequiredKeys
<1>4. \A u, p : \A v \in DOMAIN Login(s, u, p) : Login(s, u, p)[v] \in {u, p}
  BY DEF Login
<1>5. ASSUME s.kind = "Backup" PROVE Refers(dumpContainer(s).keys)
  <2>1. dumpContainer(s).keys = Login(s, <<s.secret, "username">>, <<s.secret, "password">>)
    BY DEF dumpContainer, newScriptContainer
  <2>2. CASE EffectiveEngine(s) = "pvc"
    BY <1>5, <2>1, <2>2 DEF Login
  <2>3. CASE EffectiveEngine(s) # "pvc"
    <3>1. {<<s.secret, "username">>, <<s.secret, "password">>} \subseteq RequiredKeys(s)
      BY <1>5, <2>3 DEF RequiredKeys
    <3>2. QED BY <1>4, <2>1, <3>1
  <2>4. QED BY <2>2, <2>3
<1>6. ASSUME s.kind = "Restore", NEW w PROVE Refers(restoreEngineContainer(s, w).keys)
  <2>1. restoreEngineContainer(s, w).keys = Login(s, <<t.name, t.user>>, <<t.name, t.pass>>)
    BY DEF restoreEngineContainer, newScriptContainer
  <2>2. {<<t.name, t.user>>, <<t.name, t.pass>>} \subseteq RequiredKeys(s)
    BY <1>6 DEF RequiredKeys
  <2>3. QED BY <1>4, <2>1, <2>2
<1> HIDE DEF Refers
<1>7. Refers(c[i].keys)
  <2>1. CASE s.kind = "Backup"
    <3>1. i \in 1..5 /\ (i = 5 => S3Enabled(s))
      BY <2>1, BackupShape
    <3>2. i = 1 \/ i = 2 \/ i = 3 \/ i = 4 \/ i = 5
      BY <3>1
    <3>3. i \in {1, 3, 4} => c[i].keys = << >>
      BY <2>1, BackupShape
    <3>4. i = 2 => c[i].keys = dumpContainer(s).keys
      BY <2>1, BackupShape
    <3>5. i = 5 => c[i].keys = S3Keys(s)
      BY <2>1, <3>1, BackupShape
    <3>6. QED BY <1>2, <1>3, <1>5, <2>1, <3>1, <3>2, <3>3, <3>4, <3>5
  <2>2. CASE s.kind = "Restore"
    <3>1. i \in 1..5
      BY <2>2, RestoreShape
    <3>2. i = 1 \/ i = 2 \/ i = 3 \/ i = 4 \/ i = 5
      BY <3>1
    <3>3. i \in {1, 3, 4} => c[i].keys = << >>
      BY <2>2, RestoreShape
    <3>4. i = 2 => c[i].keys = S3Keys(s)
      BY <2>2, RestoreShape
    <3>5. i = 5 => c[i].keys = restoreEngineContainer(s, firstNonEmpty(s.dir, "/workdir")).keys
      BY <2>2, RestoreShape
    <3>6. QED BY <1>2, <1>3, <1>6, <2>2, <3>2, <3>3, <3>4, <3>5
  <2>3. QED BY <1>0, <2>1, <2>2
<1>8. QED BY <1>1, <1>7 DEF KeysOf, Refers

\* A stage has variable v: from a Secret, or not empty from the ConfigMap.
Has(n, i, v) ==
  \/ v \in DOMAIN Template[n].containers[i].keys
  \/ v \in DOMAIN ConfigMap[n] /\ ConfigMap[n][v] # ""

\* The variables every stage needs, and those of S3.
LEMMA CommonMet ==
  ASSUME NEW n \in Names, Sound(n), NEW i \in DOMAIN Template[n].containers
  PROVE  /\ Specs[n].kind = "Backup" => Has(n, i, "DATA_DIR")
         /\ Specs[n].kind = "Restore" => Has(n, i, "WORKDIR")
         /\ (Specs[n].kind = "Restore" \/ S3Enabled(Specs[n]))
              /\ Template[n].containers[i].keys = S3Keys(Specs[n]) =>
                 \A v \in {"S3_ENDPOINT", "S3_BUCKET", "S3_PATH", "S3_ACCESS_KEY", "S3_SECRET_KEY"} :
                   Has(n, i, v)
<1> DEFINE s == Specs[n]
           s3 == S3Env(s, Cfg)
<1>1. s.kind = "Backup" => Has(n, i, "DATA_DIR")
  <2>1. firstNonEmpty(s.dir, "/backup/data") # ""
    BY DEF firstNonEmpty
  <2>2. QED BY <2>1, EnvShape DEF Has
<1>2. s.kind = "Restore" => Has(n, i, "WORKDIR")
  <2>1. firstNonEmpty(s.dir, "/workdir") # ""
    BY DEF firstNonEmpty
  <2>2. QED BY <2>1, EnvShape DEF Has
<1>3. ASSUME s.kind = "Restore" \/ S3Enabled(s), Template[n].containers[i].keys = S3Keys(s)
      PROVE  \A v \in {"S3_ENDPOINT", "S3_BUCKET", "S3_PATH", "S3_ACCESS_KEY", "S3_SECRET_KEY"} :
               Has(n, i, v)
  <2>1. s3["S3_ENDPOINT"] # "" /\ s3["S3_BUCKET"] # ""
    BY <1>3 DEF Sound, ConfigMapError
  <2>2. s3["S3_PATH"] # ""
    <3>1. s.s3.path # ""
      BY <1>3, RolloutAssumption DEF Sound, Checked, Validate, ValidateBackupSpec, ValidateRestoreSpec
    <3>2. QED BY <3>1 DEF S3Env
  <2>3. DOMAIN s3 = {"S3_ENDPOINT", "S3_BUCKET", "S3_PATH"}
    BY DEF S3Env
  <2>4. DOMAIN S3Keys(s) = {"S3_ACCESS_KEY", "S3_SECRET_KEY"}
    BY DEF S3Keys
  <2>5. \A v \in DOMAIN s3 : v \in DOMAIN ConfigMap[n] /\ ConfigMap[n][v] = s3[v]
    BY <1>3, EnvShape
  <2> HIDE DEF s3
  <2>6. QED BY <1>3, <2>1, <2>2, <2>3, <2>4, <2>5 DEF Has
<1>4. QED BY <1>1, <1>2, <1>3

\* Name and variables of the stage of each engine.
LEMMA EngineNames ==
  ASSUME NEW s, NEW w
  PROVE  /\ EffectiveEngine(s) = "mariadb" => /\ dumpContainer(s).name = "mysqldump"
                                              /\ restoreEngineContainer(s, w).name = "mysqlrestore"
         /\ EffectiveEngine(s) = "redis" => /\ dumpContainer(s).name = "redisdump"
                                            /\ restoreEngineContainer(s, w).name = "redisrestore"
         /\ EffectiveEngine(s) = "pvc" => dumpContainer(s).name = "pvcdump"
         /\ EffectiveEngine(s) = "postgres" => /\ dumpContainer(s).name = "pgdump"
                                               /\ restoreEngineContainer(s, w).name = "pgrestore"
  BY DEF dumpContainer, restoreEngineContainer, newScriptContainer

\* The keys an engine's container refers to are those of a login.
LEMMA EngineKeys ==
  ASSUME NEW s, NEW w
  PROVE  /\ \E u, p : dumpContainer(s).keys = Login(s, u, p)
         /\ \E u, p : restoreEngineContainer(s, w).keys = Login(s, u, p)
<1>1. dumpContainer(s).keys = Login(s, <<s.secret, "username">>, <<s.secret, "password">>)
  BY DEF dumpContainer, newScriptContainer
<1> DEFINE t == RestoreTargetSecret(s)
<1>2. restoreEngineContainer(s, w).keys = Login(s, <<t.name, t.user>>, <<t.name, t.pass>>)
  BY DEF restoreEngineContainer, newScriptContainer
<1> HIDE DEF t
<1>3. QED BY <1>1, <1>2

\* The variables of the engine's stage.
LEMMA EngineMet ==
  ASSUME NEW n \in Names, Sound(n), NEW i \in DOMAIN Template[n].containers, NEW w,
         \/ Specs[n].kind = "Backup" /\ Template[n].containers[i] = dumpContainer(Specs[n])
         \/ /\ Specs[n].kind = "Restore"
            /\ Template[n].containers[i] = restoreEngineContainer(Specs[n], w),
         NEW v \in ScriptNeeds(Specs[n].kind, Template[n].containers[i].name)
  PROVE  Has(n, i, v)
<1> DEFINE s == Specs[n]
           c == Template[n].containers[i]
           db == DatabaseEnv(s)
           Own(S) == \A x \in S : x \in DOMAIN db /\ db[x] # ""
<1>0. /\ s.kind \in {"Backup", "Restore"} /\ EngineImplemented(s) /\ Validate(s)
  BY RolloutAssumption DEF Names, Sound, Checked
<1>1. v \in (IF s.kind = "Backup" THEN {"DATA_DIR"} ELSE {"WORKDIR"}) => Has(n, i, v)
  BY <1>0, CommonMet
<1>2. \A x \in DOMAIN db : db[x] # "" => Has(n, i, x)
  BY EnvShape DEF Has
<1>3. EffectiveEngine(s) # "pvc" => s.host # "" /\ s.name # ""
  BY <1>0 DEF EffectiveEngine, Validate, ValidateBackupSpec, ValidateRestoreSpec
<1>4. EffectiveEngine(s) = "pvc" => s.kind = "Backup" /\ s.pvc.claim # ""
  BY <1>0 DEF EngineImplemented, EffectiveEngine, Engines, Validate, ValidateBackupSpec, validatePVCSource
<1>5. EffectiveEngine(s) \in {"postgres", "mariadb", "redis", "pvc"}
  BY <1>0 DEF EngineImplemented, Engines
<1>6. \E u, p : c.keys = Login(s, u, p)
  BY EngineKeys
<1> DEFINE Common == IF s.kind = "Backup" THEN {"DATA_DIR"} ELSE {"WORKDIR"}
<1>7. CASE EffectiveEngine(s) = "mariadb"
  <2>1. c.name \in {"mysqldump", "mysqlrestore"}
    BY <1>7, EngineNames
  <2>2. v \in Common \cup {"MYSQL_HOST", "MYSQL_DATABASE", "MYSQL_USER", "MYSQL_PASSWORD"}
    BY <2>1 DEF ScriptNeeds
  <2>3. DOMAIN c.keys = {"MYSQL_USER", "MYSQL_PASSWORD"}
    BY <1>6, <1>7 DEF Login
  <2>4. Own({"MYSQL_HOST", "MYSQL_DATABASE"})
    <3>1. /\ DOMAIN db = {"MYSQL_HOST", "MYSQL_DATABASE"}
          /\ db["MYSQL_HOST"] = s.host /\ db["MYSQL_DATABASE"] = s.name
      BY <1>3, <1>7 DEF DatabaseEnv
    <3> HIDE DEF db
    <3>2. QED BY <1>3, <1>7, <3>1
  <2>5. QED BY <1>1, <1>2, <2>2, <2>3, <2>4 DEF Has
<1>8. CASE EffectiveEngine(s) = "redis"
  <2>1. c.name \in {"redisdump", "redisrestore"}
    BY <1>8, EngineNames
  <2>2. v \in Common \cup {"REDIS_HOST", "REDIS_NAME"}
    BY <2>1 DEF ScriptNeeds
  <2>3. Own({"REDIS_HOST", "REDIS_NAME"})
    <3>1. /\ DOMAIN db = {"REDIS_HOST", "REDIS_NAME"}
          /\ db["REDIS_HOST"] = s.host /\ db["REDIS_NAME"] = s.name
      BY <1>3, <1>8 DEF DatabaseEnv
    <3> HIDE DEF db
    <3>2. QED BY <1>3, <1>8, <3>1
  <2>4. QED BY <1>1, <1>2, <2>2, <2>3
<1>9. CASE EffectiveEngine(s) = "pvc"
  <2>1. c.name = "pvcdump" /\ s.kind = "Backup"
    BY <1>4, <1>9, EngineNames
  <2>2. v \in Common \cup {"PVC_CLAIM_NAME", "PVC_SOURCE_DIR"}
    BY <2>1 DEF ScriptNeeds
  <2>3. Own({"PVC_CLAIM_NAME", "PVC_SOURCE_DIR"})
    <3>1. /\ DOMAIN db = {"PVC_CLAIM_NAME", "PVC_SOURCE_DIR"}
          /\ db["PVC_CLAIM_NAME"] = s.pvc.claim /\ db["PVC_SOURCE_DIR"] = "/source"
      BY <1>4, <1>9 DEF DatabaseEnv
    <3> HIDE DEF db
    <3>2. QED BY <1>4, <1>9, <3>1
  <2>4. QED BY <1>1, <1>2, <2>2, <2>3
<1>10. CASE EffectiveEngine(s) = "postgres"
  <2>1. c.name \in {"pgdump", "pgrestore"}
    BY <1>10, EngineNames
  <2>2. v \in Common \cup {"PGHOST", "PGPORT", "PGDATABASE", "PGUSER"}
    BY <2>1 DEF ScriptNeeds
  <2>3. DOMAIN c.keys = {"PGUSER", "PGPASSWORD"}
    BY <1>6, <1>10 DEF Login
  <2>4. Own({"PGHOST", "PGPORT", "PGDATABASE"})
    <3>1. /\ DOMAIN db = {"PGHOST", "PGPORT", "PGDATABASE"}
          /\ db["PGHOST"] = s.host /\ db["PGPORT"] = "5432" /\ db["PGDATABASE"] = s.name
      BY <1>3, <1>10 DEF DatabaseEnv
    <3> HIDE DEF db
    <3>2. QED BY <1>3, <1>10, <3>1
  <2>5. QED BY <1>1, <1>2, <2>2, <2>3, <2>4 DEF Has
<1>11. QED BY <1>5, <1>7, <1>8, <1>9, <1>10

\* Every stage of an admitted spec has what its script needs.
LEMMA NeedsMet ==
  ASSUME NEW n \in Names, Sound(n), NEW i \in DOMAIN Template[n].containers,
         NEW v \in ScriptNeeds(Specs[n].kind, Template[n].containers[i].name)
  PROVE  Has(n, i, v)
<1> DEFINE s == Specs[n]
           c == Template[n].containers[i]
           Common == IF s.kind = "Backup" THEN {"DATA_DIR"} ELSE {"WORKDIR"}
           S3Vars == {"S3_ENDPOINT", "S3_BUCKET", "S3_PATH", "S3_ACCESS_KEY", "S3_SECRET_KEY"}
<1>0. s.kind \in {"Backup", "Restore"}
  BY RolloutAssumption DEF Names
<1>1. v \in Common => Has(n, i, v)
  BY <1>0, CommonMet
<1>2. CASE c.name \in {"cleanup", "compress", "encrypt", "decrypt", "extract"}
  BY <1>1, <1>2 DEF ScriptNeeds
<1>3. ASSUME c.name \in {"s3-sync", "fetch"}, s.kind = "Restore" \/ S3Enabled(s), c.keys = S3Keys(s)
      PROVE  Has(n, i, v)
  <2>1. v \in Common \cup S3Vars
    BY <1>3 DEF ScriptNeeds
  <2>2. QED BY <1>1, <1>3, <2>1, CommonMet
<1>4. CASE s.kind = "Backup"
  <2>1. i \in 1..5 /\ (i = 5 => S3Enabled(s))
    BY <1>4, BackupShape
  <2>2. i = 1 \/ i = 2 \/ i = 3 \/ i = 4 \/ i = 5
    BY <2>1
  <2>3. CASE i \in {1, 3, 4}
    BY <1>2, <1>4, <2>3, BackupShape
  <2>4. CASE i = 2
    BY <1>4, <2>4, BackupShape, EngineMet
  <2>5. CASE i = 5
    BY <1>3, <1>4, <2>1, <2>5, BackupShape
  <2>6. QED BY <2>2, <2>3, <2>4, <2>5
<1>5. CASE s.kind = "Restore"
  <2>1. i \in 1..5
    BY <1>5, RestoreShape
  <2>2. i = 1 \/ i = 2 \/ i = 3 \/ i = 4 \/ i = 5
    BY <2>1
  <2>3. CASE i \in {1, 3, 4}
    BY <1>2, <1>5, <2>3, RestoreShape
  <2>4. CASE i = 5
    BY <1>5, <2>4, RestoreShape, EngineMet
  <2>5. CASE i = 2
    BY <1>3, <1>5, <2>5, RestoreShape
  <2>6. QED BY <2>2, <2>3, <2>4, <2>5
<1>6. QED BY <1>0, <1>4, <1>5

\* No container of a pod made of one revision waits for a Secret key that is
\* not there, and no script of it ends for want of a variable: what is
\* admitted, checked and built agree for every engine and every spec.
THEOREM StagesHaveTheirNeeds == Spec => []NothingMissing
<1>1. ASSUME TypeOK, SoundInv, OneRevision
      PROVE  /\ \A i \in DOMAIN pod.got : KeysOf(Template[pod.of], i) \subseteq secrets
             /\ \A i \in Started : \A v \in ScriptNeeds(Specs[pod.of].kind, Container(i).name) :
                  v \in DOMAIN Container(i).keys \/ (v \in DOMAIN Env(i) /\ Env(i)[v] # "")
  <2>1. /\ pod.of \in Names /\ DOMAIN pod.got = DOMAIN Template[pod.of].containers
        /\ Sound(pod.of) /\ Checked(pod.of) /\ RequiredKeys(Specs[pod.of]) \subseteq secrets
    BY <1>1 DEF TypeOK, SoundInv, OneRevision, Sound, Checked, Containers
  <2>2. \A i \in DOMAIN pod.got : KeysOf(Template[pod.of], i) \subseteq secrets
    BY <2>1, KeysAreRequired
  <2>3. ASSUME NEW i \in Started, NEW v \in ScriptNeeds(Specs[pod.of].kind, Container(i).name)
        PROVE  v \in DOMAIN Container(i).keys \/ (v \in DOMAIN Env(i) /\ Env(i)[v] # "")
    <3>1. /\ i \in DOMAIN Template[pod.of].containers
          /\ Env(i) = ConfigMap[pod.of] /\ Container(i) = Template[pod.of].containers[i]
      BY <1>1, <2>1 DEF OneRevision, Started, Env, Container
    <3>2. Has(pod.of, i, v)
      BY <2>1, <2>3, <3>1, NeedsMet
    <3>3. QED BY <3>1, <3>2 DEF Has
  <2>4. QED BY <2>2, <2>3
<1>2. TypeOK /\ SoundInv => NothingMissing
  BY <1>1 DEF NothingMissing
<1>3. QED BY <1>2, RolloutTypeInvariance, SoundInvariance, PTL
=============================================================================
