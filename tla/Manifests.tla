----------------------------- MODULE Manifests -----------------------------
(***************************************************************************)
(* What the operator makes of a Backup or a Restore: the admission of its  *)
(* spec (api/v1alpha1/validation.go) and the ConfigMap, claim and Job      *)
(* template that internal/resources builds from it and from the operator's *)
(* flags.  All of it is pure.                                              *)
(*                                                                         *)
(* The empty string is an unset field.  A spec has the fields              *)
(*   kind, engine, schedule, host, name, secret, dir, mode                 *)
(*   pvc          [given, claim, path, excludes, selector]                 *)
(*   s3           [enabled, endpoint, bucket, path]                        *)
(*   target       engine |-> [name, user, pass], the target Secrets        *)
(*   persistence  [enabled, size]                                          *)
(*   job          [restart, concurrency]                                   *)
(*   resources    stage |-> [requests, limits], of the stages overridden   *)
(* where dir is dataDir of a Backup and workdir of a Restore.  Images,     *)
(* labels, ports and history limits are left out.                          *)
(***************************************************************************)
EXTENDS Integers, Sequences

\* A map with the entries of f set over those of g.
Over(f, g) == [k \in DOMAIN f \cup DOMAIN g |-> IF k \in DOMAIN f THEN f[k] ELSE g[k]]

Engines == {"postgres", "mariadb", "redis", "pvc"}

EffectiveEngine(s) == IF s.engine = "" THEN "postgres" ELSE s.engine

\* EngineImplemented and RestoreEngineImplemented.
EngineImplemented(s) ==
  EffectiveEngine(s) \in IF s.kind = "Backup" THEN Engines ELSE Engines \ {"pvc"}

DumpPrefix(s) == CASE EffectiveEngine(s) = "mariadb" -> "mysqldump"
                   [] EffectiveEngine(s) = "redis"   -> "redisdump"
                   [] EffectiveEngine(s) = "pvc"     -> "pvcdump"
                   [] OTHER                          -> "pg_dump"

firstNonEmpty(a, b) == IF a # "" THEN a ELSE b

\* A flag that is true unless it is explicitly false: s3.enabled,
\* persistence.enabled, and boolEnv with default true.
EnabledOrDefault(flag) == flag # "false"

S3Enabled(s) == EnabledOrDefault(s.s3.enabled)
PersistenceEnabled(s) == EnabledOrDefault(s.persistence.enabled)
persistenceSize(s) == IF s.persistence.size > 0 THEN s.persistence.size ELSE 1
NeedsVolumeHolder(s) == s.mode = "CronJobWithVolumeHolder"

---------------------------------------------------------------------------
(* Admission, by the webhooks if there are any and by every reconcile.     *)

\* Of an expression, a path or a selector only the form counts.
validateSchedule(s) == s.schedule \notin {"", "malformed"}

validatePVCSource(p) ==
  /\ p.given /\ p.claim # ""
  /\ p.path \notin {"absolute", "dotdot", "newline"}
  /\ p.excludes \notin {"blank", "newline"}
  /\ p.selector \notin {"matches all", "malformed"}

validateRuntime(s) == \/ s.mode \in {"", "CronJob"}
                      \/ NeedsVolumeHolder(s) /\ PersistenceEnabled(s)

validateJobPolicy(s) ==
  /\ s.job.concurrency \in {"", "Allow", "Forbid", "Replace"}
  /\ s.job.restart \in {"", "Always", "OnFailure", "Never"}

ValidateBackupSpec(s) ==
  /\ validateSchedule(s)
  /\ IF s.engine = "pvc" THEN validatePVCSource(s.pvc)
                         ELSE ~s.pvc.given /\ s.host # "" /\ s.name # ""
  /\ IF S3Enabled(s) THEN s.s3.path # "" ELSE PersistenceEnabled(s)
  /\ s.secret # "" /\ validateJobPolicy(s) /\ validateRuntime(s)

\* Which of postgresSecret, mariadbSecret and redisSecret counts.
TargetEngine(s) == IF s.engine \in {"mariadb", "redis"} THEN s.engine ELSE "postgres"

ValidateRestoreSpec(s) ==
  /\ validateSchedule(s)
  /\ s.engine # "pvc"
  /\ s.host # "" /\ s.name # ""
  /\ S3Enabled(s) /\ s.s3.path # ""
  /\ s.secret # ""
  /\ s.target[TargetEngine(s)].name # ""
  /\ validateJobPolicy(s) /\ validateRuntime(s)

Validate(s) == IF s.kind = "Backup" THEN ValidateBackupSpec(s)
                                    ELSE ValidateRestoreSpec(s)

---------------------------------------------------------------------------
(* Secrets.                                                                *)

\* restoreSecretKeys: the Secret of the restore target and its two keys.
RestoreTargetSecret(s) ==
  LET t == s.target[TargetEngine(s)]
  IN [name |-> firstNonEmpty(t.name, TargetEngine(s)),
      user |-> firstNonEmpty(t.user, "username"),
      pass |-> firstNonEmpty(t.pass, "password")]

\* Mutant: the S3 keys are not asked for.
RequiredKeys_NoS3(s) ==
  (IF s.kind = "Restore"
   THEN LET t == RestoreTargetSecret(s)
        IN {<<s.secret, "s3_access_key">>, <<s.secret, "s3_secret_key">>,
            <<t.name, t.user>>, <<t.name, t.pass>>}
   ELSE IF EffectiveEngine(s) # "pvc"
   THEN {<<s.secret, "username">>, <<s.secret, "password">>} ELSE {})
  \cup {<<s.secret, "gpg_passphrase">>}

\* ensureSecret, ensureJobSecret and ensureTargetSecret ask for these keys.
RequiredKeys(s) ==
  LET t == RestoreTargetSecret(s)
      db == IF s.kind = "Restore" THEN {<<t.name, t.user>>, <<t.name, t.pass>>}
            ELSE IF EffectiveEngine(s) = "pvc" THEN {}
            ELSE {<<s.secret, "username">>, <<s.secret, "password">>}
      s3 == IF s.kind = "Restore" \/ S3Enabled(s)
            THEN {<<s.secret, "s3_access_key">>, <<s.secret, "s3_secret_key">>}
            ELSE {}
  IN {<<s.secret, "gpg_passphrase">>} \cup db \cup s3

---------------------------------------------------------------------------
(* The ConfigMap: the environment of every stage, as a function from the   *)
(* names of its variables.                                                 *)

DatabaseEnv(s) ==
  CASE EffectiveEngine(s) = "mariadb" ->
         [MYSQL_HOST |-> s.host, MYSQL_DATABASE |-> s.name]
    [] EffectiveEngine(s) = "redis" ->
         [REDIS_HOST |-> s.host, REDIS_NAME |-> s.name]
    [] EffectiveEngine(s) = "pvc" /\ s.kind = "Backup" ->
         [PVC_CLAIM_NAME |-> s.pvc.claim, PVC_SOURCE_DIR |-> "/source"]
    [] OTHER -> [PGHOST |-> s.host, PGPORT |-> "5432", PGDATABASE |-> s.name]

\* cfg: the operator's flags --default-s3-endpoint and --default-s3-bucket.
S3Env(s, cfg) == [S3_ENDPOINT |-> firstNonEmpty(s.s3.endpoint, cfg.endpoint),
                  S3_BUCKET |-> firstNonEmpty(s.s3.bucket, cfg.bucket),
                  S3_PATH |-> s.s3.path]

\* Mutant: S3_ENABLED takes an unset spec.s3.enabled for false.
MutateBackupConfigMap_Unset(s, cfg) ==
  Over([DUMP_PREFIX |-> DumpPrefix(s),
        DATA_DIR    |-> firstNonEmpty(s.dir, "/backup/data"),
        S3_ENABLED  |-> IF s.s3.enabled = "true" THEN "true" ELSE "false"],
       Over(DatabaseEnv(s), IF S3Enabled(s) THEN S3Env(s, cfg) ELSE << >>))

MutateBackupConfigMap(s, cfg) ==
  Over([DUMP_PREFIX |-> DumpPrefix(s),
        DATA_DIR    |-> firstNonEmpty(s.dir, "/backup/data"),
        S3_ENABLED  |-> IF S3Enabled(s) THEN "true" ELSE "false"],
       Over(DatabaseEnv(s), IF S3Enabled(s) THEN S3Env(s, cfg) ELSE << >>))

MutateRestoreConfigMap(s, cfg) ==
  Over([DUMP_PREFIX |-> DumpPrefix(s), WORKDIR |-> firstNonEmpty(s.dir, "/workdir")],
       Over(DatabaseEnv(s), S3Env(s, cfg)))

ConfigMapOf(s, cfg) == IF s.kind = "Backup" THEN MutateBackupConfigMap(s, cfg)
                                            ELSE MutateRestoreConfigMap(s, cfg)

\* Both refuse an endpoint or a bucket that nobody gave.
ConfigMapError(s, cfg) ==
  /\ s.kind = "Restore" \/ S3Enabled(s)
  /\ "" \in {S3Env(s, cfg).S3_ENDPOINT, S3Env(s, cfg).S3_BUCKET}

---------------------------------------------------------------------------
(* The Job template: containers, in order, and volumes.                    *)

\* Memory of the stages, in MiB: Default...Resources.
DefaultResources ==
  LET mem(r, l) == [requests |-> [memory |-> r], limits |-> [memory |-> l]]
  IN [cleanup |-> mem(32, 64), dump |-> mem(128, 192), compress |-> mem(128, 256),
      encrypt |-> mem(128, 256), s3Sync |-> mem(64, 128), fetch |-> mem(64, 128),
      decrypt |-> mem(128, 256), extract |-> mem(128, 256),
      restore |-> mem(256, 1024)]

\* Requests and limits are overridden each on its own.
mergeResources(base, over) == [requests |-> Over(over.requests, base.requests),
                               limits   |-> Over(over.limits, base.limits)]

StageResources(s, stage) ==
  IF stage \in DOMAIN s.resources
  THEN mergeResources(DefaultResources[stage], s.resources[stage])
  ELSE DefaultResources[stage]

\* Mutant: the work volume is always mounted at the default path.
newScriptContainer_Fixed(s, name, stage, mountPath, keys) ==
  [name |-> name, mount |-> "/backup/data", keys |-> keys,
   resources |-> StageResources(s, stage)]

\* keys: variable |-> <<Secret, key>>.
newScriptContainer(s, name, stage, mountPath, keys) ==
  [name |-> name, mount |-> firstNonEmpty(mountPath, "/backup/data"), keys |-> keys,
   resources |-> StageResources(s, stage)]

S3Keys(s) == [S3_ACCESS_KEY |-> <<s.secret, "s3_access_key">>,
              S3_SECRET_KEY |-> <<s.secret, "s3_secret_key">>]

\* The variables an engine's programs log in with.
Login(s, user, pass) ==
  CASE EffectiveEngine(s) = "mariadb" -> [MYSQL_USER |-> user, MYSQL_PASSWORD |-> pass]
    [] EffectiveEngine(s) = "redis" -> [REDIS_USERNAME |-> user, REDIS_PASSWORD |-> pass]
    [] EffectiveEngine(s) = "pvc" /\ s.kind = "Backup" -> << >>
    [] OTHER -> [PGUSER |-> user, PGPASSWORD |-> pass]

dumpContainer(s) ==
  newScriptContainer(s, CASE EffectiveEngine(s) = "mariadb" -> "mysqldump"
                          [] EffectiveEngine(s) = "redis"   -> "redisdump"
                          [] EffectiveEngine(s) = "pvc"     -> "pvcdump"
                          [] OTHER                          -> "pgdump",
                     "dump", "", Login(s, <<s.secret, "username">>,
                                          <<s.secret, "password">>))

\* Stages of a Backup are given no mount path.
BackupContainers(s) ==
  <<newScriptContainer(s, "cleanup", "cleanup", "", << >>),
    dumpContainer(s),
    newScriptContainer(s, "compress", "compress", "", << >>),
    newScriptContainer(s, "encrypt", "encrypt", "", << >>)>>
  \o IF S3Enabled(s) THEN <<newScriptContainer(s, "s3-sync", "s3Sync", "", S3Keys(s))>>
                     ELSE << >>

restoreEngineContainer(s, workdir) ==
  LET t == RestoreTargetSecret(s)
  IN newScriptContainer(s, CASE EffectiveEngine(s) = "mariadb" -> "mysqlrestore"
                             [] EffectiveEngine(s) = "redis"   -> "redisrestore"
                             [] OTHER                          -> "pgrestore",
                        "restore", workdir,
                        Login(s, <<t.name, t.user>>, <<t.name, t.pass>>))

RestoreContainers(s) ==
  LET workdir == firstNonEmpty(s.dir, "/workdir")
      stage(name, keys) == newScriptContainer(s, name, name, workdir, keys)
  IN <<stage("cleanup", << >>), stage("fetch", S3Keys(s)), stage("decrypt", << >>),
       stage("extract", << >>), restoreEngineContainer(s, workdir)>>

\* backupVolumes and restoreVolumes; the passphrase is mounted from the Secret.
Volumes(s) ==
  [work |-> IF PersistenceEnabled(s) THEN "claim" ELSE "emptyDir",
   gpg |-> <<s.secret, "gpg_passphrase">>,
   source |-> IF s.kind = "Backup" /\ EffectiveEngine(s) = "pvc" THEN s.pvc.claim ELSE ""]

\* MutateBackupCronJob and MutateRestoreCronJob.
TemplateOf(s) ==
  [restart |-> firstNonEmpty(s.job.restart, "Never"),
   concurrency |-> firstNonEmpty(s.job.concurrency, "Forbid"),
   containers |-> IF s.kind = "Backup" THEN BackupContainers(s)
                                       ELSE RestoreContainers(s),
   volumes |-> Volumes(s)]

\* Mutant: the claim is asked for exactly what the spec says.
ExpandPVC_Exact(size, s) == persistenceSize(s)

\* The request of the claim after ExpandPVC; size is what it was.
ExpandPVC(size, s) == IF persistenceSize(s) <= size THEN size ELSE persistenceSize(s)

---------------------------------------------------------------------------
(* What the stages' scripts do with it.                                    *)

\* The variables a script ends without (set -u, or ${X:?}).
ScriptNeeds(kind, name) ==
  (IF kind = "Backup" THEN {"DATA_DIR"} ELSE {"WORKDIR"})
  \cup CASE name \in {"s3-sync", "fetch"} ->
              {"S3_ENDPOINT", "S3_BUCKET", "S3_PATH", "S3_ACCESS_KEY", "S3_SECRET_KEY"}
         [] name \in {"mysqldump", "mysqlrestore"} ->
              {"MYSQL_HOST", "MYSQL_DATABASE", "MYSQL_USER", "MYSQL_PASSWORD"}
         [] name \in {"redisdump", "redisrestore"} -> {"REDIS_HOST", "REDIS_NAME"}
         [] name = "pvcdump" -> {"PVC_CLAIM_NAME", "PVC_SOURCE_DIR"}
         [] name = "pgdump" -> {"PGHOST", "PGPORT", "PGDATABASE"}
         [] name = "pgrestore" -> {"PGHOST", "PGPORT", "PGDATABASE", "PGUSER"}
         [] OTHER -> {}

\* The stage that writes .step-job-done with this environment.
Finishes(name, env) ==
  \/ name \in {"s3-sync", "pgrestore", "mysqlrestore", "redisrestore"}
  \/ name = "encrypt" /\ env.S3_ENABLED = "false"
=============================================================================
