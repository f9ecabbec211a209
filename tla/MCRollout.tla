----------------------------- MODULE MCRollout -----------------------------
(* Instances of Rollout for TLC: see the .cfg files named Rollout*.         *)
EXTENDS Rollout, TLC

NoPVC == [given |-> FALSE, claim |-> "", path |-> "", excludes |-> "", selector |-> ""]
NoTarget == [name |-> "", user |-> "", pass |-> ""]

Backup ==
  [kind |-> "Backup", engine |-> "", schedule |-> "cron", host |-> "db", name |-> "app",
   pvc |-> NoPVC, s3 |-> [enabled |-> "", endpoint |-> "", bucket |-> "backups", path |-> "app"],
   secret |-> "backup", target |-> [e \in Engines |-> NoTarget],
   persistence |-> [enabled |-> "", size |-> 0], dir |-> "",
   job |-> [restart |-> "", concurrency |-> ""], mode |-> "", resources |-> << >>]

Archive(claimName) ==
  [Backup EXCEPT !.engine = "pvc", !.host = "", !.name = "",
                 !.pvc = [NoPVC EXCEPT !.given = TRUE, !.claim = claimName]]

Restore == [Backup EXCEPT !.kind = "Restore", !.target["postgres"].name = "postgres"]

\* Every engine, S3 and persistence in every combination, growing and
\* shrinking claims, what the API server refuses, what admission refuses.
BackupSpecs ==
  [postgres  |-> Backup,
   mariadb   |-> [Backup EXCEPT !.engine = "mariadb"],
   redis     |-> [Backup EXCEPT !.engine = "redis"],
   other     |-> [Backup EXCEPT !.engine = "other"],
   archive   |-> Archive("data"),
   exclusive |-> Archive("exclusive"),
   gone      |-> Archive("gone"),
   own       |-> Archive("own"),
   local     |-> [Backup EXCEPT !.s3.enabled = "false"],
   volatile  |-> [Backup EXCEPT !.engine = "mariadb", !.persistence.enabled = "false"],
   nowhere   |-> [Backup EXCEPT !.s3.enabled = "false", !.persistence.enabled = "false"],
   large     |-> [Backup EXCEPT !.persistence.size = 3],
   pathless  |-> [Backup EXCEPT !.s3.path = ""],
   nobucket  |-> [Backup EXCEPT !.s3.bucket = ""],
   always    |-> [Backup EXCEPT !.job.restart = "Always"],
   holder    |-> [Backup EXCEPT !.mode = "CronJobWithVolumeHolder",
                                !.persistence.enabled = "false"],
   greedy    |-> [Backup EXCEPT !.resources =
                    [dump |-> [requests |-> [memory |-> 512], limits |-> << >>]]]]

RestoreSpecs ==
  [rpostgres |-> Restore,
   rmariadb  |-> [Restore EXCEPT !.engine = "mariadb"],
   rredis    |-> [Restore EXCEPT !.engine = "redis", !.target["redis"] =
                    [name |-> "cache", user |-> "", pass |-> "secret"]],
   rscratch  |-> [Restore EXCEPT !.dir = "/scratch", !.persistence.enabled = "false"],
   rarchive  |-> [Restore EXCEPT !.engine = "pvc"],
   rlocal    |-> [Restore EXCEPT !.s3.enabled = "false"]]

AllSpecs == BackupSpecs @@ RestoreSpecs

\* Three ConfigMaps; the two that create no Jobs have the containers of "large"
\* and "volatile".
BusyNames == {"local", "postgres", "mariadb"}
DueNames == DOMAIN AllSpecs \ {"postgres", "mariadb"}

Flags == [endpoint |-> "https://s3", bucket |-> ""]

JobKeys(n) == {n} \X {"gpg_passphrase", "s3_access_key", "s3_secret_key"}
Login2(n) == {n} \X {"username", "password"}
AllKeys == JobKeys("backup") \cup Login2("backup") \cup Login2("postgres")
             \cup {<<"cache", "username">>, <<"cache", "secret">>}
Secrets == {AllKeys, AllKeys \ {<<"backup", "s3_access_key">>, <<"backup", "password">>},
            AllKeys \ ({<<"backup", "username">>, <<"cache", "username">>}
                         \cup Login2("postgres"))}
SourceClaims == [data |-> "RWO", exclusive |-> "RWOP"]
=============================================================================
