-------------------------- MODULE RestorePipeline --------------------------
(***************************************************************************)
(* The restore pipeline, internal/pipeline/scripts/restore: what each stage *)
(* of a pod does between the markers of StageChain, to its scratch         *)
(* directory and to the database it restores into.  Pods run one after the *)
(* other: CronJob runs under Forbid, and the retries of a Job.             *)
(***************************************************************************)
EXTENDS StageChain

CONSTANTS
  Engine,       \* spec.engine
  Objects,      \* the dumps of the engine under S3_BUCKET/S3_PATH
  BackupFile,   \* spec.backupFile: NoObject when empty, perhaps not stored
  Fallback,     \* spec.useLatestBackupAsFallback
  DropAllowed   \* the pods started with spec.dropDatabaseIfExists true

\* A dump's name is its engine's prefix, the database and the minute.
ObjectNames == [db : Nat, at : Nat]
NoObject == [db |-> 0, at |-> 0]

ASSUME RestoreAssumption ==
  /\ Stages = {"cleanup", "fetch", "decrypt", "extract", "restore"}
  /\ ~Overlap
  /\ Engine \in {"postgres", "mariadb", "redis"}
  /\ Objects \subseteq ObjectNames \ {NoObject}
  /\ IsFiniteSet(Objects)
  /\ BackupFile \in ObjectNames
  /\ Fallback \in BOOLEAN /\ DropAllowed \subseteq Pods

VARIABLES
  files,   \* files[p]: the dump files in p's scratch directory
  src,     \* src[p]: the object p fetched last, NoObject if none
  target   \* the database restored into

data == <<files, src, target>>
vars == <<chain, data>>

PCs == ChainPCs \cup
       {"sweep", "fetching", "gpg", "gunzip", "inspect", "drop", "create",
        "filter", "filtering", "apply", "applying", "load", "copying",
        "attach", "syncing", "promote", "tidy", "tidyCopy"}

\* gpg: dump.gz.gpg;  gz: dump.gz;  plain: dump;  filtered: dump.filtered;
\* rdb: redis-data/dump.rdb, the copy a Redis server is given.
Forms == {"gpg", "gz", "plain", "filtered", "rdb"}
File == [form : Forms, q : {"torn", "whole"}]

\* live: somebody's data, which this pipeline did not just put there;
\* partial: part of a dump;  restored: all of the dump target.from.
Contents == {"none", "empty", "live", "partial", "restored"}
Targets == [data : Contents, from : ObjectNames, role : {"master", "replica"}]

TypeOK ==
  /\ ChainTypeOK(PCs)
  /\ files \in [Pods -> SUBSET File]
  /\ src \in [Pods -> ObjectNames]
  /\ target \in Targets

Init ==
  /\ ChainInit
  /\ files = [p \in Pods |-> {}]
  /\ src = [p \in Pods |-> NoObject]
  /\ \E d \in {"none", "empty", "live"} :
       /\ Engine = "redis" => d # "none"
       /\ target = [data |-> d, from |-> NoObject, role |-> "master"]

OfForm(p, form) == {f \in files[p] : f.form = form}
Is(p, form, q) == [form |-> form, q |-> q] \in files[p]
With(p, form, q) == (files[p] \ OfForm(p, form)) \cup {[form |-> form, q |-> q]}
\* What rm -f dump* leaves.
NoDumps(p) == OfForm(p, "rdb")
SetFiles(p, S) == files' = [files EXCEPT ![p] = S]
SetData(d) == target' = [target EXCEPT !.data = d, !.from = NoObject]

---------------------------------------------------------------------------
(* cleanup.sh                                                              *)

\* Every other scratch directory goes; failures are ignored.
SweepOthers(p) ==
  /\ pc[p]["cleanup"] = "work"
  /\ Go(p, "cleanup", "sweep")
  /\ \E gone \in SUBSET (Pods \ {p}) :
       /\ gone = Pods \ {p} \/ "tool" \in Faults
       /\ dir' = dir \ gone
       /\ markers' = [q \in Pods |-> IF q \in gone THEN {} ELSE markers[q]]
       /\ files' = [q \in Pods |-> IF q \in gone THEN {} ELSE files[q]]
  /\ UNCHANGED <<dead, restarts, kills, src, target>>

ClearOwn(p) ==
  /\ pc[p]["cleanup"] = "sweep"
  /\ Go(p, "cleanup", "finish")
  /\ markers' = [markers EXCEPT ![p] = {}]
  /\ SetFiles(p, NoDumps(p))
  /\ UNCHANGED <<dir, dead, restarts, kills, src, target>>

---------------------------------------------------------------------------
(* fetch.sh                                                                *)

\* sort orders the listing by name: first the database, then the minute.
Precedes(o, r) == o.db < r.db \/ (o.db = r.db /\ o.at < r.at)

\* Mutant: head instead of tail.
LatestByName_First(L) == CHOOSE o \in L : \A r \in L \ {o} : Precedes(o, r)

LatestByName(L) == CHOOSE o \in L : \A r \in L \ {o} : Precedes(r, o)

\* mc find | sort | tail: a listing that breaks off goes unnoticed.
Listings == IF "tool" \in Faults THEN SUBSET Objects ELSE {Objects}

\* mc stat fails for any reason, not only for a missing object.
StatFails == BackupFile \notin Objects \/ "tool" \in Faults

Sources == {o \in {BackupFile} : o \in Objects}
             \cup {LatestByName(L) : L \in {K \in Listings \ {{}} :
                                            Fallback /\ StatFails}}

FetchStart(p) ==
  /\ pc[p]["fetch"] = "work"
  /\ \E o \in Sources : src' = [src EXCEPT ![p] = o]
  /\ SetFiles(p, NoDumps(p) \cup {[form |-> "gpg", q |-> "torn"]})
  /\ Go(p, "fetch", "fetching")
  /\ UNCHANGED <<markers, dir, dead, restarts, kills, target>>

\* No listing, no agreement to take the latest, or mc itself fails.
FetchNone(p) ==
  /\ pc[p]["fetch"] = "work"
  /\ \/ "tool" \in Faults
     \/ BackupFile \notin Objects /\ (~Fallback \/ Objects = {})
  /\ SetFiles(p, NoDumps(p))
  /\ Exit1(p, "fetch")
  /\ UNCHANGED <<dir, dead, restarts, kills, src, target>>

FetchEnds(p) ==
  /\ pc[p]["fetch"] = "fetching"
  /\ \/ Go(p, "fetch", "finish") /\ SetFiles(p, With(p, "gpg", "whole"))
        /\ UNCHANGED markers
     \/ "tool" \in Faults /\ Exit1(p, "fetch") /\ UNCHANGED files
  /\ UNCHANGED <<dir, dead, restarts, kills, src, target>>

---------------------------------------------------------------------------
(* decrypt.sh and extract.sh                                               *)

\* test -s, then gpg --yes, which writes over a dump.gz.
DecryptStart(p) ==
  /\ pc[p]["decrypt"] = "work"
  /\ IF OfForm(p, "gpg") # {}
     THEN /\ Go(p, "decrypt", "gpg") /\ SetFiles(p, With(p, "gz", "torn"))
          /\ UNCHANGED markers
     ELSE Exit1(p, "decrypt") /\ UNCHANGED files
  /\ UNCHANGED <<dir, dead, restarts, kills, src, target>>

DecryptEnds(p) ==
  /\ pc[p]["decrypt"] = "gpg"
  /\ \/ /\ Is(p, "gpg", "whole")
        /\ Go(p, "decrypt", "finish")
        /\ SetFiles(p, With(p, "gz", "whole") \ OfForm(p, "gpg"))
        /\ UNCHANGED markers
     \/ /\ "tool" \in Faults \/ ~Is(p, "gpg", "whole")
        /\ Exit1(p, "decrypt") /\ UNCHANGED files
  /\ UNCHANGED <<dir, dead, restarts, kills, src, target>>

\* test -s, then gzip -d, which refuses to write over a dump.
ExtractStart(p) ==
  /\ pc[p]["extract"] = "work"
  /\ IF OfForm(p, "gz") # {} /\ OfForm(p, "plain") = {}
     THEN /\ Go(p, "extract", "gunzip") /\ SetFiles(p, With(p, "plain", "torn"))
          /\ UNCHANGED markers
     ELSE Exit1(p, "extract") /\ UNCHANGED files
  /\ UNCHANGED <<dir, dead, restarts, kills, src, target>>

\* gzip removes its input when it succeeds and its output when it fails.
ExtractEnds(p) ==
  /\ pc[p]["extract"] = "gunzip"
  /\ \/ /\ Is(p, "gz", "whole")
        /\ Go(p, "extract", "finish")
        /\ SetFiles(p, With(p, "plain", "whole") \ OfForm(p, "gz"))
        /\ UNCHANGED markers
     \/ /\ "tool" \in Faults \/ ~Is(p, "gz", "whole")
        /\ Exit1(p, "extract") /\ SetFiles(p, files[p] \ OfForm(p, "plain"))
  /\ UNCHANGED <<dir, dead, restarts, kills, src, target>>

---------------------------------------------------------------------------
(* pgrestore.sh, mysqlrestore.sh and redisrestore.sh: the target           *)

\* test -f of the dump.
RestoreStart(p) ==
  /\ pc[p]["restore"] = "work"
  /\ IF OfForm(p, "plain") # {}
     THEN Go(p, "restore", "inspect") /\ UNCHANGED markers
     ELSE Exit1(p, "restore")
  /\ UNCHANGED <<dir, dead, restarts, kills, data>>

Proceed == IF Engine = "redis" THEN "load" ELSE "filter"

\* Mutant: the target is dropped without asking for agreement.
Inspect_NoAgreement(p) ==
  /\ pc[p]["restore"] = "inspect"
  /\ Go(p, "restore", CASE target.data = "none"  -> "create"
                        [] target.data = "empty" -> Proceed
                        [] OTHER -> IF Engine = "redis" THEN "load" ELSE "drop")
  /\ UNCHANGED <<markers, dir, dead, restarts, kills, data>>

\* Does the target exist, and is it empty?  A non-empty one is replaced only
\* with drop_allowed.  mysqlrestore.sh takes a failing count for zero.
Inspect(p) ==
  /\ pc[p]["restore"] = "inspect"
  /\ \/ target.data = "none" /\ Go(p, "restore", "create") /\ UNCHANGED markers
     \/ target.data = "empty" /\ Go(p, "restore", Proceed) /\ UNCHANGED markers
     \/ /\ target.data \notin {"none", "empty"}
        /\ IF p \in DropAllowed
           THEN /\ Go(p, "restore", IF Engine = "redis" THEN "load" ELSE "drop")
                /\ UNCHANGED markers
           ELSE Exit1(p, "restore")
     \/ /\ Engine = "mariadb" /\ "tool" \in Faults /\ target.data # "none"
        /\ Go(p, "restore", "filter") /\ UNCHANGED markers
  /\ UNCHANGED <<dir, dead, restarts, kills, data>>

DropDatabase(p) ==
  /\ pc[p]["restore"] = "drop"
  /\ Go(p, "restore", "create")
  /\ SetData("none")
  /\ UNCHANGED <<markers, dir, dead, restarts, kills, files, src>>

CreateDatabase(p) ==
  /\ pc[p]["restore"] = "create"
  /\ Go(p, "restore", "filter")
  /\ SetData("empty")
  /\ UNCHANGED <<markers, dir, dead, restarts, kills, files, src>>

\* sed reads the dump and writes dump.filtered; then the dump is removed.
FilterStart(p) ==
  /\ pc[p]["restore"] = "filter"
  /\ Go(p, "restore", "filtering")
  /\ SetFiles(p, With(p, "filtered", "torn"))
  /\ UNCHANGED <<markers, dir, dead, restarts, kills, src, target>>

FilterEnds(p) ==
  /\ pc[p]["restore"] = "filtering"
  /\ Go(p, "restore", "apply")
  /\ SetFiles(p, (IF Is(p, "plain", "whole") THEN With(p, "filtered", "whole")
                                             ELSE files[p]) \ OfForm(p, "plain"))
  /\ UNCHANGED <<markers, dir, dead, restarts, kills, src, target>>

\* psql -f / mariadb < : the target is changed statement by statement.
ApplyStart(p) ==
  /\ pc[p]["restore"] = "apply"
  /\ Go(p, "restore", "applying")
  /\ SetData("partial")
  /\ UNCHANGED <<markers, dir, dead, restarts, kills, files, src>>

Filled(p) == [target EXCEPT !.data = "restored", !.from = src[p]]

ApplyOk(p) ==
  /\ pc[p]["restore"] = "applying"
  /\ Go(p, "restore", "tidy")
  /\ target' = IF Is(p, "filtered", "whole") THEN Filled(p) ELSE target
  /\ UNCHANGED <<markers, dir, dead, restarts, kills, files, src>>

---------------------------------------------------------------------------
(* redisrestore.sh: the target becomes a replica of a server in the pod    *)

\* cp -f of the dump, in the clear, to redis-data.
CopyRdb(p) ==
  /\ pc[p]["restore"] = "load"
  /\ Go(p, "restore", "copying")
  /\ SetFiles(p, With(p, "rdb", "torn"))
  /\ UNCHANGED <<markers, dir, dead, restarts, kills, src, target>>

\* A server loads the copy, and is asked until it has.
LoadRdb(p) ==
  /\ pc[p]["restore"] = "copying"
  /\ Go(p, "restore", "attach")
  /\ SetFiles(p, IF Is(p, "plain", "whole") THEN With(p, "rdb", "whole")
                                            ELSE files[p])
  /\ UNCHANGED <<markers, dir, dead, restarts, kills, src, target>>

Attach(p) ==
  /\ pc[p]["restore"] = "attach"
  /\ Go(p, "restore", "syncing")
  /\ target' = [target EXCEPT !.role = "replica"]
  /\ UNCHANGED <<markers, dir, dead, restarts, kills, files, src>>

\* The target drops its own data set and begins to receive the other.
SyncBegins(p) ==
  /\ pc[p]["restore"] = "syncing" /\ target.role = "replica"
  /\ target.data # "partial"
  /\ SetData("partial")
  /\ UNCHANGED <<chain, files, src>>

SyncOk(p) ==
  /\ pc[p]["restore"] = "syncing" /\ target.data = "partial"
  /\ Go(p, "restore", "promote")
  /\ target' = IF Is(p, "rdb", "whole") THEN Filled(p) ELSE target
  /\ UNCHANGED <<markers, dir, dead, restarts, kills, files, src>>

\* Mutant: giving up leaves the target as it is.
SyncTimesOut_NoPromote(p) ==
  /\ "sync" \in Faults
  /\ pc[p]["restore"] = "syncing"
  /\ Exit1(p, "restore")
  /\ UNCHANGED <<dir, dead, restarts, kills, files, src, target>>

\* After an hour: REPLICAOF NO ONE || true, and the stage fails.
SyncTimesOut(p) ==
  /\ "sync" \in Faults
  /\ pc[p]["restore"] = "syncing"
  /\ Exit1(p, "restore")
  /\ \/ target' = [target EXCEPT !.role = "master"]
     \/ "tool" \in Faults /\ UNCHANGED target
  /\ UNCHANGED <<dir, dead, restarts, kills, files, src>>

Promote(p) ==
  /\ pc[p]["restore"] = "promote"
  /\ Go(p, "restore", "tidy")
  /\ target' = [target EXCEPT !.role = "master"]
  /\ UNCHANGED <<markers, dir, dead, restarts, kills, files, src>>

---------------------------------------------------------------------------
(* The end of the restore stage                                            *)

\* rm -f dump*; then the marker, or for Redis the copy first.
Tidy(p) ==
  /\ pc[p]["restore"] = "tidy"
  /\ Go(p, "restore", IF Engine = "redis" THEN "tidyCopy" ELSE "finish")
  /\ SetFiles(p, NoDumps(p))
  /\ UNCHANGED <<markers, dir, dead, restarts, kills, src, target>>

\* Mutant: the copy is left to the removal of the scratch directory.
RemoveCopy_Later(p) ==
  /\ pc[p]["restore"] = "tidyCopy"
  /\ Go(p, "restore", "finish")
  /\ UNCHANGED <<markers, dir, dead, restarts, kills, data>>

\* rm -rf redis-data.
RemoveCopy(p) ==
  /\ pc[p]["restore"] = "tidyCopy"
  /\ Go(p, "restore", "finish")
  /\ SetFiles(p, files[p] \ OfForm(p, "rdb"))
  /\ UNCHANGED <<markers, dir, dead, restarts, kills, src, target>>

\* Mutant: the scratch directory goes as soon as the marker is written.
RemoveScratch_AtOnce(p) ==
  /\ pc[p]["restore"] = "linger"
  /\ Go(p, "restore", "ok")
  /\ dir' = dir \ {p}
  /\ markers' = [markers EXCEPT ![p] = {}]
  /\ SetFiles(p, {})
  /\ UNCHANGED <<dead, restarts, kills, src, target>>

\* sleep 20, then rm -rf.  Peers poll every 5 s (2 s in wait_for), so none is
\* still polling unless it stalls.
RemoveScratch(p) ==
  /\ pc[p]["restore"] = "linger"
  /\ \/ "stall" \in Faults
     \/ \A s \in Stages : pc[p][s] \notin {"wait", "hold"}
  /\ Go(p, "restore", "ok")
  /\ dir' = dir \ {p}
  /\ markers' = [markers EXCEPT ![p] = {}]
  /\ SetFiles(p, {})
  /\ UNCHANGED <<dead, restarts, kills, src, target>>

\* Any program of the stage exits non-zero, the summaries after the restore
\* and the final rm -rf included.
RestoreFails(p) ==
  /\ "tool" \in Faults
  /\ pc[p]["restore"] \in {"work", "inspect", "drop", "create", "filter",
       "filtering", "apply", "applying", "load", "copying", "attach", "promote",
       "tidy", "tidyCopy", "linger"}
  /\ Exit1(p, "restore")
  /\ UNCHANGED <<dir, dead, restarts, kills, data>>

---------------------------------------------------------------------------
(* The whole system                                                        *)

\* Applications write to a restored database once the run is over.
Use ==
  /\ target.data = "restored" /\ target.role = "master"
  /\ \A p \in Pods : Ended(p) \/ pc[p]["cleanup"] = "none"
  /\ SetData("live")
  /\ UNCHANGED <<chain, files, src>>

Cleanup(p) == SweepOthers(p) \/ ClearOwn(p)
Fetch(p) == FetchStart(p) \/ FetchNone(p) \/ FetchEnds(p)
Unpack(p) ==
  DecryptStart(p) \/ DecryptEnds(p) \/ ExtractStart(p) \/ ExtractEnds(p)
Load(p) ==
  \/ RestoreStart(p) \/ Inspect(p) \/ DropDatabase(p) \/ CreateDatabase(p)
  \/ FilterStart(p) \/ FilterEnds(p) \/ ApplyStart(p) \/ ApplyOk(p)
Replicate(p) ==
  \/ CopyRdb(p) \/ LoadRdb(p) \/ Attach(p) \/ SyncBegins(p) \/ SyncOk(p)
  \/ SyncTimesOut(p) \/ Promote(p)
Finish(p) == Tidy(p) \/ RemoveCopy(p) \/ RemoveScratch(p)

Next ==
  \/ \E p \in Pods :
       \/ Cleanup(p) \/ Fetch(p) \/ Unpack(p) \/ Load(p) \/ Replicate(p)
       \/ Finish(p) \/ RestoreFails(p)
       \/ UNCHANGED data /\ \/ StartPod(p) \/ BackoffExceeded(p) \/ Evict(p)
                            \/ \E s \in Stages : Poll(p, s) \/ TimesOut(p, s)
                                                  \/ Restart(p, s) \/ Kill(p, s)
  \/ Use
  \/ AllEnded /\ UNCHANGED vars

\* As for backups: programs end (the sync loop gives up after an hour),
\* polling loops poll, the kubelet and the Job controller reconcile.
Fairness ==
  \A p \in Pods :
    /\ WF_vars(UNCHANGED data /\ StartPod(p))
    /\ WF_vars(Cleanup(p)) /\ WF_vars(Fetch(p)) /\ WF_vars(Unpack(p))
    /\ WF_vars(Load(p)) /\ WF_vars(Replicate(p)) /\ WF_vars(Finish(p))
    /\ \A s \in Stages : /\ WF_vars(UNCHANGED data /\ Poll(p, s))
                         /\ WF_vars(UNCHANGED data /\ TimesOut(p, s))
                         /\ WF_vars(UNCHANGED data /\ Restart(p, s))
    /\ WF_vars(UNCHANGED data /\ BackoffExceeded(p))

Spec == Init /\ [][Next]_vars
FairSpec == Spec /\ Fairness

---------------------------------------------------------------------------
(* Properties                                                              *)

\* Data that this pipeline did not put there is replaced only by a run with
\* spec.dropDatabaseIfExists, however often other runs fail and are retried.
LiveDataKept ==
  [][target.data = "live" =>
       \/ target'.data = "live"
       \/ \E p \in DropAllowed : ~Ended(p) /\ pc[p]["cleanup"] # "none"]_vars

\* When the restore stage releases its peers, the target holds all of the
\* dump that was fetched and accepts writes.
DoneMeansRestored ==
  \A p \in Pods : ~Ended(p) /\ "job-done" \in markers[p] =>
    target = [data |-> "restored", from |-> src[p], role |-> "master"]

\* What is fetched is BACKUP_FILE if it is stored, and otherwise the newest
\* dump there is.
SourceIsWanted ==
  \A p \in Pods : src[p] # NoObject =>
    \/ src[p] = BackupFile
    \/ BackupFile \notin Objects /\ \A o \in Objects : o.at <= src[p].at

\* A Redis target is a replica only while a pod has it sync: a run that
\* gives up hands it back writable (one that is killed or deleted cannot).
ReplicaOnlyWhileSyncing ==
  target.role = "replica" /\ kills = 0 /\ dead = {} =>
    \E p \in Pods : pc[p]["restore"] \in {"syncing", "promote"}

\* A run that succeeded leaves no decrypted dump on the volume, neither the
\* dump nor the copy made for a Redis server, also when it was killed before it
\* could remove its directory and was restarted.
NothingLeftBehind ==
  \A p \in Pods : Succeeded(p) => files[p] = {}
=============================================================================
