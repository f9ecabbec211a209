-------------------------- MODULE BackupPipeline --------------------------
(***************************************************************************)
(* The backup pipeline, internal/pipeline/scripts/backup: what each stage  *)
(* of a pod does between the markers of StageChain.                        *)
(*                                                                         *)
(* Time is counted in ticks.  Two dumps begun in the same tick carry the   *)
(* same name, as two dumps of the same minute do, and the retention        *)
(* windows are counted in the same ticks.                                  *)
(***************************************************************************)
EXTENDS StageChain

CONSTANTS
  Engine,      \* spec.engine
  SameMinute,  \* two pods may begin their dumps in the same minute
  LocalKeep,   \* LOCAL_RETENTION_DAYS
  S3Keep,      \* S3_RETENTION_DAYS
  MaxTime      \* bound on the clock

ASSUME ConstantsAssumption ==
  /\ {"dump", "compress", "encrypt"} \subseteq Stages
  /\ Stages \subseteq {"cleanup", "dump", "compress", "encrypt", "s3-sync"}
  /\ LocalKeep \in Nat /\ S3Keep \in Nat /\ MaxTime \in Nat
  /\ SameMinute \in BOOLEAN
  /\ Engine \in {"postgres", "mariadb", "redis", "pvc"}

VARIABLES
  files,     \* files[p]: the dump files in p's scratch directory
  name,      \* name[p]: the minute in the name of p's last dump, 0 if none
  sweep,     \* sweep[p]: directories p's cleanup has still to remove
  retained,  \* the files in retained/
  s3,        \* the objects under S3_BUCKET/S3_PATH
  now        \* the clock

data == <<files, name, sweep, retained, s3, now>>
vars == <<chain, data>>

\* spec.s3.enabled adds the s3-sync container to the pod.
S3Enabled == "s3-sync" \in Stages

PCs == ChainPCs \cup
       {"prune", "sweep", "dumping", "rewrite", "sed", "gzip", "gpg", "copy",
        "copying", "more"}
Forms == {"plain", "sedtmp", "gz", "gpg"}

\* torn: cut short by the program writing it;  half: complete, but made from
\* a dump that was cut short;  whole: the dump the run set out to take.
Qualities == {"torn", "half", "whole"}
File == [name : Nat, form : Forms, q : Qualities]
Stored == [name : Nat, form : Forms, q : Qualities, at : Nat]

TypeOK ==
  /\ ChainTypeOK(PCs)
  /\ files \in [Pods -> SUBSET File]
  /\ name \in [Pods -> Nat]
  /\ sweep \in [Pods -> SUBSET (Pods \X {"entries", "rmdir"})]
  /\ retained \subseteq Stored
  /\ s3 \subseteq Stored
  /\ now \in Nat

Init ==
  /\ ChainInit
  /\ files = [p \in Pods |-> {}]
  /\ name = [p \in Pods |-> 0]
  /\ sweep = [p \in Pods |-> {}]
  /\ retained = {}
  /\ s3 = {}
  /\ now = 1

---------------------------------------------------------------------------
(* cleanup.sh                                                              *)

ClearMarkers(p) ==
  /\ pc[p]["cleanup"] = "work"
  /\ Go(p, "cleanup", "prune")
  /\ markers' = [markers EXCEPT ![p] = {}]
  /\ UNCHANGED <<dir, files, name, sweep, retained, s3, now, dead, restarts,
                 kills>>

ExpiredLocal == {r \in retained : now - r.at > LocalKeep}

\* find -mtime | rm -f ... || true, then the list of directories to remove.
PruneLocal(p) ==
  /\ pc[p]["cleanup"] = "prune"
  /\ Go(p, "cleanup", "sweep")
  /\ \E gone \in SUBSET ExpiredLocal :
       /\ gone = ExpiredLocal \/ "tool" \in Faults
       /\ retained' = retained \ gone
  /\ sweep' = [sweep EXCEPT ![p] = (dir \ {p}) \X {"entries"}]
  /\ UNCHANGED <<markers, dir, files, name, s3, now, dead, restarts, kills>>

\* rm -rf removes what is in a directory and then the directory, which fails
\* when something was written there in between; failures are ignored.
SweepEntries(p, q) ==
  /\ pc[p]["cleanup"] = "sweep" /\ <<q, "entries">> \in sweep[p]
  /\ sweep' = [sweep EXCEPT ![p] = (@ \ {<<q, "entries">>})
                                     \cup {<<q, "rmdir">>}]
  /\ files' = [files EXCEPT ![q] = {}]
  /\ markers' = [markers EXCEPT ![q] = {}]
  /\ UNCHANGED <<pc, dir, name, retained, s3, now, dead, restarts, kills>>

SweepDir(p, q) ==
  /\ pc[p]["cleanup"] = "sweep" /\ <<q, "rmdir">> \in sweep[p]
  /\ sweep' = [sweep EXCEPT ![p] = @ \ {<<q, "rmdir">>}]
  /\ dir' = IF files[q] = {} /\ markers[q] = {} THEN dir \ {q} ELSE dir
  /\ UNCHANGED <<pc, markers, files, name, retained, s3, now, dead, restarts,
                 kills>>

SweepOver(p) ==
  /\ pc[p]["cleanup"] = "sweep" /\ sweep[p] = {}
  /\ Go(p, "cleanup", "finish")
  /\ UNCHANGED <<markers, dir, files, name, sweep, retained, s3, now, dead,
                 restarts, kills>>

---------------------------------------------------------------------------
(* pgdump.sh, mysqldump.sh, redisdump.sh, pvcdump.sh                       *)

Plain(n, q) == [name |-> n, form |-> "plain", q |-> q]
SedTmp(n) == [name |-> n, form |-> "sedtmp", q |-> "torn"]
OfForm(p, form) == {f \in files[p] : f.form = form}
Named(S, n) == {f \in S : f.name = n}

\* The program opens its output, cutting off a file of the same name.  The
\* heartbeat's touch fails first when the scratch directory is gone.
DumpStart(p) ==
  /\ pc[p]["dump"] = "work"
  /\ SameMinute \/ \A q \in Pods \ {p} : name[q] # now
  /\ IF p \in dir
     THEN /\ Go(p, "dump", "dumping")
          /\ files' = [files EXCEPT ![p] =
               (@ \ Named(OfForm(p, "plain"), now)) \cup {Plain(now, "torn")}]
          /\ name' = [name EXCEPT ![p] = now]
          /\ UNCHANGED markers
     ELSE Exit1(p, "dump") /\ UNCHANGED <<files, name>>
  /\ UNCHANGED <<dir, sweep, retained, s3, now, dead, restarts, kills>>

\* The program exits 0 (tar: 0 or 1).  A file removed under it stays removed.
DumpOk(p) ==
  /\ pc[p]["dump"] = "dumping"
  /\ Go(p, "dump", IF Engine = "postgres" THEN "rewrite" ELSE "finish")
  /\ files' = [files EXCEPT ![p] =
       IF Plain(name[p], "torn") \in @
       THEN (@ \ {Plain(name[p], "torn")}) \cup {Plain(name[p], "whole")}
       ELSE @]
  /\ UNCHANGED <<markers, dir, name, sweep, retained, s3, now, dead, restarts,
                 kills>>

\* Mutant: the exit status of the dump program is not looked at.
DumpFails_Ignored(p) ==
  /\ "tool" \in Faults
  /\ pc[p]["dump"] = "dumping"
  /\ Go(p, "dump", "finish")
  /\ UNCHANGED <<markers, dir, files, name, sweep, retained, s3, now, dead,
                 restarts, kills>>

\* The program exits non-zero and its partial output stays.
DumpFails(p) ==
  /\ "tool" \in Faults
  /\ pc[p]["dump"] \in {"work", "dumping"}
  /\ Exit1(p, "dump")
  /\ UNCHANGED <<dir, files, name, sweep, retained, s3, now, dead, restarts,
                 kills>>

\* sed -i writes a copy of the dump beside it, and renames it at the end.
RewriteStart(p) ==
  /\ pc[p]["dump"] = "rewrite"
  /\ IF Plain(name[p], "whole") \in files[p]
     THEN /\ Go(p, "dump", "sed")
          /\ files' = [files EXCEPT ![p] = @ \cup {SedTmp(name[p])}]
          /\ UNCHANGED markers
     ELSE Exit1(p, "dump") /\ UNCHANGED files
  /\ UNCHANGED <<dir, name, sweep, retained, s3, now, dead, restarts, kills>>

RewriteEnds(p) ==
  /\ pc[p]["dump"] = "sed"
  /\ files' = [files EXCEPT ![p] = @ \ {SedTmp(name[p])}]
  /\ \/ /\ SedTmp(name[p]) \in files[p]
        /\ Go(p, "dump", "finish")
        /\ UNCHANGED markers
     \/ /\ "tool" \in Faults \/ SedTmp(name[p]) \notin files[p]
        /\ Exit1(p, "dump")
  /\ UNCHANGED <<dir, name, sweep, retained, s3, now, dead, restarts, kills>>

\* A psql summary fails under ON_ERROR_STOP, after the dump is complete.
SummaryFails(p) ==
  /\ "tool" \in Faults /\ Engine = "postgres"
  /\ pc[p]["dump"] = "finish"
  /\ Exit1(p, "dump")
  /\ UNCHANGED <<dir, files, name, sweep, retained, s3, now, dead, restarts,
                 kills>>

---------------------------------------------------------------------------
(* compress.sh and encrypt.sh                                              *)

Packed(q) == IF q = "torn" THEN "half" ELSE q
First(S) == {f \in S : \A g \in S : f.name <= g.name}
Last(S) == {f \in S : \A g \in S : g.name <= f.name}
Output(f, form, q) == [name |-> f.name, form |-> form, q |-> q]

\* The loops over a glob take the files by name.  A stage that finds none at
\* its start fails; gzip refuses to write over an existing .gz.
GzipStart(p) ==
  /\ pc[p]["compress"] \in {"work", "more"}
  /\ \E f \in First(OfForm(p, "plain")) :
       IF Named(OfForm(p, "gz"), f.name) = {}
       THEN /\ Go(p, "compress", "gzip")
            /\ files' = [files EXCEPT ![p] = @ \cup {Output(f, "gz", "torn")}]
            /\ UNCHANGED markers
       ELSE Exit1(p, "compress") /\ UNCHANGED files
  /\ UNCHANGED <<dir, name, sweep, retained, s3, now, dead, restarts, kills>>

GzipOk(p) ==
  /\ pc[p]["compress"] = "gzip"
  /\ \E f \in First(OfForm(p, "plain")) :
       files' = [files EXCEPT ![p] =
         (@ \ {f, Output(f, "gz", "torn")})
            \cup {Output(f, "gz", Packed(f.q))}]
  /\ Go(p, "compress", "more")
  /\ UNCHANGED <<markers, dir, name, sweep, retained, s3, now, dead, restarts,
                 kills>>

\* gzip removes its partial output when it fails.
GzipFails(p) ==
  /\ pc[p]["compress"] = "gzip"
  /\ "tool" \in Faults \/ OfForm(p, "plain") = {}
  /\ files' = [files EXCEPT ![p] =
       @ \ {Output(f, "gz", "torn") : f \in First(OfForm(p, "plain"))}]
  /\ Exit1(p, "compress")
  /\ UNCHANGED <<dir, name, sweep, retained, s3, now, dead, restarts, kills>>

\* gpg --yes writes over an existing .gpg.
GpgStart(p) ==
  /\ pc[p]["encrypt"] \in {"work", "more"}
  /\ \E f \in First(OfForm(p, "gz")) :
       files' = [files EXCEPT ![p] = (@ \ Named(OfForm(p, "gpg"), f.name))
                                       \cup {Output(f, "gpg", "torn")}]
  /\ Go(p, "encrypt", "gpg")
  /\ UNCHANGED <<markers, dir, name, sweep, retained, s3, now, dead, restarts,
                 kills>>

\* gpg completes and the .gz is removed.
GpgOk(p) ==
  /\ pc[p]["encrypt"] = "gpg"
  /\ \E f \in First(OfForm(p, "gz")) :
       files' = [files EXCEPT ![p] =
         (@ \ {f, Output(f, "gpg", "torn")})
            \cup {Output(f, "gpg", Packed(f.q))}]
  /\ Go(p, "encrypt", "copy")
  /\ UNCHANGED <<markers, dir, name, sweep, retained, s3, now, dead, restarts,
                 kills>>

\* gpg fails, or rm "$f" finds the .gz already gone.
GpgFails(p) ==
  /\ pc[p]["encrypt"] = "gpg"
  /\ "tool" \in Faults \/ OfForm(p, "gz") = {}
  /\ Exit1(p, "encrypt")
  /\ UNCHANGED <<dir, files, name, sweep, retained, s3, now, dead, restarts,
                 kills>>

Copied(f, q) == [name |-> f.name, form |-> f.form, q |-> q, at |-> now]

\* cp -f cuts off a retained copy of the same name before it writes.
CopyStart(p) ==
  /\ pc[p]["encrypt"] = "copy"
  /\ \/ \E f \in Last(OfForm(p, "gpg")) :
          /\ Go(p, "encrypt", "copying")
          /\ retained' = (retained \ Named(retained, f.name))
                            \cup {Copied(f, "torn")}
          /\ UNCHANGED markers
     \/ /\ OfForm(p, "gpg") = {}
        /\ Exit1(p, "encrypt")
        /\ UNCHANGED retained
  /\ UNCHANGED <<dir, files, name, sweep, s3, now, dead, restarts, kills>>

\* Mutant: cp -f ... || true.
CopyEnds_Ignored(p) ==
  /\ pc[p]["encrypt"] = "copying"
  /\ Go(p, "encrypt", "more")
  /\ UNCHANGED <<markers, dir, files, name, sweep, retained, s3, now, dead,
                 restarts, kills>>

CopyEnds(p) ==
  /\ pc[p]["encrypt"] = "copying"
  /\ \/ \E f \in Last(OfForm(p, "gpg")) :
          /\ Go(p, "encrypt", "more")
          /\ retained' = (retained \ Named(retained, f.name))
                            \cup {Copied(f, f.q)}
          /\ UNCHANGED markers
     \/ /\ "tool" \in Faults \/ OfForm(p, "gpg") = {}
        /\ Exit1(p, "encrypt")
        /\ UNCHANGED retained
  /\ UNCHANGED <<dir, files, name, sweep, s3, now, dead, restarts, kills>>

Input(s) == IF s = "compress" THEN "plain" ELSE "gz"

\* The loop is over ("more"), or there was nothing to do ("work").
LoopOver(p, s) ==
  /\ s \in {"compress", "encrypt"}
  /\ OfForm(p, Input(s)) = {}
  /\ \/ pc[p][s] = "more" /\ Go(p, s, "finish") /\ UNCHANGED markers
     \/ pc[p][s] = "work" /\ Exit1(p, s)
  /\ UNCHANGED <<dir, files, name, sweep, retained, s3, now, dead, restarts,
                 kills>>

---------------------------------------------------------------------------
(* s3-sync.sh                                                              *)

Object(f) == [name |-> f.name, form |-> f.form, q |-> f.q, at |-> now]
Clash(f) == \E o \in s3 : o.name = f.name /\ o.form = f.form

\* Mutant: .step-job-done is written as soon as the upload is over.
Mirror_EarlyDone(p) ==
  /\ pc[p]["s3-sync"] = "work" /\ p \in dir
  /\ s3' = s3 \cup {Object(f) : f \in {g \in files[p] : ~Clash(g)}}
  /\ TouchThen(p, "s3-sync", "job-done", "prune")
  /\ UNCHANGED <<dir, files, name, sweep, retained, now, dead, restarts,
                 kills>>

\* mc mirror without --overwrite: an object of the same name is skipped when
\* it has the same size and is an error otherwise.
Mirror(p) ==
  /\ pc[p]["s3-sync"] = "work" /\ p \in dir
  /\ s3' = s3 \cup {Object(f) : f \in {g \in files[p] : ~Clash(g)}}
  /\ Go(p, "s3-sync", "prune")
  /\ UNCHANGED <<markers, dir, files, name, sweep, retained, now, dead,
                 restarts, kills>>

\* Mutant: mc mirror ... || true.
MirrorFails_Ignored(p) ==
  /\ pc[p]["s3-sync"] = "work" /\ "tool" \in Faults
  /\ Go(p, "s3-sync", "prune")
  /\ UNCHANGED <<markers, dir, files, name, sweep, retained, s3, now, dead,
                 restarts, kills>>

MirrorFails(p) ==
  /\ pc[p]["s3-sync"] = "work"
  /\ "tool" \in Faults \/ p \notin dir \/ \E f \in files[p] : Clash(f)
  /\ \E sent \in SUBSET {g \in files[p] : ~Clash(g)} :
       s3' = s3 \cup {Object(f) : f \in sent}
  /\ Exit1(p, "s3-sync")
  /\ UNCHANGED <<dir, files, name, sweep, retained, now, dead, restarts,
                 kills>>

ExpiredS3 == {o \in s3 : o.form = "gpg" /\ now - o.at > S3Keep}

\* mc find | while read; mc rm: a failing find goes unnoticed, a failing rm
\* ends the script.
PruneS3(p) ==
  /\ pc[p]["s3-sync"] = "prune"
  /\ \E gone \in SUBSET ExpiredS3 :
       /\ s3' = s3 \ gone
       /\ \/ /\ gone = ExpiredS3 \/ "tool" \in Faults
             /\ Go(p, "s3-sync", "finish")
             /\ UNCHANGED markers
          \/ /\ gone # ExpiredS3 /\ "tool" \in Faults
             /\ Exit1(p, "s3-sync")
  /\ UNCHANGED <<dir, files, name, sweep, retained, now, dead, restarts,
                 kills>>

\* encrypt.sh releases its peers itself when there is no s3-sync.
Release(p) ==
  /\ pc[p]["encrypt"] = "release"
  /\ TouchThen(p, "encrypt", "job-done", "ok")
  /\ UNCHANGED <<dir, files, name, sweep, retained, s3, now, dead, restarts,
                 kills>>

---------------------------------------------------------------------------
(* The clock and the whole system.                                         *)

\* A restarted cleanup container makes its list of directories again.
RestartStage(p, s) ==
  /\ Restart(p, s)
  /\ sweep' = IF s = "cleanup" THEN [sweep EXCEPT ![p] = {}] ELSE sweep
  /\ UNCHANGED <<files, name, retained, s3, now>>

\* An upload and the pruning that follows it fall in one tick: they take far
\* less than a retention window.
Tick ==
  /\ now < MaxTime
  /\ S3Enabled => \A p \in Pods : pc[p]["s3-sync"] # "prune"
  /\ now' = now + 1
  /\ UNCHANGED <<pc, markers, dir, files, name, sweep, retained, s3, dead,
                 restarts, kills>>

Cleanup(p) ==
  \/ ClearMarkers(p) \/ PruneLocal(p) \/ SweepOver(p)
  \/ \E q \in Pods : SweepEntries(p, q) \/ SweepDir(p, q)

Dump(p) ==
  DumpStart(p) \/ DumpOk(p) \/ DumpFails(p) \/ RewriteStart(p)
    \/ RewriteEnds(p) \/ SummaryFails(p)

Compress(p) == GzipStart(p) \/ GzipOk(p) \/ GzipFails(p)

Encrypt(p) ==
  GpgStart(p) \/ GpgOk(p) \/ GpgFails(p) \/ CopyStart(p) \/ CopyEnds(p)
    \/ Release(p)

S3Sync(p) == S3Enabled /\ (Mirror(p) \/ MirrorFails(p) \/ PruneS3(p))

Next ==
  \/ \E p \in Pods :
       \/ Cleanup(p) \/ Dump(p) \/ Compress(p) \/ Encrypt(p) \/ S3Sync(p)
       \/ \E s \in Stages : LoopOver(p, s) \/ RestartStage(p, s)
       \/ UNCHANGED data /\ \/ StartPod(p) \/ BackoffExceeded(p) \/ Evict(p)
                            \/ \E s \in Stages : Poll(p, s) \/ TimesOut(p, s)
                                                  \/ Kill(p, s)
  \/ Tick
  \/ AllEnded /\ UNCHANGED vars

\* Every program a stage runs ends, polling loops keep polling, and the
\* kubelet and the Job controller keep reconciling.
Fairness ==
  \A p \in Pods :
    /\ WF_vars(UNCHANGED data /\ StartPod(p))
    /\ WF_vars(Cleanup(p)) /\ WF_vars(Dump(p)) /\ WF_vars(Compress(p))
    /\ WF_vars(Encrypt(p)) /\ WF_vars(S3Sync(p))
    /\ \A s \in Stages : /\ WF_vars(UNCHANGED data /\ Poll(p, s))
                         /\ WF_vars(UNCHANGED data /\ TimesOut(p, s))
                         /\ WF_vars(LoopOver(p, s))
                         /\ WF_vars(RestartStage(p, s))
    /\ WF_vars(UNCHANGED data /\ BackoffExceeded(p))

Spec == Init /\ [][Next]_vars
FairSpec == Spec /\ Fairness

---------------------------------------------------------------------------
(* Properties.                                                             *)

\* What leaves the pod, to S3 or to retained/, is gpg output only, although
\* s3-sync.sh mirrors whatever is in the scratch directory.
NoPlaintextLeavesPod ==
  \A o \in s3 \cup retained : o.form = "gpg"

\* S3 holds no encryption of a dump that was cut short: a stage starts only
\* when every program before it has succeeded.
OnlyWholeDumpsInS3 == \A o \in s3 : o.q = "whole"

\* A pod that Succeeded has left its dump, complete, in retained/ and (when
\* enabled) in S3 for as long as the retention windows say.
SuccessMeansStored ==
  \A p \in Pods : Succeeded(p) =>
    /\ now - name[p] <= LocalKeep =>
         \E r \in retained : r.name = name[p] /\ r.q = "whole"
    /\ S3Enabled /\ now - name[p] <= S3Keep =>
         \E o \in s3 : o.name = name[p] /\ o.form = "gpg" /\ o.q = "whole"

\* cleanup.sh removes the scratch directory of finished pods only.
SweepsOnlyEndedPods ==
  [][\A p \in Pods : \A q \in Pods : SweepEntries(p, q) => Ended(q)]_vars

\* Pruning never removes the last complete dump from S3: it runs only after
\* a newer one has been uploaded.
S3NeverEmptied ==
  [][(\E o \in s3 : o.q = "whole") => \E o \in s3' : o.q = "whole"]_vars

=============================================================================
