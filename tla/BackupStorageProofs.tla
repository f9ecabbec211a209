------------------------ MODULE BackupStorageProofs ------------------------
(* What a backup leaves behind: the dump of a pod that Succeeded is stored, *)
(* and pruning never empties S3.  For pods whose containers are not         *)
(* restarted, that follow each other and take their dumps in different      *)
(* minutes; whatever fails.                                                 *)
EXTENDS BackupPipelineProofs

\* What p's scratch directory must hold, by where its stages are: the dump
\* until it is compressed, that until it is encrypted, and that from then on.
PlainDue(p) ==
  /\ pc[p]["compress"] \in {"none", "off", "wait", "work", "gzip"}
  /\ \/ pc[p]["dump"] \in {"rewrite", "sed", "finish"}
     \/ "dump-done" \in markers[p] \/ pc[p]["compress"] \in {"work", "gzip"}
GzDue(p) ==
  /\ pc[p]["encrypt"] \in {"none", "off", "wait", "work", "gpg"}
  /\ \/ pc[p]["compress"] \in {"more", "finish"}
     \/ "compress-done" \in markers[p] \/ pc[p]["encrypt"] \in {"work", "gpg"}
GpgDue(p) ==
  \/ pc[p]["encrypt"] \in {"copy", "copying", "more", "finish"}
  \/ "encrypt-done" \in markers[p]
  \/ S3Enabled /\ pc[p]["s3-sync"] = "work"

\* The copy to retained/, or the upload, has succeeded.
CopyDue(p) ==
  \/ pc[p]["encrypt"] \in {"more", "finish", "release", "hold", "ok"}
  \/ "encrypt-done" \in markers[p]
UploadDue(p) ==
  /\ S3Enabled
  /\ pc[p]["s3-sync"] \in {"prune", "finish", "ok"} \/ "job-done" \in markers[p]

Whole(p, form) == [name |-> name[p], form |-> form, q |-> "whole"]
ScratchInv(p) ==
  ~Ended(p) => /\ pc[p]["dump"] = "dumping" => Plain(name[p], "torn") \in files[p]
               /\ PlainDue(p) => Whole(p, "plain") \in files[p]
               /\ GzDue(p) => Whole(p, "gz") \in files[p]
               /\ GpgDue(p) => Whole(p, "gpg") \in files[p]

\* A copy is at least as young as the dump, so it does not expire before it.
CopyInv(p) ==
  CopyDue(p) /\ now - name[p] <= LocalKeep =>
    \E r \in retained : r.name = name[p] /\ r.q = "whole" /\ r.at >= name[p]
UploadInv(p) ==
  UploadDue(p) /\ now - name[p] <= S3Keep =>
    \E o \in s3 : /\ o.name = name[p] /\ o.form = "gpg" /\ o.q = "whole"
                  /\ o.at >= name[p]

\* Pruning finds the object uploaded in the same minute.
PruneInv(p) ==
  S3Enabled /\ pc[p]["s3-sync"] = "prune" => \E o \in s3 : o.q = "whole" /\ o.at = now

\* No two pods share a name, and what is in S3 was put there by a pod that is
\* past its upload.
NameInv ==
  /\ now >= 1
  /\ \A p \in Pods : /\ name[p] <= now /\ (files[p] # {} => name[p] >= 1)
                     /\ pc[p]["dump"] \in {"none", "off", "wait", "work"} => name[p] = 0
  /\ \A p \in Pods, q \in Pods : name[p] = name[q] /\ name[p] # 0 => p = q
OwnerInv ==
  S3Enabled => \A o \in s3 :
    /\ o.name >= 1
    /\ \E q \in Pods : /\ o.name = name[q]
                       /\ pc[q]["s3-sync"] \notin {"none", "off", "wait", "work"}

StoreInv ==
  /\ NameInv /\ OwnerInv
  /\ \A p \in Pods : ScratchInv(p) /\ CopyInv(p) /\ UploadInv(p) /\ PruneInv(p)

---------------------------------------------------------------------------
(* The scratch directory.                                                  *)

\* Nothing more is due of q than before.
Weaker(q) ==
  /\ pc'[q]["dump"] = "dumping" => pc[q]["dump"] = "dumping"
  /\ PlainDue(q)' => PlainDue(q)
  /\ GzDue(q)' => GzDue(q)
  /\ GpgDue(q)' => GpgDue(q)
  /\ CopyDue(q)' => CopyDue(q)
  /\ UploadDue(q)' => UploadDue(q)
  /\ S3Enabled /\ pc'[q]["s3-sync"] = "prune" => pc[q]["s3-sync"] = "prune"

\* q loses none of the files the invariant looks at.
Safe(q) ==
  /\ name'[q] = name[q]
  /\ \A f \in files[q] : f.form = "plain" \/ f.q = "whole" => f \in files'[q]

\* A step after which nothing more is due, and nothing is lost.
LEMMA ScratchKeeps ==
  ASSUME NEW q \in Pods, ScratchInv(q), Ended(q) => Ended(q)', Weaker(q), Safe(q)
  PROVE  ScratchInv(q)'
  BY DEF ScratchInv, Weaker, Safe, Whole, Plain

\* A pod whose stages and markers are left alone.
LEMMA SameWeakens ==
  ASSUME NEW q \in Pods, pc'[q] = pc[q], markers'[q] \subseteq markers[q]
  PROVE  Weaker(q)
  BY DEF Weaker, PlainDue, GzDue, GpgDue, CopyDue, UploadDue

\* A failing container, whether or not it leaves a mark.
LEMMA ErrWeakens ==
  ASSUME TypeOK, NEW p \in Pods, NEW s \in Stages, Go(p, s, "err"),
         markers'[p] \subseteq markers[p] \cup {"failed"}
  PROVE  Weaker(p)
<1>1. pc'[p][s] = "err" /\ \A r \in Stages \ {s} : pc'[p][r] = pc[p][r]
  BY BGoFacts
<1>2. QED
  BY <1>1, StageFacts DEF Weaker, PlainDue, GzDue, GpgDue, CopyDue, UploadDue

\* Exit1 is a failing container.
LEMMA ExitWeakens ==
  ASSUME TypeOK, NEW p \in Pods, NEW s \in Stages, Exit1(p, s)
  PROVE  Weaker(p)
<1>1. Go(p, s, "err") /\ markers'[p] \subseteq markers[p] \cup {"failed"}
  BY DEF Exit1, TypeOK, ChainTypeOK
<1>2. QED BY <1>1, ErrWeakens

\* Polling, and everything that happens to a pod from outside, asks no more
\* than before: a stage that begins finds what the marker it waited for
\* stands for.
LEMMA ChainWeakens ==
  ASSUME RestartPolicy = "Never", TypeOK, NEW p \in Pods, ChainAct(p)
  PROVE  Weaker(p)
<1> USE StageFacts
<1>1. CASE StartPod(p)
  <2>1. /\ \A s \in Stages : pc[p][s] = "none" /\ pc'[p][s] = "off"
        /\ markers' = markers
    BY <1>1 DEF StartPod, TypeOK, ChainTypeOK
  <2>2. QED BY <2>1 DEF Weaker, PlainDue, GzDue, GpgDue, CopyDue, UploadDue
<1>2. CASE BackoffExceeded(p)
  BY <1>2 DEF BackoffExceeded
<1>3. CASE Evict(p)
  <2>1. /\ \A s \in Stages : pc'[p][s] = IF pc[p][s] = "ok" THEN "ok" ELSE "err"
        /\ markers' = markers
    BY <1>3 DEF Evict, AllStopped, TypeOK, ChainTypeOK
  <2>2. QED BY <2>1 DEF Weaker, PlainDue, GzDue, GpgDue, CopyDue, UploadDue
<1>4. ASSUME NEW s \in Stages, StartContainer(p, s) PROVE Weaker(p)
  <2>1. /\ pc[p][s] = "off" /\ pc'[p][s] = "wait" /\ markers' = markers
        /\ \A r \in Stages \ {s} : pc'[p][r] = pc[p][r]
    BY <1>4, BGoFacts DEF StartContainer
  <2>2. QED BY <2>1 DEF Weaker, PlainDue, GzDue, GpgDue, CopyDue, UploadDue
<1>5. ASSUME NEW s \in Stages, Begin(p, s) PROVE Weaker(p)
  <2>1. /\ pc[p][s] = "wait" /\ markers'[p] \subseteq markers[p]
        /\ \A r \in Stages \ {s} : pc'[p][r] = pc[p][r]
        /\ s # "cleanup" => Before(s) \in markers[p]
    BY <1>5 DEF Begin, Go, Missing, Polling, Awaited, TypeOK, ChainTypeOK
  <2>2. \/ pc'[p][s] = "work"
        \/ After(s) \in markers[p] /\ pc'[p][s] = IF s \in LastStages THEN "ok" ELSE "hold"
    BY <1>5 DEF Begin, Go, TypeOK, ChainTypeOK
  <2>3. CASE s = "cleanup" \/ s = "dump"
    BY <2>1, <2>2, <2>3 DEF LastStages, Weaker, PlainDue, GzDue, GpgDue, CopyDue, UploadDue
  <2>4. CASE s = "compress"
    BY <2>1, <2>2, <2>4 DEF Before, After, LastStages, Weaker, PlainDue, GzDue, GpgDue,
       CopyDue, UploadDue
  <2>5. CASE s = "encrypt"
    BY <2>1, <2>2, <2>5 DEF Before, After, LastStages, Weaker, PlainDue, GzDue, GpgDue,
       CopyDue, UploadDue
  <2>6. CASE s = "s3-sync"
    BY <2>1, <2>2, <2>6 DEF Before, After, LastStages, Weaker, PlainDue, GzDue, GpgDue,
       CopyDue, UploadDue
  <2>7. QED BY <2>3, <2>4, <2>5, <2>6
<1>6. ASSUME NEW s \in Stages, HoldEnds(p, s) PROVE Weaker(p)
  <2>1. /\ pc[p][s] = "hold" /\ pc'[p][s] = "ok" /\ markers' = markers
        /\ "job-done" \in markers[p] /\ \A r \in Stages \ {s} : pc'[p][r] = pc[p][r]
    BY <1>6, BGoFacts DEF HoldEnds
  <2>2. QED BY <2>1 DEF Weaker, PlainDue, GzDue, GpgDue, CopyDue, UploadDue
<1>7. ASSUME NEW s \in Stages, TouchDone(p, s) PROVE Weaker(p)
  <2>1. CASE p \in dir
    <3>1. Go(p, s, AfterTouch(s)) /\ markers'[p] = markers[p] \cup {After(s)}
      BY <1>7, <2>1 DEF TouchDone, TouchThen, TypeOK, ChainTypeOK
    <3>2. /\ pc[p][s] = "finish" /\ pc'[p][s] = AfterTouch(s)
          /\ \A r \in Stages \ {s} : pc'[p][r] = pc[p][r]
      BY <1>7, <3>1, BGoFacts DEF TouchDone
    <3>3. CASE s = "cleanup" \/ s = "dump"
      BY <3>1, <3>2, <3>3 DEF After, AfterTouch, Weaker, PlainDue, GzDue, GpgDue, CopyDue, UploadDue
    <3>4. CASE s = "compress" \/ s = "encrypt"
      BY <3>1, <3>2, <3>4 DEF After, AfterTouch, Weaker, PlainDue, GzDue, GpgDue, CopyDue, UploadDue
    <3>5. CASE s = "s3-sync"
      BY <3>1, <3>2, <3>5 DEF S3Enabled, After, AfterTouch, Weaker, PlainDue, GzDue, GpgDue,
         CopyDue, UploadDue
    <3>6. QED BY <3>3, <3>4, <3>5
  <2>2. CASE p \notin dir
    BY <1>7, <2>2, ExitWeakens DEF TouchDone, TouchThen
  <2>3. QED BY <2>1, <2>2
<1>8. ASSUME NEW s \in Stages, PeerFailed(p, s) \/ TimesOut(p, s) PROVE Weaker(p)
  BY <1>8, ExitWeakens DEF PeerFailed, TimesOut
<1>9. ASSUME NEW s \in Stages, Kill(p, s) PROVE Weaker(p)
  BY <1>9, ErrWeakens DEF Kill
<1>10. QED
  BY <1>1, <1>2, <1>3, <1>4, <1>5, <1>6, <1>7, <1>8, <1>9 DEF ChainAct, Poll

\* The stages' actions after which no more is due than before.
Quietly(p) ==
  \/ ClearMarkers(p) \/ PruneLocal(p) \/ SweepOver(p)
  \/ DumpFails(p) \/ RewriteStart(p) \/ RewriteEnds(p) \/ SummaryFails(p)
  \/ GzipFails(p) \/ GpgFails(p) \/ CopyStart(p) \/ Release(p)
  \/ S3Enabled /\ (MirrorFails(p) \/ PruneS3(p))
  \/ \E s \in Stages : LoopOver(p, s)

\* They ask for nothing new, and leave the dump in whatever form it is in.
LEMMA QuietlyWeakens ==
  ASSUME TypeOK, NEW p \in Pods, MarkInv(p), Quietly(p)
  PROVE  Weaker(p) /\ Safe(p)
<1> USE StageFacts
<1>1. Safe(p)
  <2>0. files[p] \subseteq File /\ p \in DOMAIN files
    BY DEF TypeOK
  <2>1. CASE UNCHANGED <<files, name>>
    BY <2>1 DEF Safe
  <2>2. CASE RewriteStart(p) \/ RewriteEnds(p)
    BY <2>0, <2>2 DEF RewriteStart, RewriteEnds, Safe, SedTmp, TypeOK
  <2>3. CASE GzipFails(p)
    BY <2>0, <2>3 DEF GzipFails, Safe, Output, TypeOK
  <2>4. QED
    BY <2>1, <2>2, <2>3 DEF Quietly, ClearMarkers, PruneLocal, SweepOver, DumpFails,
       SummaryFails, GpgFails, CopyStart, Release, MirrorFails, PruneS3, LoopOver
<1> SUFFICES Weaker(p)
  BY <1>1
<1>2. ASSUME NEW s \in Stages, Exit1(p, s) PROVE Weaker(p)
  BY <1>2, ExitWeakens
<1>3. CASE ClearMarkers(p) \/ PruneLocal(p) \/ SweepOver(p)
  <2>1. /\ \A r \in Stages \ {"cleanup"} : pc'[p][r] = pc[p][r]
        /\ markers'[p] \subseteq markers[p]
    BY <1>3 DEF ClearMarkers, PruneLocal, SweepOver, Go, TypeOK, ChainTypeOK
  <2>2. QED BY <2>1 DEF Weaker, PlainDue, GzDue, GpgDue, CopyDue, UploadDue
<1>4. CASE RewriteStart(p) \/ RewriteEnds(p)
  <2>1. CASE Exit1(p, "dump")
    BY <1>2, <2>1
  <2>2. CASE ~Exit1(p, "dump")
    <3>1. /\ pc[p]["dump"] \in {"rewrite", "sed"} /\ pc'[p]["dump"] \in {"sed", "finish"}
          /\ \A r \in Stages \ {"dump"} : pc'[p][r] = pc[p][r]
          /\ markers' = markers
      BY <1>4, <2>2, BGoFacts DEF RewriteStart, RewriteEnds
    <3>2. QED BY <3>1 DEF Weaker, PlainDue, GzDue, GpgDue, CopyDue, UploadDue
  <2>3. QED BY <2>1, <2>2
<1>5. CASE CopyStart(p)
  <2>1. CASE Exit1(p, "encrypt")
    BY <1>2, <2>1
  <2>2. CASE ~Exit1(p, "encrypt")
    <3>1. /\ pc[p]["encrypt"] = "copy" /\ pc'[p]["encrypt"] = "copying"
          /\ \A r \in Stages \ {"encrypt"} : pc'[p][r] = pc[p][r]
          /\ markers' = markers
      BY <1>5, <2>2, BGoFacts DEF CopyStart
    <3>2. QED BY <3>1 DEF Weaker, PlainDue, GzDue, GpgDue, CopyDue, UploadDue
  <2>3. QED BY <2>1, <2>2
<1>6. CASE Release(p)
  <2>1. CASE p \in dir
    <3>1. Go(p, "encrypt", "ok") /\ markers'[p] = markers[p] \cup {"job-done"}
      BY <1>6, <2>1 DEF Release, TouchThen, TypeOK, ChainTypeOK
    <3>2. /\ pc[p]["encrypt"] = "release" /\ pc'[p]["encrypt"] = "ok"
          /\ \A r \in Stages \ {"encrypt"} : pc'[p][r] = pc[p][r]
      BY <1>6, <3>1, BGoFacts DEF Release
    <3>3. ~S3Enabled
      BY <3>2 DEF MarkInv, S3Enabled
    <3>4. QED BY <3>1, <3>2, <3>3 DEF Weaker, PlainDue, GzDue, GpgDue, CopyDue, UploadDue
  <2>2. CASE p \notin dir
    BY <1>2, <1>6, <2>2 DEF Release, TouchThen
  <2>3. QED BY <2>1, <2>2
<1>7. CASE S3Enabled /\ PruneS3(p)
  <2>1. CASE Exit1(p, "s3-sync")
    BY <1>2, <1>7, <2>1
  <2>2. CASE ~Exit1(p, "s3-sync")
    <3>1. /\ pc[p]["s3-sync"] = "prune" /\ pc'[p]["s3-sync"] = "finish"
          /\ \A r \in Stages \ {"s3-sync"} : pc'[p][r] = pc[p][r]
          /\ markers' = markers
      BY <1>7, <2>2, BGoFacts DEF PruneS3
    <3>2. QED BY <3>1 DEF Weaker, PlainDue, GzDue, GpgDue, CopyDue, UploadDue
  <2>3. QED BY <2>1, <2>2
<1>8. ASSUME NEW s \in Stages, LoopOver(p, s) PROVE Weaker(p)
  <2>1. CASE Exit1(p, s)
    BY <1>2, <2>1
  <2>2. CASE ~Exit1(p, s)
    <3>1. /\ pc[p][s] = "more" /\ pc'[p][s] = "finish" /\ s \in {"compress", "encrypt"}
          /\ \A r \in Stages \ {s} : pc'[p][r] = pc[p][r]
          /\ markers' = markers
      BY <1>8, <2>2, BGoFacts DEF LoopOver
    <3>2. QED BY <3>1 DEF Weaker, PlainDue, GzDue, GpgDue, CopyDue, UploadDue
  <2>3. QED BY <2>1, <2>2
<1>9. CASE DumpFails(p) \/ SummaryFails(p) \/ GzipFails(p) \/ GpgFails(p)
             \/ (S3Enabled /\ MirrorFails(p))
  BY <1>2, <1>9 DEF DumpFails, SummaryFails, GzipFails, GpgFails, MirrorFails
<1>10. QED
  BY <1>3, <1>4, <1>5, <1>6, <1>7, <1>8, <1>9 DEF Quietly

\* A dump begins in an empty directory, and nothing is due yet.
LEMMA DumpStartHas ==
  ASSUME TypeOK, NEW p \in Pods, PodInv(p), MarkInv(p), ScratchInv(p), ~Ended(p), DumpStart(p), p \in dir
  PROVE  ScratchInv(p)' /\ ~CopyDue(p)' /\ ~UploadDue(p)' /\ (S3Enabled => pc'[p]["s3-sync"] # "prune")
<1> USE StageFacts
<1>1. /\ pc[p]["dump"] = "work" /\ pc'[p]["dump"] = "dumping" /\ markers' = markers
      /\ \A r \in Stages \ {"dump"} : pc'[p][r] = pc[p][r]
  BY BGoFacts DEF DumpStart
<1>2. name'[p] = now /\ Plain(now, "torn") \in files'[p]
  BY DEF DumpStart, TypeOK
<1>3. /\ "dump-done" \notin markers[p] /\ "compress-done" \notin markers[p]
      /\ "encrypt-done" \notin markers[p]
      /\ ~Active(p, "compress") /\ ~Active(p, "encrypt") /\ (S3Enabled => ~Active(p, "s3-sync"))
  BY <1>1 DEF PodInv, DumpInv, CompressInv, EncryptInv, Stopped
<1>4. "job-done" \notin markers[p]
  BY <1>3 DEF MarkInv, After
<1>5. ~PlainDue(p)' /\ ~GzDue(p)' /\ ~GpgDue(p)' /\ ~CopyDue(p)' /\ ~UploadDue(p)'
  BY <1>1, <1>3, <1>4 DEF Active, PlainDue, GzDue, GpgDue, CopyDue, UploadDue
<1>6. QED BY <1>1, <1>2, <1>3, <1>5 DEF ScratchInv, Active

\* Nothing is due of what leaves the pod that was not due before.
NoMoreOut(p) ==
  /\ CopyDue(p)' => CopyDue(p)
  /\ UploadDue(p)' => UploadDue(p)
  /\ S3Enabled /\ pc'[p]["s3-sync"] = "prune" => pc[p]["s3-sync"] = "prune"

\* The program that dumps has written the file it set out to write.
LEMMA DumpOkHas ==
  ASSUME TypeOK, NEW p \in Pods, PodInv(p), ScratchInv(p), ~Ended(p), DumpOk(p)
  PROVE  ScratchInv(p)' /\ NoMoreOut(p) /\ name'[p] = name[p]
<1> USE StageFacts
<1>1. /\ pc[p]["dump"] = "dumping" /\ pc'[p]["dump"] \in {"rewrite", "finish"}
      /\ markers' = markers
      /\ \A r \in Stages \ {"dump"} : pc'[p][r] = pc[p][r]
  BY BGoFacts DEF DumpOk
<1>2. Plain(name[p], "torn") \in files[p]
  BY <1>1 DEF ScratchInv
<1>3. name' = name /\ Whole(p, "plain") \in files'[p]
  BY <1>2 DEF DumpOk, TypeOK, Plain, Whole
<1>4. /\ "compress-done" \notin markers[p] /\ "encrypt-done" \notin markers[p]
      /\ ~Active(p, "compress") /\ ~Active(p, "encrypt") /\ (S3Enabled => ~Active(p, "s3-sync"))
  BY <1>1 DEF PodInv, DumpInv, CompressInv, EncryptInv, Stopped
<1>5. ~GzDue(p)' /\ ~GpgDue(p)' /\ NoMoreOut(p)
  BY <1>1, <1>4 DEF Active, GzDue, GpgDue, CopyDue, UploadDue, NoMoreOut
<1>6. QED BY <1>1, <1>3, <1>5 DEF ScratchInv, Whole

\* gzip starts on the dump, and leaves it while it writes.
LEMMA GzipStartHas ==
  ASSUME TypeOK, NEW p \in Pods, PodInv(p), ScratchInv(p), ~Ended(p), GzipStart(p)
  PROVE  ScratchInv(p)' /\ NoMoreOut(p) /\ name'[p] = name[p]
<1> USE StageFacts
<1>0. name' = name /\ pc[p]["compress"] \in {"work", "more"}
  BY DEF GzipStart
<1>1. CASE Exit1(p, "compress") /\ UNCHANGED files
  <2>1. Weaker(p) /\ Safe(p)
    BY <1>0, <1>1, ExitWeakens DEF Safe
  <2>2. QED BY <1>0, <2>1 DEF ScratchInv, Weaker, Safe, Whole, Plain, NoMoreOut
<1>2. CASE ~(Exit1(p, "compress") /\ UNCHANGED files)
  <2>1. PICK f \in First(OfForm(p, "plain")) :
          /\ Go(p, "compress", "gzip") /\ UNCHANGED markers
          /\ files' = [files EXCEPT ![p] = @ \cup {Output(f, "gz", "torn")}]
    BY <1>2 DEF GzipStart
  <2>2. f \in files[p] /\ f.form = "plain" /\ f \in File
    BY DEF First, OfForm, TypeOK
  <2>3. /\ pc[p]["dump"] \in Stopped /\ f.q = "whole" /\ f.name = name[p]
        /\ "compress-done" \notin markers[p] /\ ~Active(p, "encrypt")
        /\ "encrypt-done" \notin markers[p] /\ (S3Enabled => ~Active(p, "s3-sync"))
    BY <1>0, <2>2 DEF PodInv, FileInv, DumpInv, CompressInv, EncryptInv, Active, Stopped
  <2>4. Whole(p, "plain") = f
    BY <2>2, <2>3 DEF Whole, File
  <2>5. Whole(p, "plain") \in files'[p]
    BY <2>1, <2>2, <2>4 DEF TypeOK
  <2>6. pc'[p]["compress"] = "gzip" /\ \A r \in Stages \ {"compress"} : pc'[p][r] = pc[p][r]
    BY <2>1, BGoFacts
  <2>7. ~GzDue(p)' /\ ~GpgDue(p)' /\ NoMoreOut(p) /\ pc'[p]["dump"] # "dumping"
    BY <2>1, <2>3, <2>6 DEF Active, Stopped, GzDue, GpgDue, CopyDue, UploadDue, NoMoreOut
  <2>8. QED BY <1>0, <2>5, <2>7 DEF ScratchInv, Whole
<1>3. QED BY <1>1, <1>2

\* gzip has made the compressed dump of the dump.
LEMMA GzipOkHas ==
  ASSUME TypeOK, NEW p \in Pods, PodInv(p), ScratchInv(p), ~Ended(p), GzipOk(p)
  PROVE  ScratchInv(p)' /\ NoMoreOut(p) /\ name'[p] = name[p]
<1> USE StageFacts
<1>1. /\ pc[p]["compress"] = "gzip" /\ pc'[p]["compress"] = "more" /\ markers' = markers
      /\ \A r \in Stages \ {"compress"} : pc'[p][r] = pc[p][r]
      /\ name' = name
  BY BGoFacts DEF GzipOk
<1>2. PICK f \in First(OfForm(p, "plain")) :
        files' = [files EXCEPT ![p] = (@ \ {f, Output(f, "gz", "torn")})
                                         \cup {Output(f, "gz", Packed(f.q))}]
  BY DEF GzipOk
<1>3. f \in files[p] /\ f.form = "plain"
  BY DEF First, OfForm
<1>4. /\ pc[p]["dump"] \in Stopped /\ f.q = "whole" /\ f.name = name[p]
      /\ "encrypt-done" \notin markers[p] /\ (S3Enabled => ~Active(p, "s3-sync"))
      /\ ~Active(p, "encrypt")
  BY <1>1, <1>3 DEF PodInv, FileInv, DumpInv, CompressInv, EncryptInv, Active, Stopped
<1>5. Whole(p, "gz") \in files'[p]
  BY <1>2, <1>4 DEF TypeOK, Output, Packed, Whole
<1>6. ~PlainDue(p)' /\ ~GpgDue(p)' /\ NoMoreOut(p) /\ pc'[p]["dump"] # "dumping"
  BY <1>1, <1>4 DEF Active, Stopped, PlainDue, GpgDue, CopyDue, UploadDue, NoMoreOut
<1>7. QED BY <1>1, <1>5, <1>6 DEF ScratchInv, Whole

\* gpg starts on the compressed dump, and leaves it while it writes.
LEMMA GpgStartHas ==
  ASSUME TypeOK, NEW p \in Pods, PodInv(p), ScratchInv(p), ~Ended(p), GpgStart(p)
  PROVE  ScratchInv(p)' /\ NoMoreOut(p) /\ name'[p] = name[p]
<1> USE StageFacts
<1>1. /\ pc[p]["encrypt"] \in {"work", "more"} /\ pc'[p]["encrypt"] = "gpg" /\ markers' = markers
      /\ \A r \in Stages \ {"encrypt"} : pc'[p][r] = pc[p][r]
      /\ name' = name
  BY BGoFacts DEF GpgStart
<1>2. PICK f \in First(OfForm(p, "gz")) :
        files' = [files EXCEPT ![p] = (@ \ Named(OfForm(p, "gpg"), f.name))
                                         \cup {Output(f, "gpg", "torn")}]
  BY DEF GpgStart
<1>3. f \in files[p] /\ f.form = "gz" /\ f \in File
  BY DEF First, OfForm, TypeOK
<1>4. /\ pc[p]["dump"] \in Stopped /\ pc[p]["compress"] \in Stopped
      /\ f.q = "whole" /\ f.name = name[p]
      /\ "encrypt-done" \notin markers[p] /\ (S3Enabled => ~Active(p, "s3-sync"))
  BY <1>1, <1>3 DEF PodInv, FileInv, CompressInv, EncryptInv, Active, Stopped
<1>5. f = Whole(p, "gz") /\ f \notin Named(OfForm(p, "gpg"), f.name)
  BY <1>3, <1>4 DEF File, Whole, Named, OfForm
<1>6. Whole(p, "gz") \in files'[p]
  BY <1>2, <1>3, <1>5 DEF TypeOK
<1>7. ~PlainDue(p)' /\ ~GpgDue(p)' /\ NoMoreOut(p) /\ pc'[p]["dump"] # "dumping"
  BY <1>1, <1>4 DEF Active, Stopped, PlainDue, GpgDue, CopyDue, UploadDue, NoMoreOut
<1>8. QED BY <1>1, <1>6, <1>7 DEF ScratchInv, Whole

\* gpg has made the encrypted dump of the compressed one.
LEMMA GpgOkHas ==
  ASSUME TypeOK, NEW p \in Pods, PodInv(p), ScratchInv(p), ~Ended(p), GpgOk(p)
  PROVE  ScratchInv(p)' /\ NoMoreOut(p) /\ name'[p] = name[p]
<1> USE StageFacts
<1>1. /\ pc[p]["encrypt"] = "gpg" /\ pc'[p]["encrypt"] = "copy" /\ markers' = markers
      /\ \A r \in Stages \ {"encrypt"} : pc'[p][r] = pc[p][r]
      /\ name' = name
  BY BGoFacts DEF GpgOk
<1>2. PICK f \in First(OfForm(p, "gz")) :
        files' = [files EXCEPT ![p] = (@ \ {f, Output(f, "gpg", "torn")})
                                         \cup {Output(f, "gpg", Packed(f.q))}]
  BY DEF GpgOk
<1>3. f \in files[p] /\ f.form = "gz"
  BY DEF First, OfForm
<1>4. /\ pc[p]["dump"] \in Stopped /\ pc[p]["compress"] \in Stopped
      /\ f.q = "whole" /\ f.name = name[p]
      /\ "encrypt-done" \notin markers[p] /\ (S3Enabled => ~Active(p, "s3-sync"))
  BY <1>1, <1>3 DEF PodInv, FileInv, CompressInv, EncryptInv, Active, Stopped
<1>5. Whole(p, "gpg") \in files'[p]
  BY <1>2, <1>4 DEF TypeOK, Output, Packed, Whole
<1>6. ~PlainDue(p)' /\ ~GzDue(p)' /\ NoMoreOut(p) /\ pc'[p]["dump"] # "dumping"
  BY <1>1, <1>4 DEF Active, Stopped, PlainDue, GzDue, CopyDue, UploadDue, NoMoreOut
<1>7. QED BY <1>1, <1>5, <1>6 DEF ScratchInv, Whole

---------------------------------------------------------------------------
(* Names, copies and uploads.                                              *)

Starting == {"none", "off", "wait", "work"}

\* A stage that has begun its work, or failed, is not started again.
LEMMA NoReturn ==
  ASSUME RestartPolicy = "Never", TypeOK, NEW p \in Pods, StageAct(p) \/ ChainAct(p),
         NEW s \in Stages, pc'[p][s] \in Starting
  PROVE  pc[p][s] \in Starting
<1> USE StageFacts
<1>1. ASSUME NEW r \in Stages, NEW to, to \notin Starting, Go(p, r, to)
      PROVE  pc[p][s] \in Starting
  <2>1. pc'[p][r] = to /\ \A x \in Stages \ {r} : pc'[p][x] = pc[p][x]
    BY <1>1, BGoFacts
  <2>2. s # r
    BY <1>1, <2>1
  <2>3. QED BY <2>1, <2>2
<1>2. ASSUME NEW r \in Stages, Exit1(p, r) PROVE pc[p][s] \in Starting
  BY <1>1, <1>2 DEF Exit1, Starting
<1>3. CASE ClearMarkers(p) \/ PruneLocal(p) \/ SweepOver(p)
  BY <1>1, <1>3 DEF ClearMarkers, PruneLocal, SweepOver, Starting
<1>4. CASE Dump(p)
  BY <1>1, <1>2, <1>4 DEF Dump, DumpStart, DumpOk, DumpFails, RewriteStart, RewriteEnds,
     SummaryFails, Starting
<1>5. CASE Compress(p) \/ Encrypt(p)
  BY <1>1, <1>2, <1>5 DEF Compress, GzipStart, GzipOk, GzipFails, Encrypt, GpgStart, GpgOk,
     GpgFails, CopyStart, CopyEnds, Release, TouchThen, Starting
<1>6. CASE S3Sync(p)
  BY <1>1, <1>2, <1>6 DEF S3Sync, Mirror, MirrorFails, PruneS3, Starting
<1>7. ASSUME NEW r \in Stages, LoopOver(p, r) PROVE pc[p][s] \in Starting
  BY <1>1, <1>2, <1>7 DEF LoopOver, Starting
<1>8. CASE StartPod(p) \/ BackoffExceeded(p) \/ Evict(p)
  BY <1>8 DEF StartPod, BackoffExceeded, Evict, AllStopped, TypeOK, ChainTypeOK, Starting
<1>9. ASSUME NEW r \in Stages, StartContainer(p, r) \/ Begin(p, r) PROVE pc[p][s] \in Starting
  BY <1>9 DEF StartContainer, Begin, Go, TypeOK, ChainTypeOK, Starting
<1>10. ASSUME NEW r \in Stages, TouchDone(p, r) PROVE pc[p][s] \in Starting
  <2>1. AfterTouch(r) \notin Starting
    BY DEF AfterTouch, Starting
  <2>2. QED BY <1>1, <1>2, <1>10, <2>1 DEF TouchDone, TouchThen
<1>11. ASSUME NEW r \in Stages, HoldEnds(p, r) \/ PeerFailed(p, r) \/ TimesOut(p, r) \/ Kill(p, r)
       PROVE  pc[p][s] \in Starting
  BY <1>1, <1>2, <1>11 DEF HoldEnds, PeerFailed, TimesOut, Kill, Starting
<1>12. QED
  BY <1>3, <1>4, <1>5, <1>6, <1>7, <1>8, <1>9, <1>10, <1>11 DEF StageAct, ChainAct, Poll

\* A pod's own actions leave the other pods alone, and the clock.
LEMMA ActOther ==
  ASSUME TypeOK, NEW p \in Pods, StageAct(p) \/ ChainAct(p)
  PROVE  /\ now' = now
         /\ \A q \in Pods \ {p} : /\ pc'[q] = pc[q] /\ markers'[q] = markers[q]
                                  /\ files'[q] = files[q] /\ name'[q] = name[q]
<1> USE StageFacts DEF TypeOK, ChainTypeOK, Go, Exit1
<1>1. CASE ClearMarkers(p) \/ PruneLocal(p) \/ SweepOver(p)
  BY <1>1 DEF ClearMarkers, PruneLocal, SweepOver
<1>2. CASE Dump(p)
  BY <1>2 DEF Dump, DumpStart, DumpOk, DumpFails, RewriteStart, RewriteEnds, SummaryFails
<1>3. CASE Compress(p)
  BY <1>3 DEF Compress, GzipStart, GzipOk, GzipFails
<1>4. CASE Encrypt(p)
  BY <1>4 DEF Encrypt, GpgStart, GpgOk, GpgFails, CopyStart, CopyEnds, Release, TouchThen
<1>5. CASE S3Sync(p)
  BY <1>5 DEF S3Sync, Mirror, MirrorFails, PruneS3
<1>6. ASSUME NEW s \in Stages, LoopOver(p, s)
      PROVE  /\ now' = now
             /\ \A q \in Pods \ {p} : /\ pc'[q] = pc[q] /\ markers'[q] = markers[q]
                                      /\ files'[q] = files[q] /\ name'[q] = name[q]
  BY <1>6 DEF LoopOver
<1>7. CASE ChainAct(p)
  <2>1. UNCHANGED <<files, name, now>>
    BY <1>7 DEF ChainAct, data
  <2>2. \A q \in Pods \ {p} : pc'[q] = pc[q] /\ markers'[q] = markers[q]
    BY <1>7 DEF ChainAct, StartPod, BackoffExceeded, Evict, AllStopped, Poll, StartContainer, Begin,
       HoldEnds, PeerFailed, TouchDone, TouchThen, TimesOut, Kill
  <2>3. QED BY <2>1, <2>2
<1>8. QED BY <1>1, <1>2, <1>3, <1>4, <1>5, <1>6, <1>7 DEF StageAct

\* Only the start of a dump names one, or puts the first file into a directory.
LEMMA NamesStay ==
  ASSUME TypeOK, NEW p \in Pods, StageAct(p) \/ ChainAct(p), ~(DumpStart(p) /\ p \in dir)
  PROVE  name' = name /\ (files'[p] # {} => files[p] # {})
<1>1. CASE UNCHANGED <<files, name>>
  BY <1>1
<1>2. CASE DumpOk(p) \/ RewriteStart(p) \/ RewriteEnds(p)
  BY <1>2 DEF DumpOk, RewriteStart, RewriteEnds, TypeOK
<1>3. CASE GzipStart(p) \/ GzipOk(p) \/ GzipFails(p)
  BY <1>3 DEF GzipStart, GzipOk, GzipFails, First, OfForm, TypeOK
<1>4. CASE GpgStart(p) \/ GpgOk(p)
  BY <1>4 DEF GpgStart, GpgOk, First, OfForm, TypeOK
<1>5. QED
  BY <1>1, <1>2, <1>3, <1>4 DEF StageAct, ChainAct, data, ClearMarkers, PruneLocal, SweepOver, Dump,
     DumpStart, DumpFails, SummaryFails, Compress, Encrypt, GpgFails, CopyStart, CopyEnds,
     Release, S3Sync, Mirror, MirrorFails, PruneS3, LoopOver

\* No two pods share a name: a dump does not begin in a minute that is taken.
LEMMA NameStep ==
  ASSUME RestartPolicy = "Never", ~SameMinute, TypeOK, NameInv, NEW p \in Pods,
         StageAct(p) \/ ChainAct(p)
  PROVE  NameInv'
<1> USE StageFacts
<1>0. /\ now' = now /\ now \in Nat /\ name \in [Pods -> Nat]
      /\ \A q \in Pods \ {p} : /\ pc'[q] = pc[q] /\ files'[q] = files[q] /\ name'[q] = name[q]
  BY ActOther DEF TypeOK
<1>1. CASE DumpStart(p) /\ p \in dir
  <2>1. /\ name' = [name EXCEPT ![p] = now] /\ pc'[p]["dump"] = "dumping"
        /\ \A q \in Pods \ {p} : name[q] # now
    BY <1>1, BGoFacts DEF DumpStart
  <2>2. QED BY <1>0, <2>1 DEF NameInv
<1>2. CASE ~(DumpStart(p) /\ p \in dir)
  <2>1. name' = name /\ (files'[p] # {} => files[p] # {})
    BY <1>2, NamesStay
  <2>2. pc'[p]["dump"] \in Starting => pc[p]["dump"] \in Starting
    BY NoReturn
  <2>3. QED BY <1>0, <2>1, <2>2 DEF NameInv, Starting
<1>3. QED BY <1>1, <1>2

\* What is in S3 and has not expired stays there.
LEMMA UploadsStay ==
  ASSUME NEW p \in Pods, StageAct(p) \/ ChainAct(p)
  PROVE  \A o \in s3 : now - o.at > S3Keep \/ o \in s3'
<1>1. CASE UNCHANGED s3
  BY <1>1
<1>2. CASE Mirror(p) \/ MirrorFails(p)
  BY <1>2 DEF Mirror, MirrorFails
<1>3. CASE PruneS3(p)
  BY <1>3 DEF PruneS3, ExpiredS3
<1>4. QED
  BY <1>1, <1>2, <1>3 DEF StageAct, ChainAct, data, ClearMarkers, PruneLocal, SweepOver, Dump,
     DumpStart, DumpOk, DumpFails, RewriteStart, RewriteEnds, SummaryFails, Compress, GzipStart,
     GzipOk, GzipFails, Encrypt, GpgStart, GpgOk, GpgFails, CopyStart, CopyEnds, Release, S3Sync,
     LoopOver

\* What is in retained/ and has not expired stays there, but for the copy of the
\* dump a pod is about to write.
LEMMA CopiesStay ==
  ASSUME TypeOK, HandOver, NEW p \in Pods, StageAct(p) \/ ChainAct(p)
  PROVE  \/ \A r \in retained : now - r.at > LocalKeep \/ r \in retained'
         \/ /\ CopyStart(p) \/ CopyEnds(p)
            /\ files[p] # {}
            /\ \A r \in retained : r.name = name[p] \/ r \in retained'
<1>1. CASE UNCHANGED retained
  BY <1>1
<1>2. CASE PruneLocal(p)
  BY <1>2 DEF PruneLocal, ExpiredLocal
<1>3. CASE CopyStart(p) \/ CopyEnds(p)
  <2>1. \A f \in Last(OfForm(p, "gpg")) : f \in files[p] /\ f.name = name[p]
    BY DEF Last, OfForm, HandOver, PodInv, FileInv
  <2>2. QED BY <1>3, <2>1 DEF CopyStart, CopyEnds, Named
<1>4. QED
  BY <1>1, <1>2, <1>3 DEF StageAct, ChainAct, data, ClearMarkers, SweepOver, Dump,
     DumpStart, DumpOk, DumpFails, RewriteStart, RewriteEnds, SummaryFails, Compress, GzipStart,
     GzipOk, GzipFails, Encrypt, GpgStart, GpgOk, GpgFails, Release, S3Sync, Mirror,
     MirrorFails, PruneS3, LoopOver

\* What is in S3 was put there by a pod that is past its upload.
LEMMA OwnerStep ==
  ASSUME RestartPolicy = "Never", TypeOK, HandOver, NameInv, OwnerInv, NEW p \in Pods,
         StageAct(p) \/ ChainAct(p), S3Enabled
  PROVE  OwnerInv'
<1> USE StageFacts
<1> DEFINE Past(o) == /\ o.name >= 1
                      /\ \E q \in Pods : o.name = name'[q] /\ pc'[q]["s3-sync"] \notin Starting
<1>0. \A q \in Pods \ {p} : pc'[q] = pc[q] /\ name'[q] = name[q]
  BY ActOther
<1>1. ASSUME NEW o \in s3 PROVE Past(o)
  <2>1. PICK q \in Pods : o.name = name[q] /\ pc[q]["s3-sync"] \notin Starting
    BY DEF OwnerInv, Starting
  <2>2. pc'[q]["s3-sync"] \notin Starting
    BY <1>0, <2>1, NoReturn
  <2>3. name'[q] = name[q]
    <3>1. CASE DumpStart(p) /\ p \in dir
      <4>1. name[p] = 0 /\ o.name >= 1
        BY <3>1 DEF NameInv, OwnerInv, DumpStart
      <4>2. q # p
        BY <2>1, <4>1
      <4>3. QED BY <1>0, <4>2
    <3>2. CASE ~(DumpStart(p) /\ p \in dir)
      BY <3>2, NamesStay
    <3>3. QED BY <3>1, <3>2
  <2>4. QED BY <2>1, <2>2, <2>3 DEF OwnerInv
<1>2. CASE s3' \subseteq s3
  BY <1>1, <1>2 DEF OwnerInv, Starting
<1>3. CASE Mirror(p) \/ MirrorFails(p)
  <2>1. /\ pc'[p]["s3-sync"] \in {"prune", "err"} /\ name' = name
        /\ \A o \in s3' : o \in s3 \/ \E f \in files[p] : o = Object(f)
    BY <1>3, BGoFacts DEF Mirror, MirrorFails, Exit1
  <2>2. \A f \in files[p] : f.name = name[p] /\ name[p] >= 1
    BY DEF HandOver, PodInv, FileInv, NameInv
  <2>3. \A o \in s3' : Past(o)
    BY <1>1, <2>1, <2>2 DEF Object, Starting
  <2>4. QED BY <2>3 DEF OwnerInv, Starting
<1>4. s3' \subseteq s3 \/ Mirror(p) \/ MirrorFails(p)
  BY DEF StageAct, ChainAct, data, ClearMarkers, PruneLocal, SweepOver, Dump,
     DumpStart, DumpOk, DumpFails, RewriteStart, RewriteEnds, SummaryFails, Compress, GzipStart,
     GzipOk, GzipFails, Encrypt, GpgStart, GpgOk, GpgFails, CopyStart, CopyEnds, Release, S3Sync,
     PruneS3, LoopOver
<1>5. QED BY <1>2, <1>3, <1>4

\* A copy that was there stays until its dump has expired.
LEMMA CopyKeeps ==
  ASSUME TypeOK, NEW q \in Pods, CopyInv(q), CopyDue(q)' => CopyDue(q), name'[q] = name[q],
         now' >= now, now' \in Nat,
         \A r \in retained : r.name # name[q] \/ now - r.at > LocalKeep \/ r \in retained'
  PROVE  CopyInv(q)'
<1>1. SUFFICES ASSUME CopyDue(q), now - name[q] <= LocalKeep
               PROVE  \E r \in retained' : r.name = name[q] /\ r.q = "whole" /\ r.at >= name[q]
  BY ConstantsAssumption DEF CopyInv, TypeOK
<1>2. PICK r \in retained : r.name = name[q] /\ r.q = "whole" /\ r.at >= name[q]
  BY <1>1 DEF CopyInv
<1>3. ~(now - r.at > LocalKeep)
  BY <1>1, <1>2, ConstantsAssumption DEF TypeOK, Stored
<1>4. QED BY <1>2, <1>3

\* An upload that was there stays until its dump has expired.
LEMMA UploadKeeps ==
  ASSUME TypeOK, NEW q \in Pods, UploadInv(q), UploadDue(q)' => UploadDue(q), name'[q] = name[q],
         now' >= now, now' \in Nat,
         \A o \in s3 : now - o.at > S3Keep \/ o \in s3'
  PROVE  UploadInv(q)'
<1>1. SUFFICES ASSUME UploadDue(q), now - name[q] <= S3Keep
               PROVE  \E o \in s3' : /\ o.name = name[q] /\ o.form = "gpg" /\ o.q = "whole"
                                     /\ o.at >= name[q]
  BY ConstantsAssumption DEF UploadInv, TypeOK
<1>2. PICK o \in s3 : /\ o.name = name[q] /\ o.form = "gpg" /\ o.q = "whole"
                      /\ o.at >= name[q]
  BY <1>1 DEF UploadInv
<1>3. ~(now - o.at > S3Keep)
  BY <1>1, <1>2, ConstantsAssumption DEF TypeOK, Stored
<1>4. QED BY <1>2, <1>3

\* As long as the minute lasts, so does the object uploaded in it.
LEMMA PruneKeeps ==
  ASSUME TypeOK, NEW q \in Pods, PruneInv(q), now' = now,
         S3Enabled /\ pc'[q]["s3-sync"] = "prune" => pc[q]["s3-sync"] = "prune",
         \A o \in s3 : now - o.at > S3Keep \/ o \in s3'
  PROVE  PruneInv(q)'
  BY ConstantsAssumption DEF PruneInv, TypeOK, Stored

\* A copy that ends well is a copy of the whole dump.
LEMMA CopyHas ==
  ASSUME TypeOK, NameInv, NEW p \in Pods, PodInv(p), ScratchInv(p), ~Ended(p), CopyEnds(p),
         ~Exit1(p, "encrypt")
  PROVE  /\ ScratchInv(p)' /\ CopyInv(p)' /\ name'[p] = name[p]
         /\ UploadDue(p)' => UploadDue(p)
         /\ S3Enabled /\ pc'[p]["s3-sync"] = "prune" => pc[p]["s3-sync"] = "prune"
<1> USE StageFacts
<1>1. PICK f \in Last(OfForm(p, "gpg")) :
        /\ Go(p, "encrypt", "more") /\ UNCHANGED markers
        /\ retained' = (retained \ Named(retained, f.name)) \cup {Copied(f, f.q)}
  BY DEF CopyEnds
<1>2. /\ pc[p]["encrypt"] = "copying" /\ pc'[p]["encrypt"] = "more" /\ markers' = markers
      /\ \A r \in Stages \ {"encrypt"} : pc'[p][r] = pc[p][r]
      /\ UNCHANGED <<files, name, now>>
  BY <1>1, BGoFacts DEF CopyEnds
<1>3. f.name = name[p] /\ f.q = "whole"
  BY <1>2 DEF Last, OfForm, PodInv, FileInv, BeingWritten
<1>4. Copied(f, f.q) \in retained' /\ now >= name[p]
  BY <1>1 DEF NameInv
<1>5. CopyInv(p)'
  BY <1>2, <1>3, <1>4 DEF CopyInv, Copied
<1>6. /\ PlainDue(p)' => PlainDue(p)
      /\ GzDue(p)' => GzDue(p)
      /\ GpgDue(p)' => GpgDue(p)
      /\ UploadDue(p)' => UploadDue(p)
  BY <1>2 DEF PlainDue, GzDue, GpgDue, UploadDue
<1>7. ScratchInv(p)'
  BY <1>2, <1>6 DEF ScratchInv, Whole, Plain
<1>8. QED BY <1>2, <1>5, <1>6, <1>7

\* An upload finds the dump in the scratch directory and no object of its name.
LEMMA MirrorHas ==
  ASSUME TypeOK, NameInv, OwnerInv, NEW p \in Pods, PodInv(p), ScratchInv(p), ~Ended(p),
         S3Enabled, Mirror(p)
  PROVE  /\ ScratchInv(p)' /\ UploadInv(p)' /\ PruneInv(p)' /\ name'[p] = name[p]
         /\ CopyDue(p)' => CopyDue(p)
<1> USE StageFacts
<1>1. /\ pc[p]["s3-sync"] = "work" /\ pc'[p]["s3-sync"] = "prune" /\ markers' = markers
      /\ \A r \in Stages \ {"s3-sync"} : pc'[p][r] = pc[p][r]
      /\ UNCHANGED <<files, name, now>>
  BY BGoFacts DEF Mirror
<1>2. Whole(p, "gpg") \in files[p]
  BY <1>1 DEF ScratchInv, GpgDue
<1>3. name[p] >= 1 /\ now >= name[p]
  BY <1>2 DEF NameInv
<1>4. ~Clash(Whole(p, "gpg"))
  <2>1. ASSUME NEW o \in s3, o.name = name[p] PROVE FALSE
    <3>1. PICK q \in Pods : o.name = name[q] /\ pc[q]["s3-sync"] # "work"
      BY DEF OwnerInv
    <3>2. q = p
      <4>1. name[p] = name[q] /\ name[p] # 0
        BY <1>3, <2>1, <3>1
      <4>2. QED BY <4>1 DEF NameInv
    <3>3. QED BY <1>1, <3>1, <3>2
  <2>2. QED BY <2>1 DEF Clash, Whole
<1>5. Object(Whole(p, "gpg")) \in s3'
  BY <1>2, <1>4 DEF Mirror
<1>6. UploadInv(p)' /\ PruneInv(p)'
  BY <1>1, <1>3, <1>5 DEF UploadInv, PruneInv, Object, Whole
<1>7. /\ PlainDue(p)' => PlainDue(p)
      /\ GzDue(p)' => GzDue(p)
      /\ GpgDue(p)' => GpgDue(p)
      /\ CopyDue(p)' => CopyDue(p)
  BY <1>1 DEF PlainDue, GzDue, GpgDue, CopyDue
<1>8. ScratchInv(p)'
  BY <1>1, <1>7 DEF ScratchInv, Whole, Plain
<1>9. QED BY <1>1, <1>6, <1>7, <1>8

---------------------------------------------------------------------------
(* The whole invariant.                                                    *)

\* Only a pod that has not ended acts, and an ended pod has ended for good.
LEMMA ActsAlive ==
  ASSUME TypeOK, PodsInv, NEW p \in Pods, StageAct(p) \/ ChainAct(p)
  PROVE  ~Ended(p) /\ \A q \in Pods : Ended(q) => Ended(q)'
<1>0. ChainTypeOK(PCs)
  BY DEF TypeOK
<1>1. PodStep(p)
  <2>1. CASE StageAct(p)
    BY <2>1, StageSteps DEF OwnStep, PodStep
  <2>2. CASE ChainAct(p)
    BY <1>0, <2>2, ChainPodStep DEF ChainAct, PodStep
  <2>3. QED BY <2>1, <2>2
<1>2. QED BY <1>0, <1>1, EndedRests, EndedStays

\* What a pod has left behind stays when it is asked for no more.
LEMMA OutKeeps ==
  ASSUME TypeOK, NEW q \in Pods, CopyInv(q), UploadInv(q), PruneInv(q), NoMoreOut(q),
         name'[q] = name[q], now' = now,
         \A o \in s3 : now - o.at > S3Keep \/ o \in s3',
         \A r \in retained : r.name # name[q] \/ now - r.at > LocalKeep \/ r \in retained'
  PROVE  CopyInv(q)' /\ UploadInv(q)' /\ PruneInv(q)'
<1>1. now' >= now /\ now' \in Nat
  BY DEF TypeOK
<1>2. QED BY <1>1, CopyKeeps, UploadKeeps, PruneKeeps DEF NoMoreOut

\* A pod's own step.
LEMMA OwnStore ==
  ASSUME RestartPolicy = "Never", TypeOK, HandOver, BackupInv, StoreInv, NEW p \in Pods,
         StageAct(p) \/ ChainAct(p)
  PROVE  ScratchInv(p)' /\ CopyInv(p)' /\ UploadInv(p)' /\ PruneInv(p)'
<1> USE StageFacts
<1> DEFINE Out == CopyInv(p)' /\ UploadInv(p)' /\ PruneInv(p)'
<1>0. /\ ~Ended(p) /\ PodInv(p) /\ MarkInv(p) /\ now' = now
      /\ ScratchInv(p) /\ CopyInv(p) /\ UploadInv(p) /\ PruneInv(p) /\ NameInv /\ OwnerInv
  BY ActsAlive, ActOther DEF BackupInv, HandOver, StoreInv
<1>1. \A o \in s3 : now - o.at > S3Keep \/ o \in s3'
  BY UploadsStay
<1>2. ASSUME NoMoreOut(p), name'[p] = name[p],
             UNCHANGED retained \/ ~(CopyStart(p) \/ CopyEnds(p))
      PROVE  Out
  <2>1. \A r \in retained : r.name # name[p] \/ now - r.at > LocalKeep \/ r \in retained'
    BY <1>2, CopiesStay
  <2>2. QED BY <1>0, <1>1, <1>2, <2>1, OutKeeps
<1>3. ASSUME Weaker(p), Safe(p), UNCHANGED retained \/ ~(CopyStart(p) \/ CopyEnds(p))
      PROVE  ScratchInv(p)' /\ Out
  <2>1. ScratchInv(p)'
    BY <1>0, <1>3, ScratchKeeps
  <2>2. NoMoreOut(p) /\ name'[p] = name[p]
    BY <1>3 DEF Weaker, Safe, NoMoreOut
  <2>3. QED BY <1>2, <1>3, <2>1, <2>2
<1>4. ASSUME NEW s \in Stages, Exit1(p, s), UNCHANGED <<files, name, retained>>
      PROVE  ScratchInv(p)' /\ Out
  BY <1>3, <1>4, ExitWeakens DEF Safe
<1>5. CASE ChainAct(p)
  <2>1. Safe(p) /\ UNCHANGED retained
    BY <1>5 DEF ChainAct, data, Safe
  <2>2. QED BY <1>3, <1>5, <2>1, ChainWeakens
<1>6. CASE CopyStart(p)
  <2>1. Weaker(p) /\ Safe(p)
    BY <1>0, <1>6, QuietlyWeakens DEF Quietly
  <2>2. CASE UNCHANGED retained
    BY <1>3, <2>1, <2>2
  <2>3. CASE ~UNCHANGED retained
    <3>1. /\ pc[p]["encrypt"] = "copy" /\ pc'[p]["encrypt"] = "copying" /\ markers' = markers
      BY <1>6, <2>3, BGoFacts DEF CopyStart
    <3>2. "encrypt-done" \notin markers[p]
      BY <1>0, <3>1 DEF PodInv, EncryptInv, Stopped
    <3>3. CopyInv(p)'
      BY <3>1, <3>2 DEF CopyInv, CopyDue
    <3>4. ScratchInv(p)'
      BY <1>0, <2>1, ScratchKeeps
    <3>5. UploadInv(p)' /\ PruneInv(p)'
      <4>1. now' >= now /\ now' \in Nat
        BY <1>0 DEF TypeOK
      <4>2. QED BY <1>0, <1>1, <2>1, <4>1, UploadKeeps, PruneKeeps DEF Weaker, Safe
    <3>6. QED BY <3>3, <3>4, <3>5
  <2>4. QED BY <2>2, <2>3
<1>7. CASE Quietly(p) /\ ~CopyStart(p)
  <2>1. Weaker(p) /\ Safe(p)
    BY <1>0, <1>7, QuietlyWeakens
  <2>2. UNCHANGED retained \/ ~CopyEnds(p)
    BY <1>7, BGoFacts DEF Quietly, CopyEnds, ClearMarkers, PruneLocal, SweepOver, DumpFails,
       RewriteStart, RewriteEnds, SummaryFails, GzipFails, GpgFails, Release, MirrorFails, PruneS3,
       LoopOver
  <2>3. QED BY <1>3, <1>7, <2>1, <2>2
<1>8. CASE DumpStart(p)
  <2>1. CASE p \in dir
    <3>1. /\ ScratchInv(p)' /\ ~CopyDue(p)' /\ ~UploadDue(p)'
          /\ S3Enabled => pc'[p]["s3-sync"] # "prune"
      BY <1>0, <1>8, <2>1, DumpStartHas
    <3>2. QED BY <3>1 DEF CopyInv, UploadInv, PruneInv
  <2>2. CASE p \notin dir
    BY <1>4, <1>8, <2>2 DEF DumpStart
  <2>3. QED BY <2>1, <2>2
<1>9. CASE DumpOk(p) \/ GzipStart(p) \/ GzipOk(p) \/ GpgStart(p) \/ GpgOk(p)
  <2>1. ScratchInv(p)' /\ NoMoreOut(p) /\ name'[p] = name[p]
    BY <1>0, <1>9, DumpOkHas, GzipStartHas, GzipOkHas, GpgStartHas, GpgOkHas
  <2>2. UNCHANGED retained
    BY <1>9 DEF DumpOk, GzipStart, GzipOk, GpgStart, GpgOk
  <2>3. QED BY <1>2, <2>1, <2>2
<1>10. CASE CopyEnds(p)
  <2>1. CASE Exit1(p, "encrypt")
    <3>1. UNCHANGED <<files, name, retained>>
      BY <1>10, <2>1, BGoFacts DEF CopyEnds, Exit1
    <3>2. QED BY <1>4, <2>1, <3>1
  <2>2. CASE ~Exit1(p, "encrypt")
    <3>1. /\ ScratchInv(p)' /\ CopyInv(p)' /\ name'[p] = name[p]
          /\ UploadDue(p)' => UploadDue(p)
          /\ S3Enabled /\ pc'[p]["s3-sync"] = "prune" => pc[p]["s3-sync"] = "prune"
      BY <1>0, <1>10, <2>2, CopyHas
    <3>2. now' >= now /\ now' \in Nat
      BY <1>0 DEF TypeOK
    <3>3. UploadInv(p)' /\ PruneInv(p)'
      BY <1>0, <1>1, <3>1, <3>2, UploadKeeps, PruneKeeps
    <3>4. QED BY <3>1, <3>3
  <2>3. QED BY <2>1, <2>2
<1>11. CASE S3Enabled /\ Mirror(p)
  <2>1. /\ ScratchInv(p)' /\ UploadInv(p)' /\ PruneInv(p)' /\ name'[p] = name[p]
        /\ CopyDue(p)' => CopyDue(p)
    BY <1>0, <1>11, MirrorHas
  <2>2. UNCHANGED retained /\ now' >= now /\ now' \in Nat
    BY <1>0, <1>11 DEF Mirror, TypeOK
  <2>3. CopyInv(p)'
    BY <1>0, <2>1, <2>2, CopyKeeps
  <2>4. QED BY <2>1, <2>3
<1>12. QED
  BY <1>5, <1>6, <1>7, <1>8, <1>9, <1>10, <1>11 DEF StageAct, Dump, Compress, Encrypt, S3Sync, Quietly

\* A step of another pod.
LEMMA OtherStore ==
  ASSUME RestartPolicy = "Never", TypeOK, HandOver, BackupInv, StoreInv, NEW p \in Pods,
         StageAct(p) \/ ChainAct(p), NEW q \in Pods \ {p}
  PROVE  ScratchInv(q)' /\ CopyInv(q)' /\ UploadInv(q)' /\ PruneInv(q)'
<1>0. ScratchInv(q) /\ CopyInv(q) /\ UploadInv(q) /\ PruneInv(q) /\ NameInv
  BY DEF StoreInv
<1>1. /\ now' = now /\ pc'[q] = pc[q] /\ markers'[q] = markers[q]
      /\ files'[q] = files[q] /\ name'[q] = name[q]
  BY ActOther
<1>2. Weaker(q) /\ Safe(q)
  BY <1>1, SameWeakens DEF Safe
<1>3. ScratchInv(q)'
  BY <1>0, <1>2, ScratchKeeps, ActsAlive DEF BackupInv
<1>4. NoMoreOut(q)
  BY <1>2 DEF Weaker, NoMoreOut
<1>5. \A o \in s3 : now - o.at > S3Keep \/ o \in s3'
  BY UploadsStay
<1>6. \A r \in retained : r.name # name[q] \/ now - r.at > LocalKeep \/ r \in retained'
  <2>1. CASE \A r \in retained : now - r.at > LocalKeep \/ r \in retained'
    BY <2>1
  <2>2. CASE files[p] # {} /\ \A r \in retained : r.name = name[p] \/ r \in retained'
    <3>1. name[p] # 0
      BY <1>0, <2>2 DEF NameInv
    <3>2. name[p] # name[q]
      BY <1>0, <3>1 DEF NameInv
    <3>3. QED BY <2>2, <3>2
  <2>3. QED BY <2>1, <2>2, CopiesStay
<1>7. QED BY <1>0, <1>1, <1>3, <1>4, <1>5, <1>6, OutKeeps

\* Sweeping empties the directories of ended pods only, of which nothing is due.
LEMMA SweepStore ==
  ASSUME TypeOK, BackupInv, StoreInv, NEW p \in Pods, NEW q \in Pods,
         SweepEntries(p, q) \/ SweepDir(p, q)
  PROVE  StoreInv'
<1>1. /\ UNCHANGED <<pc, dead, name, retained, s3, now>> /\ Ended(q)
      /\ \A r \in Pods : markers'[r] \subseteq markers[r] /\ files'[r] \subseteq files[r]
      /\ \A r \in Pods \ {q} : files'[r] = files[r]
  BY DEF SweepEntries, SweepDir, BackupInv, SweepInv, TypeOK, ChainTypeOK
<1>2. NameInv' /\ OwnerInv'
  BY <1>1 DEF StoreInv, NameInv, OwnerInv
<1>3. ASSUME NEW r \in Pods
      PROVE  ScratchInv(r)' /\ CopyInv(r)' /\ UploadInv(r)' /\ PruneInv(r)'
  <2>1. Weaker(r) /\ (Ended(r)' <=> Ended(r))
    BY <1>1, SameWeakens DEF Ended, Succeeded
  <2>2. ScratchInv(r)'
    <3>1. CASE r = q
      BY <1>1, <2>1, <3>1 DEF ScratchInv
    <3>2. CASE r # q
      BY <1>1, <2>1, <3>2, ScratchKeeps DEF StoreInv, Safe
    <3>3. QED BY <3>1, <3>2
  <2>3. CopyInv(r)' /\ UploadInv(r)' /\ PruneInv(r)'
    BY <1>1, <2>1, OutKeeps DEF StoreInv, Weaker, NoMoreOut
  <2>4. QED BY <2>2, <2>3
<1>4. QED BY <1>2, <1>3 DEF StoreInv

\* A minute passes; not while a pod prunes what it found by age.
LEMMA TickStore ==
  ASSUME TypeOK, StoreInv, Tick
  PROVE  StoreInv'
<1>1. /\ UNCHANGED <<pc, markers, dead, files, name, retained, s3>> /\ now' = now + 1 /\ now \in Nat
      /\ S3Enabled => \A p \in Pods : pc[p]["s3-sync"] # "prune"
  BY DEF Tick, TypeOK
<1>2. NameInv' /\ OwnerInv'
  BY <1>1 DEF StoreInv, NameInv, OwnerInv, TypeOK
<1>3. ASSUME NEW r \in Pods
      PROVE  ScratchInv(r)' /\ CopyInv(r)' /\ UploadInv(r)' /\ PruneInv(r)'
  <2>1. Weaker(r) /\ (Ended(r)' <=> Ended(r)) /\ Safe(r) /\ now' >= now /\ now' \in Nat
    BY <1>1, SameWeakens DEF Ended, Succeeded, Safe
  <2>2. ScratchInv(r)'
    BY <2>1, ScratchKeeps DEF StoreInv
  <2>3. CopyInv(r)' /\ UploadInv(r)'
    BY <1>1, <2>1, CopyKeeps, UploadKeeps DEF StoreInv, Weaker
  <2>4. PruneInv(r)'
    BY <1>1 DEF PruneInv
  <2>5. QED BY <2>2, <2>3, <2>4
<1>4. QED BY <1>2, <1>3 DEF StoreInv

\* Every step keeps the invariant.
LEMMA StoreStep ==
  ASSUME RestartPolicy = "Never", ~SameMinute, TypeOK, HandOver, BackupInv, StoreInv, [Next]_vars
  PROVE  StoreInv'
<1>1. ASSUME NEW p \in Pods, StageAct(p) \/ ChainAct(p) PROVE StoreInv'
  <2>1. NameInv'
    BY <1>1, NameStep DEF StoreInv
  <2>2. OwnerInv'
    BY <1>1, OwnerStep DEF StoreInv, OwnerInv
  <2>3. \A q \in Pods : ScratchInv(q)' /\ CopyInv(q)' /\ UploadInv(q)' /\ PruneInv(q)'
    BY <1>1, OwnStore, OtherStore
  <2>4. QED BY <2>1, <2>2, <2>3 DEF StoreInv
<1>2. ASSUME NEW p \in Pods, NEW s \in Stages, RestartStage(p, s) PROVE FALSE
  BY <1>2 DEF RestartStage, Restart, MayRestart
<1>3. CASE UNCHANGED vars
  BY <1>3 DEF vars, chain, data, StoreInv, NameInv, OwnerInv, ScratchInv, CopyInv, UploadInv,
     PruneInv, PlainDue, GzDue, GpgDue, CopyDue, UploadDue, Whole, Ended, Succeeded
<1>4. QED
  BY <1>1, <1>2, <1>3, SweepStore, TickStore DEF Next, Cleanup, StageAct, ChainAct

\* StoreInv holds of pods that are not restarted in place, follow each other and
\* dump in different minutes, whatever fails or is killed.
LEMMA StoreInvariance ==
  ASSUME RestartPolicy = "Never", ~Overlap, ~SameMinute
  PROVE  Spec => []StoreInv
<1>1. Init => StoreInv
  <2> SUFFICES ASSUME Init PROVE StoreInv
    OBVIOUS
  <2>1. /\ \A p \in Pods : /\ \A s \in Stages : pc[p][s] = "none"
                           /\ markers[p] = {} /\ files[p] = {} /\ name[p] = 0
        /\ s3 = {} /\ now = 1
    BY DEF Init, ChainInit
  <2>2. \A p \in Pods : /\ ~PlainDue(p) /\ ~GzDue(p) /\ ~GpgDue(p) /\ ~CopyDue(p) /\ ~UploadDue(p)
                        /\ S3Enabled => pc[p]["s3-sync"] = "none"
    BY <2>1, StageFacts DEF PlainDue, GzDue, GpgDue, CopyDue, UploadDue
  <2>3. NameInv /\ OwnerInv
    BY <2>1 DEF NameInv, OwnerInv
  <2>4. QED
    BY <2>1, <2>2, <2>3, StageFacts DEF StoreInv, ScratchInv, CopyInv, UploadInv, PruneInv
<1>2. TypeOK /\ HandOver /\ BackupInv /\ StoreInv /\ [Next]_vars => StoreInv'
  BY StoreStep
<1>3. QED BY <1>1, <1>2, HandOverInvariance, BackupInvariance, PTL DEF Spec

\* A pod that Succeeded has left its dump, complete, in retained/ and (when
\* enabled) in S3, and there it stays for as long as the retention windows say:
\* neither another pod's cleanup, copy, upload or pruning takes it away.
THEOREM SuccessIsStored ==
  ASSUME RestartPolicy = "Never", ~Overlap, ~SameMinute
  PROVE  Spec => []SuccessMeansStored
<1>1. StoreInv => SuccessMeansStored
  <2>1. ASSUME StoreInv, NEW p \in Pods, Succeeded(p) PROVE CopyDue(p) /\ (S3Enabled => UploadDue(p))
    BY <2>1, StageFacts DEF Succeeded, CopyDue, UploadDue
  <2>2. QED BY <2>1 DEF StoreInv, CopyInv, UploadInv, SuccessMeansStored
<1>2. QED BY <1>1, StoreInvariance, PTL

\* Pruning never removes the last complete dump from S3: s3-sync.sh prunes only
\* after an upload, whose object has not expired.
THEOREM PruningKeepsOne ==
  ASSUME RestartPolicy = "Never", ~Overlap, ~SameMinute
  PROVE  Spec => S3NeverEmptied
<1>1. ASSUME TypeOK, HandOver, StoreInv, Next, NEW o \in s3, o.q = "whole"
      PROVE  \E x \in s3' : x.q = "whole"
  <2>1. ASSUME NEW p \in Pods, S3Enabled, PruneS3(p) PROVE \E x \in s3' : x.q = "whole"
    <3>1. PICK x \in s3 : x.q = "whole" /\ x.at = now
      BY <1>1, <2>1 DEF StoreInv, PruneInv, PruneS3
    <3>2. x \notin ExpiredS3
      BY <1>1, <3>1, ConstantsAssumption DEF ExpiredS3, TypeOK
    <3>3. QED BY <2>1, <3>1, <3>2 DEF PruneS3
  <2>2. s3 \subseteq s3' \/ \E p \in Pods : S3Enabled /\ PruneS3(p)
    <3>1. ASSUME NEW p \in Pods, S3Sync(p) PROVE s3 \subseteq s3' \/ (S3Enabled /\ PruneS3(p))
      BY <3>1 DEF S3Sync, Mirror, MirrorFails
    <3>2. ASSUME NEW p \in Pods, Cleanup(p) \/ Dump(p) \/ Compress(p) \/ Encrypt(p) PROVE UNCHANGED s3
      BY <3>2 DEF Cleanup, ClearMarkers, PruneLocal, SweepEntries, SweepDir, SweepOver, Dump,
         DumpStart, DumpOk, DumpFails, RewriteStart, RewriteEnds, SummaryFails, Compress, GzipStart,
         GzipOk, GzipFails, Encrypt, GpgStart, GpgOk, GpgFails, CopyStart, CopyEnds, Release
    <3>3. ASSUME NEW p \in Pods, NEW s \in Stages, LoopOver(p, s) \/ RestartStage(p, s) PROVE UNCHANGED s3
      BY <3>3 DEF LoopOver, RestartStage
    <3>4. CASE UNCHANGED data \/ Tick \/ UNCHANGED vars
      BY <3>4 DEF data, Tick, vars
    <3>5. QED BY <1>1, <3>1, <3>2, <3>3, <3>4 DEF Next
  <2>3. QED BY <1>1, <2>1, <2>2
<1>2. TypeOK /\ HandOver /\ StoreInv /\ [Next]_vars =>
        [(\E o \in s3 : o.q = "whole") => \E o \in s3' : o.q = "whole"]_vars
  BY <1>1
<1>3. QED BY <1>2, HandOverInvariance, StoreInvariance, PTL DEF Spec, S3NeverEmptied
=============================================================================
