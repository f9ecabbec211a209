----------------------- MODULE BackupPipelineProofs -----------------------
(* Theorems about BackupPipeline, for every value of its constants.        *)
EXTENDS BackupPipeline, StageChainProofs

\* The four stages every pod has, and the fifth one of a pod with S3.
LEMMA StageFacts ==
  /\ "cleanup" \in Stages /\ "dump" \in Stages /\ "compress" \in Stages
  /\ "encrypt" \in Stages
  /\ S3Enabled => "s3-sync" \in Stages
  /\ Stages \subseteq {"cleanup", "dump", "compress", "encrypt", "s3-sync"}
  /\ \A s \in Stages : After(s) \in Markers
  BY ConstantsAssumption, AfterType DEF S3Enabled

\* The lemmas of StageChainProofs for the program counters of this pipeline.
LEMMA BGoType ==
  ASSUME TypeOK, NEW p \in Pods, NEW s \in Stages, NEW to \in PCs, Go(p, s, to)
  PROVE  pc' \in [Pods -> [Stages -> PCs]]
  BY GoType DEF TypeOK

\* What Go does to the program counters.
LEMMA BGoFacts ==
  ASSUME TypeOK, NEW p \in Pods, NEW s \in Stages, NEW to, Go(p, s, to)
  PROVE  /\ pc'[p][s] = to
         /\ \A r \in Stages \ {s} : pc'[p][r] = pc[p][r]
         /\ \A r \in Pods \ {p} : pc'[r] = pc[r]
  BY GoFacts DEF TypeOK

\* Exit1 keeps the types of what it writes.
LEMMA BExitType ==
  ASSUME TypeOK, NEW p \in Pods, NEW s \in Stages, Exit1(p, s)
  PROVE  pc' \in [Pods -> [Stages -> PCs]] /\ markers' \in [Pods -> SUBSET Markers]
<1>1. "err" \in PCs
  BY DEF PCs, ChainPCs
<1>2. QED BY <1>1, ExitType DEF TypeOK

\* So does touch.
LEMMA BTouchType ==
  ASSUME TypeOK, NEW p \in Pods, NEW s \in Stages, NEW m \in Markers,
         NEW to \in PCs, TouchThen(p, s, m, to)
  PROVE  pc' \in [Pods -> [Stages -> PCs]] /\ markers' \in [Pods -> SUBSET Markers]
<1>1. "err" \in PCs
  BY DEF PCs, ChainPCs
<1>2. QED BY <1>1, TouchType DEF TypeOK

\* Every program counter, marker set, file set and object stays in its type.
THEOREM TypeInvariance == Spec => []TypeOK
<1>1. Init => TypeOK
  BY DEF Init, ChainInit, TypeOK, ChainTypeOK, PCs, ChainPCs
<1>2. TypeOK /\ [Next]_vars => TypeOK'
  <2> SUFFICES ASSUME TypeOK, Next PROVE TypeOK'
    BY DEF TypeOK, ChainTypeOK, vars, chain, data
  <2> USE StageFacts
  <2>0. "err" \in PCs /\ ChainPCs \subseteq PCs /\ ChainTypeOK(PCs)
    BY DEF PCs, ChainPCs, TypeOK
  <2>2. ASSUME NEW p \in Pods, Cleanup(p) PROVE TypeOK'
    <3>1. CASE ClearMarkers(p)
      BY <3>1, BGoType DEF ClearMarkers, TypeOK, ChainTypeOK, PCs, ChainPCs
    <3>2. CASE PruneLocal(p)
      BY <3>2, BGoType DEF PruneLocal, TypeOK, ChainTypeOK, PCs, ChainPCs
    <3>3. CASE SweepOver(p)
      BY <3>3, BGoType DEF SweepOver, TypeOK, ChainTypeOK, PCs, ChainPCs
    <3>4. ASSUME NEW q \in Pods, SweepEntries(p, q) PROVE TypeOK'
      BY <3>4 DEF SweepEntries, TypeOK, ChainTypeOK
    <3>5. ASSUME NEW q \in Pods, SweepDir(p, q) PROVE TypeOK'
      BY <3>5 DEF SweepDir, TypeOK, ChainTypeOK
    <3>6. QED BY <2>2, <3>1, <3>2, <3>3, <3>4, <3>5 DEF Cleanup
  <2>3. ASSUME NEW p \in Pods, Dump(p) PROVE TypeOK'
    <3>1. CASE DumpStart(p)
      <4>1. Plain(now, "torn") \in File
        BY DEF TypeOK, ChainTypeOK, Plain, File, Forms, Qualities
      <4>2. pc' \in [Pods -> [Stages -> PCs]] /\ markers' \in [Pods -> SUBSET Markers]
        BY <3>1, BGoType, BExitType DEF DumpStart, PCs, ChainPCs, TypeOK, ChainTypeOK
      <4>3. files' \in [Pods -> SUBSET File] /\ name' \in [Pods -> Nat]
        BY <3>1, <4>1, SMTT(30) DEF DumpStart, TypeOK, ChainTypeOK
      <4>4. QED BY <3>1, <4>2, <4>3 DEF DumpStart, TypeOK, ChainTypeOK
    <3>2. CASE DumpOk(p)
      BY <3>2, BGoType, BExitType DEF DumpOk, TypeOK, ChainTypeOK, PCs, ChainPCs, File, Forms, Qualities, Plain
    <3>3. CASE DumpFails(p)
      BY <3>3, BExitType DEF DumpFails, TypeOK, ChainTypeOK
    <3>4. CASE RewriteStart(p)
      BY <3>4, BGoType, BExitType DEF RewriteStart, TypeOK, ChainTypeOK, PCs, ChainPCs, File, Forms, Qualities, SedTmp
    <3>5. CASE RewriteEnds(p)
      BY <3>5, BGoType, BExitType DEF RewriteEnds, TypeOK, ChainTypeOK, PCs, ChainPCs
    <3>6. CASE SummaryFails(p)
      BY <3>6, BExitType DEF SummaryFails, TypeOK, ChainTypeOK
    <3>7. QED BY <2>3, <3>1, <3>2, <3>3, <3>4, <3>5, <3>6 DEF Dump
  <2>4. ASSUME NEW p \in Pods, Compress(p) PROVE TypeOK'
    <3>1. CASE GzipStart(p)
      <4>1. PICK f \in First(OfForm(p, "plain")) :
              IF Named(OfForm(p, "gz"), f.name) = {}
              THEN /\ Go(p, "compress", "gzip")
                   /\ files' = [files EXCEPT ![p] = @ \cup {Output(f, "gz", "torn")}]
                   /\ UNCHANGED markers
              ELSE Exit1(p, "compress") /\ UNCHANGED files
        BY <3>1 DEF GzipStart
      <4>2. Output(f, "gz", "torn") \in File
        BY DEF TypeOK, ChainTypeOK, First, OfForm, Output, File, Forms, Qualities
      <4>3. pc' \in [Pods -> [Stages -> PCs]] /\ markers' \in [Pods -> SUBSET Markers]
        BY <4>1, BGoType, BExitType DEF PCs, ChainPCs, TypeOK, ChainTypeOK
      <4>4. files' \in [Pods -> SUBSET File]
        BY <4>1, <4>2 DEF TypeOK, ChainTypeOK
      <4>5. QED BY <3>1, <4>3, <4>4 DEF GzipStart, TypeOK, ChainTypeOK
    <3>2. CASE GzipOk(p)
      BY <3>2, BGoType, BExitType DEF GzipOk, TypeOK, ChainTypeOK, PCs, ChainPCs, File, Forms, Qualities, First, OfForm, Output, Packed
    <3>3. CASE GzipFails(p)
      BY <3>3, BExitType DEF GzipFails, TypeOK, ChainTypeOK
    <3>4. QED BY <2>4, <3>1, <3>2, <3>3 DEF Compress
  <2>5. ASSUME NEW p \in Pods, Encrypt(p) PROVE TypeOK'
    <3>1. CASE GpgStart(p)
      BY <3>1, BGoType DEF GpgStart, TypeOK, ChainTypeOK, PCs, ChainPCs, File, Forms, Qualities, First, OfForm, Output
    <3>2. CASE GpgOk(p)
      BY <3>2, BGoType DEF GpgOk, TypeOK, ChainTypeOK, PCs, ChainPCs, File, Forms, Qualities, First, OfForm, Output, Packed
    <3>3. CASE GpgFails(p)
      BY <3>3, BExitType DEF GpgFails, TypeOK, ChainTypeOK
    <3>4. CASE CopyStart(p)
      BY <3>4, BGoType, BExitType DEF CopyStart, TypeOK, ChainTypeOK, PCs, ChainPCs, File, Stored, Qualities, Last, OfForm, Copied, Named
    <3>5. CASE CopyEnds(p)
      BY <3>5, BGoType, BExitType DEF CopyEnds, TypeOK, ChainTypeOK, PCs, ChainPCs, File, Stored, Qualities, Last, OfForm, Copied, Named
    <3>6. CASE Release(p)
      BY <3>6, BTouchType DEF Release, TypeOK, ChainTypeOK, PCs, ChainPCs, Markers
    <3>7. QED BY <2>5, <3>1, <3>2, <3>3, <3>4, <3>5, <3>6 DEF Encrypt
  <2>6. ASSUME NEW p \in Pods, S3Sync(p) PROVE TypeOK'
    <3>1. CASE S3Enabled /\ Mirror(p)
      BY <3>1, BGoType DEF Mirror, TypeOK, ChainTypeOK, PCs, ChainPCs, File, Stored, Object
    <3>2. CASE S3Enabled /\ MirrorFails(p)
      BY <3>2, BExitType DEF MirrorFails, TypeOK, ChainTypeOK, File, Stored, Object
    <3>3. CASE S3Enabled /\ PruneS3(p)
      BY <3>3, BGoType, BExitType DEF PruneS3, TypeOK, ChainTypeOK, PCs, ChainPCs
    <3>4. QED BY <2>6, <3>1, <3>2, <3>3 DEF S3Sync
  <2>7. ASSUME NEW p \in Pods, NEW s \in Stages, LoopOver(p, s) PROVE TypeOK'
    <3>1. CASE Exit1(p, s)
      BY <2>7, <3>1, BExitType DEF LoopOver, TypeOK, ChainTypeOK
    <3>2. CASE Go(p, s, "finish") /\ UNCHANGED markers
      BY <2>7, <3>2, BGoType DEF LoopOver, TypeOK, ChainTypeOK, PCs, ChainPCs
    <3>3. QED BY <2>7, <3>1, <3>2 DEF LoopOver
  <2>8. ASSUME NEW p \in Pods, NEW s \in Stages, RestartStage(p, s) PROVE TypeOK'
    <3>1. ChainTypeOK(PCs)'
      BY <2>0, <2>8, ChainStepType DEF RestartStage
    <3>2. QED BY <2>8, <3>1 DEF RestartStage, TypeOK, ChainTypeOK
  <2>9. ASSUME NEW p \in Pods, UNCHANGED data,
               \/ StartPod(p) \/ BackoffExceeded(p) \/ Evict(p)
               \/ \E s \in Stages : Poll(p, s) \/ TimesOut(p, s) \/ Kill(p, s)
        PROVE TypeOK'
    <3>1. ChainTypeOK(PCs)'
      BY <2>0, <2>9, ChainStepType
    <3>2. QED BY <2>9, <3>1 DEF data, TypeOK, ChainTypeOK
  <2>10. CASE Tick
    BY <2>10 DEF Tick, TypeOK, ChainTypeOK
  <2>11. CASE UNCHANGED vars
    BY <2>11 DEF TypeOK, ChainTypeOK, vars, chain, data
  <2>12. QED
    BY <2>2, <2>3, <2>4, <2>5, <2>6, <2>7, <2>8, <2>9, <2>10, <2>11 DEF Next
<1>3. QED BY <1>1, <1>2, PTL DEF Spec

---------------------------------------------------------------------------
(* Only complete dumps, encrypted, leave the pod.  Neither property is      *)
(* inductive: what s3-sync mirrors is whatever the scratch directory holds, *)
(* so the argument is that each stage is through with the directory before  *)
(* the next one starts, in whatever state its container then ends.          *)

\* A container that touches no dump file any more.
Stopped == {"release", "hold", "ok", "err"}

\* s is past wait_for and has not failed.
Active(p, s) == pc[p][s] \notin {"none", "off", "wait", "err"}

\* The program writing a file that is not complete is running or has failed.
BeingWritten(p, f) ==
  \/ f.form = "plain"  /\ pc[p]["dump"] \in {"dumping", "err"}
  \/ f.form = "sedtmp" /\ pc[p]["dump"] \in {"sed", "err"}
  \/ f.form = "gz"     /\ pc[p]["compress"] \in {"gzip", "err"}
  \/ f.form = "gpg"    /\ pc[p]["encrypt"] \in {"gpg", "err"}

FreshInv(p) ==
  pc[p]["dump"] \in {"none", "off", "wait", "work"} => files[p] = {}
FileInv(p) ==
  \A f \in files[p] :
    /\ f.name = name[p]
    /\ \/ f.q = "whole" /\ f.form # "sedtmp"
       \/ f.q = "torn" /\ BeingWritten(p, f)
DumpInv(p) ==
  "dump-done" \in markers[p] \/ Active(p, "compress") =>
    /\ pc[p]["dump"] \in Stopped
    /\ \A f \in files[p] : f.form = "plain" => f.q = "whole"
    /\ \A f \in files[p] : f.form # "sedtmp"
CompressInv(p) ==
  "compress-done" \in markers[p] \/ Active(p, "encrypt") =>
    /\ pc[p]["dump"] \in Stopped /\ pc[p]["compress"] \in Stopped
    /\ \A f \in files[p] : f.form = "gpg" \/ (f.form = "gz" /\ f.q = "whole")
EncryptInv(p) ==
  "encrypt-done" \in markers[p] \/ (S3Enabled /\ Active(p, "s3-sync")) =>
    /\ pc[p]["dump"] \in Stopped /\ pc[p]["compress"] \in Stopped
    /\ pc[p]["encrypt"] \in Stopped
    /\ \A f \in files[p] : f.form = "gpg" /\ f.q = "whole"
FinishInv(p) ==
  /\ pc[p]["compress"] = "finish" => OfForm(p, "plain") = {}
  /\ pc[p]["encrypt"] = "finish" => OfForm(p, "gz") = {}
PodInv(p) ==
  /\ FreshInv(p) /\ FileInv(p) /\ DumpInv(p) /\ CompressInv(p)
  /\ EncryptInv(p) /\ FinishInv(p)

HandOver ==
  /\ \A p \in Pods : PodInv(p)
  /\ NoPlaintextLeavesPod
  /\ OnlyWholeDumpsInS3

\* A container's failing, with or without a trace in the scratch directory,
\* disturbs no part of the invariant.
LEMMA ErrKeeps ==
  ASSUME TypeOK, NEW p \in Pods, NEW s \in Stages, NEW q \in Pods, PodInv(q),
         Go(p, s, "err"), UNCHANGED <<files, name>>,
         \A r \in Pods : markers'[r] \subseteq markers[r] \cup {"failed"}
  PROVE  PodInv(q)'
  BY StageFacts DEF TypeOK, ChainTypeOK, Go, PodInv, FreshInv, FileInv, BeingWritten, DumpInv,
         CompressInv, EncryptInv, FinishInv, Active, Stopped, OfForm

\* Exit1 is such a failure.
LEMMA ExitKeeps ==
  ASSUME TypeOK, NEW p \in Pods, NEW s \in Stages, NEW q \in Pods, PodInv(q),
         Exit1(p, s), UNCHANGED <<files, name>>
  PROVE  PodInv(q)'
<1>1. \A r \in Pods : markers'[r] \subseteq markers[r] \cup {"failed"}
  BY DEF Exit1, TypeOK, ChainTypeOK
<1>2. QED BY <1>1, ErrKeeps DEF Exit1

\* The cleanup container moving on, with markers only taken away, disturbs
\* no part of the invariant either.
LEMMA CleanupKeeps ==
  ASSUME TypeOK, NEW p \in Pods, NEW to \in PCs, NEW q \in Pods, PodInv(q),
         Go(p, "cleanup", to), UNCHANGED <<files, name>>,
         \A r \in Pods : markers'[r] \subseteq markers[r] \cup {"cleanup-done"}
  PROVE  PodInv(q)'
  BY StageFacts DEF TypeOK, ChainTypeOK, Go, PodInv, FreshInv, FileInv, BeingWritten, DumpInv,
         CompressInv, EncryptInv, FinishInv, Active, Stopped, OfForm

\* A step that changes nothing the invariant of a pod looks at.
LEMMA SameKeeps ==
  ASSUME NEW q \in Pods, PodInv(q), UNCHANGED <<pc, markers, files, name>>
  PROVE  PodInv(q)'
  BY DEF PodInv, FreshInv, FileInv, BeingWritten, DumpInv, CompressInv,
         EncryptInv, FinishInv, Active, Stopped, OfForm

\* A step that leaves one pod alone keeps the invariant of that pod.
LEMMA OtherKeeps ==
  ASSUME NEW q \in Pods, PodInv(q), pc'[q] = pc[q], markers'[q] = markers[q],
         files'[q] = files[q], name'[q] = name[q]
  PROVE  PodInv(q)'
  BY DEF PodInv, FreshInv, FileInv, BeingWritten, DumpInv, CompressInv,
         EncryptInv, FinishInv, Active, Stopped, OfForm

\* cleanup removes files and markers only.
LEMMA CleanupStep ==
  ASSUME TypeOK, NEW p \in Pods, Cleanup(p), NEW q \in Pods, PodInv(q)
  PROVE  PodInv(q)'
<1>1. CASE ClearMarkers(p)
  BY <1>1, CleanupKeeps DEF ClearMarkers, TypeOK, ChainTypeOK, PCs, ChainPCs
<1>2. CASE PruneLocal(p)
  BY <1>2, CleanupKeeps DEF PruneLocal, TypeOK, ChainTypeOK, PCs, ChainPCs
<1>3. CASE SweepOver(p)
  BY <1>3, CleanupKeeps DEF SweepOver, TypeOK, ChainTypeOK, PCs, ChainPCs
<1>4. ASSUME NEW r \in Pods, SweepEntries(p, r) PROVE PodInv(q)'
  BY <1>4 DEF SweepEntries, TypeOK, ChainTypeOK, PodInv, FreshInv, FileInv, BeingWritten,
         DumpInv, CompressInv, EncryptInv, FinishInv, Active, Stopped, OfForm
<1>5. ASSUME NEW r \in Pods, SweepDir(p, r) PROVE PodInv(q)'
  BY <1>5, SameKeeps DEF SweepDir
<1>6. QED BY <1>1, <1>2, <1>3, <1>4, <1>5 DEF Cleanup

\* dump writes into an empty directory, and its marker comes after sed.
LEMMA DumpStep ==
  ASSUME TypeOK, NEW p \in Pods, Dump(p), NEW q \in Pods, PodInv(q)
  PROVE  PodInv(q)'
<1> USE StageFacts DEF TypeOK, ChainTypeOK, PodInv, FreshInv, FileInv, BeingWritten, DumpInv,
         CompressInv, EncryptInv, FinishInv, Active, Stopped, OfForm
<1>1. CASE DumpStart(p)
  <2>1. CASE p \in dir
    BY <1>1, <2>1 DEF DumpStart, Go, Plain, Named
  <2>2. CASE p \notin dir
    BY <1>1, <2>2, ExitKeeps DEF DumpStart
  <2>3. QED BY <2>1, <2>2
<1>2. CASE DumpOk(p)
  <2>1. CASE q # p
    BY <1>2, <2>1, OtherKeeps DEF DumpOk, Go
  <2>2. CASE q = p
    <3>1. /\ pc'[p]["dump"] \in {"rewrite", "finish"}
          /\ \A r \in Stages \ {"dump"} : pc'[p][r] = pc[p][r]
      <4> HIDE DEF TypeOK, ChainTypeOK, PodInv, FreshInv, FileInv, DumpInv,
                  CompressInv, EncryptInv, FinishInv
      <4> QED BY <1>2, BGoFacts DEF DumpOk
    <3>2. /\ \A f \in files'[p] : f.name = name[p] /\ f.q = "torn" => f.form # "plain"
          /\ \A f \in files'[p] : f \in files[p] \/ f = Plain(name[p], "whole")
          /\ name' = name /\ markers' = markers
      BY <1>2 DEF DumpOk, Plain, File
    <3>3. QED
      <4> HIDE DEF TypeOK, ChainTypeOK
      <4>1. FreshInv(p)'
        BY <1>2, <2>2, <3>1, <3>2 DEF DumpOk, Plain
      <4>2. FileInv(p)'
        BY <1>2, <2>2, <3>1, <3>2 DEF DumpOk, Plain
      <4>3. DumpInv(p)'
        BY <1>2, <2>2, <3>1, <3>2 DEF DumpOk, Plain
      <4>4. CompressInv(p)'
        BY <1>2, <2>2, <3>1, <3>2 DEF DumpOk, Plain
      <4>5. EncryptInv(p)'
        BY <1>2, <2>2, <3>1, <3>2 DEF DumpOk, Plain
      <4>6. FinishInv(p)'
        BY <1>2, <2>2, <3>1, <3>2 DEF DumpOk, Plain
      <4>7. QED BY <2>2, <4>1, <4>2, <4>3, <4>4, <4>5, <4>6 DEF PodInv
  <2>3. QED BY <2>1, <2>2
<1>3. CASE DumpFails(p)
  BY <1>3, ExitKeeps, ZenonT(60) DEF DumpFails
<1>4. CASE RewriteStart(p)
  <2>1. CASE Plain(name[p], "whole") \in files[p]
    <3>1. CASE q # p
      BY <1>4, <2>1, <3>1, OtherKeeps DEF RewriteStart, Go
    <3>2. CASE q = p
      <4>1. /\ pc'[p]["dump"] = "sed"
            /\ \A r \in Stages \ {"dump"} : pc'[p][r] = pc[p][r]
        <5> HIDE DEF TypeOK, ChainTypeOK, PodInv, FreshInv, FileInv, DumpInv,
                    CompressInv, EncryptInv, FinishInv
        <5> QED BY <1>4, <2>1, BGoFacts DEF RewriteStart
      <4>2. files'[p] = files[p] \cup {SedTmp(name[p])} /\ name' = name /\ markers' = markers
        BY <1>4, <2>1 DEF RewriteStart
      <4>3. QED
        <5> HIDE DEF TypeOK, ChainTypeOK
        <5>1. FreshInv(p)'
          BY <1>4, <3>2, <4>1, <4>2 DEF RewriteStart, SedTmp
        <5>2. FileInv(p)'
          BY <1>4, <3>2, <4>1, <4>2 DEF RewriteStart, SedTmp
        <5>3. DumpInv(p)'
          BY <1>4, <3>2, <4>1, <4>2 DEF RewriteStart, SedTmp
        <5>4. CompressInv(p)'
          BY <1>4, <3>2, <4>1, <4>2 DEF RewriteStart, SedTmp
        <5>5. EncryptInv(p)'
          BY <1>4, <3>2, <4>1, <4>2 DEF RewriteStart, SedTmp
        <5>6. FinishInv(p)'
          BY <1>4, <3>2, <4>1, <4>2 DEF RewriteStart, SedTmp
        <5>7. QED BY <3>2, <5>1, <5>2, <5>3, <5>4, <5>5, <5>6 DEF PodInv
    <3>3. QED BY <3>1, <3>2
  <2>2. CASE Plain(name[p], "whole") \notin files[p]
    BY <1>4, <2>2, ExitKeeps DEF RewriteStart
  <2>3. QED BY <2>1, <2>2
<1>5. CASE RewriteEnds(p)
  <2>1. CASE q # p
    BY <1>5, <2>1, OtherKeeps DEF RewriteEnds, Go, Exit1
  <2>2. CASE q = p
    <3>1. /\ pc'[p]["dump"] \in {"finish", "err"}
          /\ \A r \in Stages \ {"dump"} : pc'[p][r] = pc[p][r]
      <4> HIDE DEF TypeOK, ChainTypeOK, PodInv, FreshInv, FileInv, DumpInv,
                  CompressInv, EncryptInv, FinishInv
      <4> QED BY <1>5, BGoFacts DEF RewriteEnds, Exit1
    <3>2. /\ files'[p] = files[p] \ {SedTmp(name[p])} /\ name' = name
          /\ markers'[p] \subseteq markers[p] \cup {"failed"}
      BY <1>5 DEF RewriteEnds, Exit1
    <3>3. \A f \in files[p] : f.form = "sedtmp" => f = SedTmp(name[p])
      BY <2>2 DEF File, SedTmp
    <3>4. QED
      <4> HIDE DEF TypeOK, ChainTypeOK
      <4>1. FreshInv(p)'
        BY <1>5, <2>2, <3>1, <3>2, <3>3 DEF RewriteEnds, SedTmp
      <4>2. FileInv(p)'
        BY <1>5, <2>2, <3>1, <3>2, <3>3 DEF RewriteEnds, SedTmp
      <4>3. DumpInv(p)'
        BY <1>5, <2>2, <3>1, <3>2, <3>3 DEF RewriteEnds, SedTmp
      <4>4. CompressInv(p)'
        BY <1>5, <2>2, <3>1, <3>2, <3>3 DEF RewriteEnds, SedTmp
      <4>5. EncryptInv(p)'
        BY <1>5, <2>2, <3>1, <3>2, <3>3 DEF RewriteEnds, SedTmp
      <4>6. FinishInv(p)'
        BY <1>5, <2>2, <3>1, <3>2, <3>3 DEF RewriteEnds, SedTmp
      <4>7. QED BY <2>2, <4>1, <4>2, <4>3, <4>4, <4>5, <4>6 DEF PodInv
  <2>3. QED BY <2>1, <2>2
<1>6. CASE SummaryFails(p)
  BY <1>6, ExitKeeps, ZenonT(60) DEF SummaryFails
<1>7. QED BY <1>1, <1>2, <1>3, <1>4, <1>5, <1>6 DEF Dump

\* compress works when dump is through, and leaves complete .gz files only.
LEMMA CompressStep ==
  ASSUME TypeOK, NEW p \in Pods, Compress(p), NEW q \in Pods, PodInv(q)
  PROVE  PodInv(q)'
<1> USE StageFacts DEF TypeOK, ChainTypeOK, PodInv, FreshInv, FileInv, BeingWritten, DumpInv,
         CompressInv, EncryptInv, FinishInv, Active, Stopped, OfForm
<1>1. CASE GzipStart(p)
  <2>0. PICK f \in First(OfForm(p, "plain")) :
          IF Named(OfForm(p, "gz"), f.name) = {}
          THEN /\ Go(p, "compress", "gzip")
               /\ files' = [files EXCEPT ![p] = @ \cup {Output(f, "gz", "torn")}]
               /\ UNCHANGED markers
          ELSE Exit1(p, "compress") /\ UNCHANGED files
    BY <1>1 DEF GzipStart
  <2>1. CASE Exit1(p, "compress") /\ UNCHANGED files
    BY <1>1, <2>1, ExitKeeps, ZenonT(60) DEF GzipStart
  <2>2. CASE Go(p, "compress", "gzip") /\ UNCHANGED markers
             /\ files' = [files EXCEPT ![p] = @ \cup {Output(f, "gz", "torn")}]
    <3>1. CASE q # p
      BY <1>1, <2>2, <3>1, OtherKeeps DEF GzipStart, Go
    <3>2. CASE q = p
      <4>1. /\ pc'[p]["compress"] = "gzip"
            /\ \A r \in Stages \ {"compress"} : pc'[p][r] = pc[p][r]
        <5> HIDE DEF TypeOK, ChainTypeOK, PodInv, FreshInv, FileInv, DumpInv,
                    CompressInv, EncryptInv, FinishInv
        <5> QED BY <2>2, BGoFacts
      <4>2. /\ files'[p] = files[p] \cup {Output(f, "gz", "torn")}
            /\ name' = name /\ markers' = markers /\ f \in files[p]
        BY <1>1, <2>2 DEF GzipStart, First
      <4>3. QED
        <5> HIDE DEF TypeOK, ChainTypeOK
        <5>1. FreshInv(p)'
          BY <1>1, <3>2, <4>1, <4>2 DEF GzipStart, Output
        <5>2. FileInv(p)'
          BY <1>1, <3>2, <4>1, <4>2 DEF GzipStart, Output
        <5>3. DumpInv(p)'
          BY <1>1, <3>2, <4>1, <4>2 DEF GzipStart, Output
        <5>4. CompressInv(p)'
          BY <1>1, <3>2, <4>1, <4>2 DEF GzipStart, Output
        <5>5. EncryptInv(p)'
          BY <1>1, <3>2, <4>1, <4>2 DEF GzipStart, Output
        <5>6. FinishInv(p)'
          BY <1>1, <3>2, <4>1, <4>2 DEF GzipStart, Output
        <5>7. QED BY <3>2, <5>1, <5>2, <5>3, <5>4, <5>5, <5>6 DEF PodInv
    <3>3. QED BY <3>1, <3>2
  <2>3. QED BY <2>0, <2>1, <2>2
<1>2. CASE GzipOk(p)
  <2>1. CASE q # p
    BY <1>2, <2>1, OtherKeeps DEF GzipOk, Go
  <2>2. CASE q = p
    <3>1. PICK f \in First(OfForm(p, "plain")) :
            files' = [files EXCEPT ![p] =
              (@ \ {f, Output(f, "gz", "torn")}) \cup {Output(f, "gz", Packed(f.q))}]
      BY <1>2 DEF GzipOk
    <3>2. /\ pc'[p]["compress"] = "more"
          /\ \A r \in Stages \ {"compress"} : pc'[p][r] = pc[p][r]
      <4> HIDE DEF TypeOK, ChainTypeOK, PodInv, FreshInv, FileInv, DumpInv,
                  CompressInv, EncryptInv, FinishInv
      <4> QED BY <1>2, BGoFacts DEF GzipOk
    <3>3. /\ f \in files[p] /\ f.form = "plain" /\ f.q = "whole" /\ f.name = name[p]
          /\ name' = name /\ markers' = markers
      BY <1>2, <2>2 DEF GzipOk, First
    <3>4. \A g \in files[p] : g.form = "gz" /\ g.q = "torn" => g = Output(f, "gz", "torn")
      BY <2>2, <3>3 DEF Output, File
    <3>5. \A g \in files'[p] :
            \/ g \in files[p] /\ ~(g.form = "gz" /\ g.q = "torn") /\ g # f
            \/ g = Output(f, "gz", "whole")
      BY <3>1, <3>3, <3>4 DEF Packed
    <3>6. QED
      <4> HIDE DEF TypeOK, ChainTypeOK
      <4>1. FreshInv(p)'
        BY <1>2, <2>2, <3>2, <3>3, <3>5 DEF GzipOk, Output
      <4>2. FileInv(p)'
        BY <1>2, <2>2, <3>2, <3>3, <3>5 DEF GzipOk, Output
      <4>3. DumpInv(p)'
        BY <1>2, <2>2, <3>2, <3>3, <3>5 DEF GzipOk, Output
      <4>4. CompressInv(p)'
        BY <1>2, <2>2, <3>2, <3>3, <3>5 DEF GzipOk, Output
      <4>5. EncryptInv(p)'
        BY <1>2, <2>2, <3>2, <3>3, <3>5 DEF GzipOk, Output
      <4>6. FinishInv(p)'
        BY <1>2, <2>2, <3>2, <3>3, <3>5 DEF GzipOk, Output
      <4>7. QED BY <2>2, <4>1, <4>2, <4>3, <4>4, <4>5, <4>6 DEF PodInv
  <2>3. QED BY <2>1, <2>2
<1>3. CASE GzipFails(p)
  BY <1>3 DEF GzipFails, Exit1, Go
<1>4. QED BY <1>1, <1>2, <1>3 DEF Compress

\* encrypt works when compress is through, and leaves complete .gpg files only.
LEMMA EncryptStep ==
  ASSUME TypeOK, NEW p \in Pods, Encrypt(p), NEW q \in Pods, PodInv(q)
  PROVE  PodInv(q)'
<1> USE StageFacts DEF TypeOK, ChainTypeOK, PodInv, FreshInv, FileInv, BeingWritten, DumpInv,
         CompressInv, EncryptInv, FinishInv, Active, Stopped, OfForm
<1>1. CASE GpgStart(p)
  BY <1>1 DEF GpgStart, Go, First, Output, Named
<1>2. CASE GpgOk(p)
  <2>1. CASE q # p
    BY <1>2, <2>1, OtherKeeps DEF GpgOk, Go
  <2>2. CASE q = p
    <3>1. PICK f \in First(OfForm(p, "gz")) :
            files' = [files EXCEPT ![p] =
              (@ \ {f, Output(f, "gpg", "torn")}) \cup {Output(f, "gpg", Packed(f.q))}]
      BY <1>2 DEF GpgOk
    <3>2. /\ pc'[p]["encrypt"] = "copy"
          /\ \A r \in Stages \ {"encrypt"} : pc'[p][r] = pc[p][r]
      <4> HIDE DEF TypeOK, ChainTypeOK, PodInv, FreshInv, FileInv, DumpInv,
                  CompressInv, EncryptInv, FinishInv
      <4> QED BY <1>2, BGoFacts DEF GpgOk
    <3>3. /\ f \in files[p] /\ f.form = "gz" /\ f.q = "whole" /\ f.name = name[p]
          /\ name' = name /\ markers' = markers
      BY <1>2, <2>2 DEF GpgOk, First
    <3>4. \A g \in files[p] : g.form = "gpg" /\ g.q = "torn" => g = Output(f, "gpg", "torn")
      BY <2>2, <3>3 DEF Output, File
    <3>5. \A g \in files'[p] :
            \/ g \in files[p] /\ ~(g.form = "gpg" /\ g.q = "torn") /\ g # f
            \/ g = Output(f, "gpg", "whole")
      BY <3>1, <3>3, <3>4 DEF Packed
    <3>6. QED
      <4> HIDE DEF TypeOK, ChainTypeOK
      <4>1. FreshInv(p)'
        BY <1>2, <2>2, <3>2, <3>3, <3>5 DEF GpgOk, Output
      <4>2. FileInv(p)'
        BY <1>2, <2>2, <3>2, <3>3, <3>5 DEF GpgOk, Output
      <4>3. DumpInv(p)'
        BY <1>2, <2>2, <3>2, <3>3, <3>5 DEF GpgOk, Output
      <4>4. CompressInv(p)'
        BY <1>2, <2>2, <3>2, <3>3, <3>5 DEF GpgOk, Output
      <4>5. EncryptInv(p)'
        BY <1>2, <2>2, <3>2, <3>3, <3>5 DEF GpgOk, Output
      <4>6. FinishInv(p)'
        BY <1>2, <2>2, <3>2, <3>3, <3>5 DEF GpgOk, Output
      <4>7. QED BY <2>2, <4>1, <4>2, <4>3, <4>4, <4>5, <4>6 DEF PodInv
  <2>3. QED BY <2>1, <2>2
<1>3. CASE GpgFails(p)
  BY <1>3, ExitKeeps, ZenonT(60) DEF GpgFails
<1>4. CASE CopyStart(p)
  <2>1. CASE Exit1(p, "encrypt")
    BY <1>4, <2>1, ExitKeeps, ZenonT(60) DEF CopyStart
  <2>2. CASE Go(p, "encrypt", "copying") /\ UNCHANGED markers
    <3>1. CASE q # p
      BY <1>4, <2>2, <3>1, OtherKeeps DEF CopyStart, Go
    <3>2. CASE q = p
      <4>1. /\ pc'[p]["encrypt"] = "copying"
            /\ \A r \in Stages \ {"encrypt"} : pc'[p][r] = pc[p][r]
        <5> HIDE DEF TypeOK, ChainTypeOK, PodInv, FreshInv, FileInv, DumpInv,
                    CompressInv, EncryptInv, FinishInv
        <5> QED BY <2>2, BGoFacts
      <4>2. files' = files /\ name' = name /\ markers' = markers
        BY <1>4, <2>2 DEF CopyStart
      <4>3. QED BY <1>4, <3>2, <4>1, <4>2 DEF CopyStart
    <3>3. QED BY <3>1, <3>2
  <2>3. QED BY <1>4, <2>1, <2>2 DEF CopyStart
<1>5. CASE CopyEnds(p)
  <2>1. CASE Exit1(p, "encrypt")
    BY <1>5, <2>1, ExitKeeps, ZenonT(60) DEF CopyEnds
  <2>2. CASE Go(p, "encrypt", "more") /\ UNCHANGED markers
    <3>1. CASE q # p
      BY <1>5, <2>2, <3>1, OtherKeeps DEF CopyEnds, Go
    <3>2. CASE q = p
      <4>1. /\ pc'[p]["encrypt"] = "more"
            /\ \A r \in Stages \ {"encrypt"} : pc'[p][r] = pc[p][r]
        <5> HIDE DEF TypeOK, ChainTypeOK, PodInv, FreshInv, FileInv, DumpInv,
                    CompressInv, EncryptInv, FinishInv
        <5> QED BY <2>2, BGoFacts
      <4>2. files' = files /\ name' = name /\ markers' = markers
        BY <1>5, <2>2 DEF CopyEnds
      <4>3. QED BY <1>5, <3>2, <4>1, <4>2 DEF CopyEnds
    <3>3. QED BY <3>1, <3>2
  <2>3. QED BY <1>5, <2>1, <2>2 DEF CopyEnds
<1>6. CASE Release(p)
  <2>1. CASE p \in dir
    BY <1>6, <2>1 DEF Release, TouchThen, Go
  <2>2. CASE p \notin dir
    BY <1>6, <2>2, ExitKeeps, ZenonT(60) DEF Release, TouchThen
  <2>3. QED BY <2>1, <2>2
<1>7. QED BY <1>1, <1>2, <1>3, <1>4, <1>5, <1>6 DEF Encrypt

\* s3-sync reads the directory and changes nothing in it.
LEMMA S3SyncStep ==
  ASSUME TypeOK, NEW p \in Pods, S3Sync(p), NEW q \in Pods, PodInv(q)
  PROVE  PodInv(q)'
<1> USE StageFacts DEF TypeOK, ChainTypeOK, PodInv, FreshInv, FileInv, BeingWritten, DumpInv,
         CompressInv, EncryptInv, FinishInv, Active, Stopped, OfForm
<1>0. S3Enabled
  BY DEF S3Sync
<1>1. CASE Mirror(p)
  BY <1>0, <1>1 DEF Mirror, Go
<1>2. CASE MirrorFails(p)
  BY <1>0, <1>2, ExitKeeps DEF MirrorFails
<1>3. CASE PruneS3(p)
  <2>1. CASE Exit1(p, "s3-sync")
    BY <1>0, <1>3, <2>1, ExitKeeps DEF PruneS3
  <2>2. CASE Go(p, "s3-sync", "finish") /\ UNCHANGED markers
    <3>1. CASE q # p
      BY <1>0, <1>3, <2>2, <3>1, OtherKeeps DEF PruneS3, Go
    <3>2. CASE q = p
      <4>1. /\ pc'[p]["s3-sync"] = "finish"
            /\ \A r \in Stages \ {"s3-sync"} : pc'[p][r] = pc[p][r]
        <5> HIDE DEF TypeOK, ChainTypeOK, PodInv, FreshInv, FileInv, DumpInv,
                    CompressInv, EncryptInv, FinishInv
        <5> QED BY <1>0, <2>2, BGoFacts
      <4>2. files' = files /\ name' = name /\ markers' = markers
        BY <1>0, <1>3, <2>2 DEF PruneS3
      <4>3. QED BY <1>0, <1>3, <3>2, <4>1, <4>2 DEF PruneS3
    <3>3. QED BY <3>1, <3>2
  <2>3. QED BY <1>0, <1>3, <2>1, <2>2 DEF PruneS3
<1>4. QED BY <1>1, <1>2, <1>3 DEF S3Sync

\* A stage that begins does so on the marker of the one before, one that
\* writes its marker has nothing left to do, and one that dies writes none.
LEMMA PollStep ==
  ASSUME TypeOK, NEW p \in Pods, NEW s \in Stages,
         \/ LoopOver(p, s)
         \/ UNCHANGED data /\ (Poll(p, s) \/ TimesOut(p, s) \/ Kill(p, s)),
         NEW q \in Pods, PodInv(q)
  PROVE  PodInv(q)'
<1> USE StageFacts DEF data, TypeOK, ChainTypeOK, PodInv, FreshInv, FileInv, BeingWritten, DumpInv,
         CompressInv, EncryptInv, FinishInv, Active, Stopped, OfForm
<1>1. CASE UNCHANGED data /\ StartContainer(p, s)
  BY <1>1 DEF StartContainer, Go
<1>2. CASE UNCHANGED data /\ Begin(p, s)
  <2>1. CASE q # p
    <3>1. pc'[q] = pc[q] /\ markers'[q] = markers[q]
      BY <1>2, <2>1 DEF Begin, Go
    <3>2. QED BY <1>2, <3>1, OtherKeeps
  <2>2. CASE q = p
    <3>1. /\ pc[p][s] = "wait" /\ pc'[p][s] \in {"ok", "hold", "work"}
          /\ \A r \in Stages \ {s} : pc'[p][r] = pc[p][r]
          /\ files' = files /\ name' = name /\ markers'[p] \subseteq markers[p]
      BY <1>2 DEF Begin, Go
    <3>2. s # "cleanup" => Before(s) \in markers[p]
      BY <1>2 DEF Begin, Missing, Polling, Awaited
    <3>3. pc'[p][s] # "work" => After(s) \in markers[p]
      BY <1>2 DEF Begin, Go
    <3>4. QED
      <4> HIDE DEF TypeOK, ChainTypeOK
      <4>1. CASE s = "cleanup"
        BY <2>2, <3>1, <4>1
      <4>2. CASE s = "dump"
        BY <2>2, <3>1, <3>2, <3>3, <4>2 DEF Before, After
      <4>3. CASE s = "compress"
        BY <2>2, <3>1, <3>2, <3>3, <4>3 DEF Before, After
      <4>4. CASE s = "encrypt"
        BY <2>2, <3>1, <3>2, <3>3, <4>4 DEF Before, After
      <4>5. CASE s = "s3-sync"
        BY <2>2, <3>1, <3>2, <3>3, <4>5 DEF Before, After
      <4>6. QED BY <4>1, <4>2, <4>3, <4>4, <4>5
  <2>3. QED BY <2>1, <2>2
<1>3. CASE UNCHANGED data /\ HoldEnds(p, s)
  BY <1>3 DEF HoldEnds, Go
<1>4. CASE UNCHANGED data /\ PeerFailed(p, s)
  <2>1. Exit1(p, s) /\ UNCHANGED <<files, name>>
    BY <1>4 DEF PeerFailed
  <2>2. QED BY <2>1, ExitKeeps, ZenonT(60)
<1>5. CASE UNCHANGED data /\ TouchDone(p, s)
  <2>1. CASE p \in dir
    <3>1. CASE q # p
      BY <1>5, <2>1, <3>1, OtherKeeps DEF TouchDone, TouchThen, Go
    <3>2. CASE q = p
      <4>1. /\ pc'[p][s] = AfterTouch(s)
            /\ \A r \in Stages \ {s} : pc'[p][r] = pc[p][r]
        <5> HIDE DEF TypeOK, ChainTypeOK, PodInv, FreshInv, FileInv, DumpInv,
                    CompressInv, EncryptInv, FinishInv
        <5> QED BY <1>5, <2>1, BGoFacts DEF TouchDone, TouchThen, AfterTouch
      <4>2. /\ files' = files /\ name' = name
            /\ markers'[p] = markers[p] \cup {After(s)}
        BY <1>5, <2>1 DEF TouchDone, TouchThen
      <4>3. \A f \in files[p] : f.form \in {"plain", "sedtmp", "gz", "gpg"}
        BY DEF File, Forms
      <4>4. QED
        <5> HIDE DEF TypeOK, ChainTypeOK
        <5>1. FreshInv(p)'
          BY <1>5, <3>2, <4>1, <4>2 DEF TouchDone, After, AfterTouch
        <5>2. FileInv(p)'
          BY <1>5, <3>2, <4>1, <4>2 DEF TouchDone, After, AfterTouch
        <5>3. DumpInv(p)'
          BY <1>5, <3>2, <4>1, <4>2 DEF TouchDone, After, AfterTouch
        <5>4. CompressInv(p)'
          BY <1>5, <3>2, <4>1, <4>2, <4>3 DEF TouchDone, After, AfterTouch
        <5>5. EncryptInv(p)'
          BY <1>5, <3>2, <4>1, <4>2 DEF TouchDone, After, AfterTouch
        <5>6. FinishInv(p)'
          BY <1>5, <3>2, <4>1, <4>2 DEF TouchDone, After, AfterTouch
        <5>7. QED BY <3>2, <5>1, <5>2, <5>3, <5>4, <5>5, <5>6 DEF PodInv
    <3>3. QED BY <3>1, <3>2
  <2>2. CASE p \notin dir
    BY <1>5, <2>2, ExitKeeps, ZenonT(60) DEF TouchDone, TouchThen
  <2>3. QED BY <2>1, <2>2
<1>6. CASE LoopOver(p, s)
  <2>1. CASE Exit1(p, s)
    BY <1>6, <2>1, ExitKeeps DEF LoopOver
  <2>2. CASE pc[p][s] = "more" /\ Go(p, s, "finish") /\ UNCHANGED markers
    <3>1. CASE q # p
      BY <1>6, <2>2, <3>1, OtherKeeps DEF LoopOver, Go
    <3>2. CASE q = p
      <4>1. /\ pc'[p][s] = "finish"
            /\ \A r \in Stages \ {s} : pc'[p][r] = pc[p][r]
        <5> HIDE DEF TypeOK, ChainTypeOK, PodInv, FreshInv, FileInv, DumpInv,
                    CompressInv, EncryptInv, FinishInv
        <5> QED BY <2>2, BGoFacts
      <4>2. files' = files /\ name' = name /\ markers' = markers
        BY <1>6, <2>2 DEF LoopOver
      <4>3. CASE s = "compress"
        BY <1>6, <2>2, <3>2, <4>1, <4>2, <4>3 DEF LoopOver, Input
      <4>4. CASE s = "encrypt"
        BY <1>6, <2>2, <3>2, <4>1, <4>2, <4>4 DEF LoopOver, Input
      <4>5. QED BY <1>6, <4>3, <4>4 DEF LoopOver
    <3>3. QED BY <3>1, <3>2
  <2>3. QED BY <1>6, <2>1, <2>2 DEF LoopOver
<1>7. CASE UNCHANGED data /\ TimesOut(p, s)
  BY <1>7, ExitKeeps, ZenonT(60) DEF TimesOut
<1>8. CASE UNCHANGED data /\ Kill(p, s)
  BY <1>8, ErrKeeps, ZenonT(60) DEF Kill
<1>9. QED BY <1>1, <1>2, <1>3, <1>4, <1>5, <1>6, <1>7, <1>8 DEF Poll

\* S3 and retained/ only ever receive gpg output, and S3 complete dumps only.
LEMMA OutStep ==
  ASSUME TypeOK, HandOver, Next
  PROVE  NoPlaintextLeavesPod' /\ OnlyWholeDumpsInS3'
<1> USE DEF HandOver, NoPlaintextLeavesPod, OnlyWholeDumpsInS3
<1>1. ASSUME NEW p \in Pods, S3Sync(p)
      PROVE  NoPlaintextLeavesPod' /\ OnlyWholeDumpsInS3'
  <2>1. S3Enabled /\ UNCHANGED retained
    BY <1>1 DEF S3Sync, Mirror, MirrorFails, PruneS3
  <2>2. pc[p]["s3-sync"] = "work" => \A f \in files[p] : f.form = "gpg" /\ f.q = "whole"
    BY <2>1 DEF PodInv, EncryptInv, Active
  <2>3. \A o \in s3' : o \in s3 \/ (o.form = "gpg" /\ o.q = "whole")
    BY <1>1, <2>2 DEF S3Sync, Mirror, MirrorFails, PruneS3, Object
  <2>4. QED BY <2>1, <2>3
<1>2. ASSUME NEW p \in Pods, CopyStart(p) \/ CopyEnds(p)
      PROVE  NoPlaintextLeavesPod' /\ OnlyWholeDumpsInS3'
  BY <1>2 DEF CopyStart, CopyEnds, Copied, Last, OfForm, Named
<1>3. ASSUME NEW p \in Pods, PruneLocal(p)
      PROVE  NoPlaintextLeavesPod' /\ OnlyWholeDumpsInS3'
  BY <1>3 DEF PruneLocal
<1>4. CASE UNCHANGED <<s3, retained>>
  BY <1>4
<1>5. \/ UNCHANGED <<s3, retained>>
      \/ \E p \in Pods : S3Sync(p) \/ CopyStart(p) \/ CopyEnds(p) \/ PruneLocal(p)
  <2>1. ASSUME NEW p \in Pods, Cleanup(p)
        PROVE  UNCHANGED <<s3, retained>> \/ PruneLocal(p)
    BY <2>1 DEF Cleanup, ClearMarkers, SweepEntries, SweepDir, SweepOver
  <2>2. ASSUME NEW p \in Pods, Dump(p) \/ Compress(p) PROVE UNCHANGED <<s3, retained>>
    BY <2>2 DEF Dump, DumpStart, DumpOk, DumpFails, RewriteStart, RewriteEnds,
         SummaryFails, Compress, GzipStart, GzipOk, GzipFails
  <2>3. ASSUME NEW p \in Pods, Encrypt(p)
        PROVE  UNCHANGED <<s3, retained>> \/ CopyStart(p) \/ CopyEnds(p)
    BY <2>3 DEF Encrypt, GpgStart, GpgOk, GpgFails, Release
  <2>4. ASSUME NEW p \in Pods, NEW s \in Stages,
               LoopOver(p, s) \/ RestartStage(p, s)
        PROVE  UNCHANGED <<s3, retained>>
    BY <2>4 DEF LoopOver, RestartStage
  <2>5. CASE UNCHANGED data
    BY <2>5 DEF data
  <2>6. CASE Tick \/ UNCHANGED vars
    BY <2>6 DEF Tick, vars, chain, data
  <2>7. QED BY <2>1, <2>2, <2>3, <2>4, <2>5, <2>6 DEF Next
<1>6. QED BY <1>1, <1>2, <1>3, <1>4, <1>5

\* The hand-over discipline of the markers is an invariant of pods whose
\* containers are not restarted in place, however pods overlap, whatever
\* fails, and whichever containers die without a trace.
THEOREM HandOverInvariance ==
  ASSUME RestartPolicy = "Never"
  PROVE  Spec => [](TypeOK /\ HandOver)
<1>1. Init => HandOver
  BY StageFacts DEF Init, ChainInit, HandOver, PodInv, FreshInv, FileInv, DumpInv, CompressInv,
         EncryptInv, FinishInv, Active, OfForm, NoPlaintextLeavesPod,
         OnlyWholeDumpsInS3
<1>2. TypeOK /\ HandOver /\ [Next]_vars => HandOver'
  <2>1. CASE UNCHANGED vars
    BY <2>1, SameKeeps DEF HandOver, NoPlaintextLeavesPod, OnlyWholeDumpsInS3, vars, chain, data
  <2>2. ASSUME TypeOK, HandOver, Next, NEW q \in Pods PROVE PodInv(q)'
    <3> PodInv(q)
      BY <2>2 DEF HandOver
    <3>1. ASSUME NEW p \in Pods, StartPod(p), UNCHANGED data PROVE PodInv(q)'
      BY <2>2, <3>1, StageFacts DEF StartPod, data, TypeOK, ChainTypeOK, PodInv, FreshInv, FileInv,
         BeingWritten, DumpInv, CompressInv, EncryptInv, FinishInv, Active,
         Stopped, OfForm
    <3>2. ASSUME NEW p \in Pods,
                 Cleanup(p) \/ Dump(p) \/ Compress(p) \/ Encrypt(p) \/ S3Sync(p)
          PROVE PodInv(q)'
      BY <2>2, <3>2, CleanupStep, DumpStep, CompressStep, EncryptStep, S3SyncStep
    <3>3. ASSUME NEW p \in Pods, NEW s \in Stages,
                 \/ LoopOver(p, s)
                 \/ UNCHANGED data /\ (Poll(p, s) \/ TimesOut(p, s) \/ Kill(p, s))
          PROVE PodInv(q)'
      BY <2>2, <3>3, PollStep
    <3>4. ASSUME NEW p \in Pods, Evict(p), UNCHANGED data PROVE PodInv(q)'
      BY <2>2, <3>4, StageFacts DEF Evict, data, AllStopped, TypeOK, ChainTypeOK, PodInv, FreshInv,
         FileInv, BeingWritten, DumpInv, CompressInv, EncryptInv, FinishInv,
         Active, Stopped, OfForm
    <3>5. ASSUME NEW p \in Pods,
                 BackoffExceeded(p) \/ \E s \in Stages : RestartStage(p, s)
          PROVE PodInv(q)'
      BY <3>5 DEF BackoffExceeded, RestartStage, Restart, MayRestart
    <3>6. CASE Tick \/ UNCHANGED vars
      BY <3>6, SameKeeps DEF Tick, vars, chain, data
    <3>7. QED BY <2>2, <3>1, <3>2, <3>3, <3>4, <3>5, <3>6 DEF Next
  <2>3. QED BY <2>1, <2>2, OutStep DEF HandOver
<1>3. QED BY <1>1, <1>2, TypeInvariance, PTL DEF Spec

\* Only gpg output reaches S3 and retained/.
THEOREM OnlyEncryptedLeaves ==
  ASSUME RestartPolicy = "Never"
  PROVE  Spec => []NoPlaintextLeavesPod
<1>1. HandOver => NoPlaintextLeavesPod
  BY DEF HandOver
<1>2. QED BY <1>1, HandOverInvariance, PTL

\* Only dumps whose programs all succeeded reach S3.
THEOREM OnlyWholeReachesS3 ==
  ASSUME RestartPolicy = "Never"
  PROVE  Spec => []OnlyWholeDumpsInS3
<1>1. HandOver => OnlyWholeDumpsInS3
  BY DEF HandOver
<1>2. QED BY <1>1, HandOverInvariance, PTL

---------------------------------------------------------------------------
(* The relay.                                                              *)

\* The stages of a backup pod, with s3-sync or without, are in order.
LEMMA BackupInOrder == InOrder
<1>1. Rank \in [Stages -> Nat]
  BY DEF Rank
<1>2. /\ Rank["cleanup"] = 1 /\ Rank["dump"] = 2 /\ Rank["compress"] = 3
      /\ Rank["encrypt"] = 4 /\ ("s3-sync" \in Stages => Rank["s3-sync"] = 5)
  BY StageFacts DEF Rank
<1>3. /\ After("cleanup") = "cleanup-done" /\ After("dump") = "dump-done"
      /\ After("compress") = "compress-done" /\ After("encrypt") = "encrypt-done"
      /\ After("s3-sync") = "job-done"
      /\ Before("dump") = "cleanup-done" /\ Before("compress") = "dump-done"
      /\ Before("encrypt") = "compress-done" /\ Before("s3-sync") = "encrypt-done"
  BY DEF After, Before
<1>4. \A r \in Stages, s \in Stages : Rank[r] \in Nat /\ (Rank[r] = Rank[s] => r = s)
  BY <1>1, <1>2, StageFacts
<1>5. \A s \in Stages \ {"cleanup"} : \E r \in Stages :
        /\ After(r) = Before(s) /\ Rank[r] < Rank[s]
        /\ \A q \in Stages : Rank[q] < Rank[s] => q = r \/ Rank[q] < Rank[r]
  <2>1. \A q \in Stages : Rank[q] < 3 => q = "dump" \/ Rank[q] < 2
    BY <1>2, StageFacts
  <2>2. \A q \in Stages : Rank[q] < 2 => q = "cleanup" \/ Rank[q] < 1
    BY <1>2, StageFacts
  <2>3. \A q \in Stages : Rank[q] < 4 => q = "compress" \/ Rank[q] < 3
    BY <1>2, StageFacts
  <2>4. \A q \in Stages : Rank[q] < 5 => q = "encrypt" \/ Rank[q] < 4
    BY <1>2, StageFacts
  <2>5. QED BY <1>2, <1>3, <2>1, <2>2, <2>3, <2>4, StageFacts
<1>6. \A s \in Stages : Rank["cleanup"] <= Rank[s]
  BY <1>2, StageFacts
<1>7. \A r \in Stages, s \in Stages : After(r) = After(s) => r = s
  BY <1>3, StageFacts
<1>8. \A s \in Stages : \/ s \in LastStages
                        \/ s = "encrypt" /\ "s3-sync" \notin Stages
                        => \A r \in Stages : r = s \/ Rank[r] < Rank[s]
  BY <1>2, StageFacts DEF LastStages
<1>9. \A s \in Stages : After(s) = "job-done" => s \in LastStages
  BY <1>3, StageFacts DEF LastStages
<1>10. QED BY <1>4, <1>5, <1>6, <1>7, <1>8, <1>9 DEF InOrder

\* Whatever a stage does besides polling is a move, or leaves the stages where
\* they are and at most takes markers away.
LEMMA BackupMoves ==
  ASSUME RestartPolicy = "Never", TypeOK, Next
  PROVE  \/ \E p \in Pods : PodMove(p) \/ \E s \in Stages : Move(p, s)
         \/ UNCHANGED pc /\ NoNewMarks
<1> USE StageFacts
<1>0. ChainTypeOK(PCs)
  BY DEF TypeOK
<1>1. ASSUME NEW p \in Pods, Cleanup(p)
      PROVE  Move(p, "cleanup") \/ (UNCHANGED pc /\ NoNewMarks)
  <2>1. CASE ClearMarkers(p) \/ PruneLocal(p) \/ SweepOver(p)
    <3>1. Works(p, "cleanup")
      BY <1>0, <2>1 DEF ClearMarkers, PruneLocal, SweepOver, Works, Quiet, Idle,
         Through, NoNewMarks, ChainTypeOK
    <3>2. QED BY <3>1 DEF Move
  <2>2. ASSUME NEW q \in Pods, SweepEntries(p, q) \/ SweepDir(p, q)
        PROVE  UNCHANGED pc /\ NoNewMarks
    BY <1>0, <2>2 DEF SweepEntries, SweepDir, NoNewMarks, ChainTypeOK
  <2>3. QED BY <1>1, <2>1, <2>2 DEF Cleanup
<1>2. ASSUME NEW p \in Pods, Dump(p) PROVE Move(p, "dump")
  <2>1. CASE Exit1(p, "dump")
    <3>1. pc[p]["dump"] # "ok"
      BY <1>2 DEF Dump, DumpStart, DumpOk, DumpFails, RewriteStart, RewriteEnds,
         SummaryFails
    <3>2. QED BY <1>0, <2>1, <3>1, ExitMarks DEF Move, Fails
  <2>2. CASE ~Exit1(p, "dump")
    <3>1. Works(p, "dump")
      BY <1>0, <1>2, <2>2 DEF Dump, DumpStart, DumpOk, DumpFails, RewriteStart,
         RewriteEnds, SummaryFails, Works, Quiet, Idle, Through, NoNewMarks
    <3>2. QED BY <3>1 DEF Move
  <2>3. QED BY <2>1, <2>2
<1>3. ASSUME NEW p \in Pods, Compress(p) PROVE Move(p, "compress")
  <2>1. CASE Exit1(p, "compress")
    <3>1. pc[p]["compress"] # "ok"
      BY <1>3 DEF Compress, GzipStart, GzipOk, GzipFails
    <3>2. QED BY <1>0, <2>1, <3>1, ExitMarks DEF Move, Fails
  <2>2. CASE ~Exit1(p, "compress")
    <3>1. Works(p, "compress")
      BY <1>0, <1>3, <2>2 DEF Compress, GzipStart, GzipOk, GzipFails,
         Works, Quiet, Idle, Through, NoNewMarks
    <3>2. QED BY <3>1 DEF Move
  <2>3. QED BY <2>1, <2>2
<1>4. ASSUME NEW p \in Pods, Encrypt(p) PROVE Move(p, "encrypt")
  <2>0. CASE Release(p)
    BY <1>0, <2>0, TouchMarks DEF Release, Move, Releases, Fails
  <2>1. CASE ~Release(p) /\ Exit1(p, "encrypt")
    <3>1. pc[p]["encrypt"] # "ok"
      BY <1>4, <2>1 DEF Encrypt, GpgStart, GpgOk, GpgFails, CopyStart, CopyEnds
    <3>2. QED BY <1>0, <2>1, <3>1, ExitMarks DEF Move, Fails
  <2>2. CASE ~Release(p) /\ ~Exit1(p, "encrypt")
    <3>1. Works(p, "encrypt")
      BY <1>0, <1>4, <2>2 DEF Encrypt, GpgStart, GpgOk, GpgFails, CopyStart, CopyEnds,
         Works, Quiet, Idle, Through, NoNewMarks
    <3>2. QED BY <3>1 DEF Move
  <2>3. QED BY <2>0, <2>1, <2>2
<1>5. ASSUME NEW p \in Pods, S3Sync(p) PROVE "s3-sync" \in Stages /\ Move(p, "s3-sync")
  <2>0. "s3-sync" \in Stages
    BY <1>5 DEF S3Sync
  <2>1. CASE Exit1(p, "s3-sync")
    <3>1. pc[p]["s3-sync"] # "ok"
      BY <1>5 DEF S3Sync, Mirror, MirrorFails, PruneS3
    <3>2. QED BY <1>0, <2>0, <2>1, <3>1, ExitMarks DEF Move, Fails
  <2>2. CASE ~Exit1(p, "s3-sync")
    <3>1. Works(p, "s3-sync")
      BY <1>0, <1>5, <2>2 DEF S3Sync, Mirror, MirrorFails, PruneS3,
         Works, Quiet, Idle, Through, NoNewMarks
    <3>2. QED BY <2>0, <3>1 DEF Move
  <2>3. QED BY <2>1, <2>2
<1>6. ASSUME NEW p \in Pods, NEW s \in Stages, LoopOver(p, s) PROVE Move(p, s)
  <2>1. CASE Exit1(p, s)
    <3>1. pc[p][s] # "ok"
      BY <1>6 DEF LoopOver
    <3>2. QED BY <1>0, <2>1, <3>1, ExitMarks DEF Move, Fails
  <2>2. CASE ~Exit1(p, s)
    <3>1. Works(p, s)
      BY <1>0, <1>6, <2>2 DEF LoopOver, Works, Quiet, Idle, Through, NoNewMarks
    <3>2. QED BY <3>1 DEF Move
  <2>3. QED BY <2>1, <2>2
<1>7. ASSUME NEW p \in Pods, NEW s \in Stages, RestartStage(p, s) PROVE FALSE
  BY <1>7 DEF RestartStage, Restart, MayRestart
<1>8. CASE Tick \/ UNCHANGED vars
  BY <1>8 DEF Tick, vars, chain, NoNewMarks
<1>9. QED
  BY <1>0, <1>1, <1>2, <1>3, <1>4, <1>5, <1>6, <1>7, <1>8, ChainMoves DEF Next

Turns == \A p \in Pods : TurnInv(p)

\* Every step is one of the relay, and keeps the stages in turn.
LEMMA BackupTurnStep ==
  ASSUME RestartPolicy = "Never", TypeOK, Turns, [Next]_vars
  PROVE  [R!Next]_(R!vars) /\ Turns'
<1> USE DEF Turns
<1>0. ChainTypeOK(PCs)
  BY DEF TypeOK
<1>1. ASSUME NEW p \in Pods, PodMove(p) PROVE [R!Next]_(R!vars) /\ Turns'
  BY <1>0, <1>1, BackupInOrder, PodMaps, TurnPod
<1>2. ASSUME NEW p \in Pods, NEW s \in Stages, Move(p, s)
      PROVE  [R!Next]_(R!vars) /\ Turns'
  BY <1>0, <1>2, BackupInOrder, MoveMaps, TurnMove
<1>3. CASE UNCHANGED pc /\ NoNewMarks
  BY <1>3, StillMaps, TurnSame, AfterFacts DEF NoNewMarks
<1>4. CASE UNCHANGED vars
  <2>1. UNCHANGED pc /\ NoNewMarks
    BY <1>4 DEF vars, chain, NoNewMarks
  <2>2. QED BY <1>3, <2>1
<1>5. QED BY <1>1, <1>2, <1>3, <1>4, BackupMoves

\* The stages of every pod stay in turn.
LEMMA BackupTurns ==
  ASSUME RestartPolicy = "Never"
  PROVE  Spec => []Turns
<1>1. Init => Turns
  BY RelayInit DEF Init, Turns
<1>2. TypeOK /\ Turns /\ [Next]_vars => Turns'
  BY BackupTurnStep
<1>3. QED BY <1>1, <1>2, TypeInvariance, PTL DEF Spec

\* The containers of a backup pod that are not restarted run a relay, although
\* they know of each other only through files others may remove.
THEOREM BackupTakesTurns ==
  ASSUME RestartPolicy = "Never"
  PROVE  Spec => TakesTurns
<1>1. Init => R!Init
  BY RelayInit DEF Init
<1>2. TypeOK /\ Turns /\ [Next]_vars => [R!Next]_(R!vars)
  BY BackupTurnStep
<1>3. QED BY <1>1, <1>2, TypeInvariance, BackupTurns, PTL DEF Spec, TakesTurns, R!Spec

---------------------------------------------------------------------------
(* Runs that do not overlap.                                               *)

\* cleanup removes directories of ended pods only, the markers of a live pod
\* are in order, and no other markers appear.
SweepInv == \A p \in Pods : \A x \in sweep[p] : Ended(x[1])
OwnMarks(p) == markers[p] \subseteq {After(s) : s \in Stages} \cup {"job-done", "failed"}
BackupInv ==
  /\ PodsInv /\ SweepInv
  /\ \A p \in Pods : OwnMarks(p) /\ (~Ended(p) => MarkInv(p))

\* A live pod fails in the open, and one that failed has not released its peers.
LifeInv ==
  NoneKilled => \A p \in Pods :
    /\ ~Ended(p) => Alive(p, FALSE)
    /\ p \notin dead /\ (\E s \in Stages : pc[p][s] = "err") => "job-done" \notin markers[p]

\* A stage of p at work: it goes on, exits non-zero or releases its peers.
OwnStep(p, s) ==
  /\ LifeStep(p, s, FALSE) /\ (Hop(p, s) \/ Frees(p, s)) /\ ContainerStep(p, s)
  /\ UNCHANGED <<dir, dead, restarts, kills>>
  /\ \A q \in Pods \ {p} : markers'[q] = markers[q]
  /\ markers'[p] \subseteq markers[p] \cup {"failed", "job-done"}

\* The stages' own actions, but for the sweeping of other directories.
StageAct(p) ==
  \/ ClearMarkers(p) \/ PruneLocal(p) \/ SweepOver(p)
  \/ Dump(p) \/ Compress(p) \/ Encrypt(p) \/ S3Sync(p) \/ \E s \in Stages : LoopOver(p, s)

ChainAct(p) ==
  /\ UNCHANGED data
  /\ \/ StartPod(p) \/ BackoffExceeded(p) \/ Evict(p)
     \/ \E s \in Stages : Poll(p, s) \/ TimesOut(p, s) \/ Kill(p, s)

\* A stage that goes on working, or exits non-zero, takes an OwnStep.
LEMMA WorksOn ==
  ASSUME TypeOK, NEW p \in Pods, NEW s \in Stages, pc[p][s] \notin Quiet,
         \/ Exit1(p, s)
         \/ \E to : to \notin Quiet /\ Go(p, s, to) /\ UNCHANGED markers,
         UNCHANGED <<dir, dead, restarts, kills>>
  PROVE  OwnStep(p, s)
<1> USE DEF Quiet, Idle, Through
<1>0. ChainTypeOK(PCs)
  BY DEF TypeOK
<1>1. CASE Exit1(p, s)
  <2>1. Go(p, s, "err") /\ Kept(p)
    BY <1>0, <1>1, ExitKept
  <2>2. (\A q \in Pods \ {p} : markers'[q] = markers[q]) /\ markers'[p] \subseteq markers[p] \cup {"failed"}
    BY <1>0, <1>1 DEF Exit1, ChainTypeOK
  <2>3. ContainerStep(p, s)
    BY <2>1, <2>2 DEF ContainerStep
  <2>4. LifeStep(p, s, FALSE) /\ Hop(p, s)
    BY <1>1, <2>1 DEF LifeStep, Hop
  <2>5. QED BY <2>2, <2>3, <2>4 DEF OwnStep
<1>2. ASSUME NEW to, to \notin Quiet, Go(p, s, to), UNCHANGED markers PROVE OwnStep(p, s)
  <2>1. ContainerStep(p, s)
    BY <1>2 DEF ContainerStep
  <2>2. LifeStep(p, s, FALSE) /\ Hop(p, s)
    BY <1>2 DEF LifeStep, Hop, Kept
  <2>3. QED BY <1>2, <2>1, <2>2 DEF OwnStep
<1>3. QED BY <1>1, <1>2

\* Every action of a stage is an OwnStep, and only cleanup makes a list to sweep.
LEMMA StageSteps ==
  ASSUME TypeOK, NEW p \in Pods, StageAct(p)
  PROVE  (\E s \in Stages : OwnStep(p, s)) /\ (PruneLocal(p) \/ UNCHANGED sweep)
<1> USE StageFacts DEF Quiet, Idle, Through
<1>0. ChainTypeOK(PCs)
  BY DEF TypeOK
<1>1. CASE ClearMarkers(p)
  <2>1. /\ pc[p]["cleanup"] = "work" /\ Go(p, "cleanup", "prune") /\ markers'[p] = {}
        /\ \A q \in Pods \ {p} : markers'[q] = markers[q]
        /\ UNCHANGED <<dir, dead, restarts, kills, sweep>>
    BY <1>0, <1>1 DEF ClearMarkers, ChainTypeOK
  <2>2. ContainerStep(p, "cleanup")
    BY <2>1 DEF ContainerStep
  <2>3. LifeStep(p, "cleanup", FALSE) /\ Hop(p, "cleanup")
    BY <2>1 DEF LifeStep, Hop
  <2>4. QED BY <2>1, <2>2, <2>3 DEF OwnStep
<1>2. CASE PruneLocal(p) \/ SweepOver(p)
  BY <1>2, WorksOn DEF PruneLocal, SweepOver
<1>3. CASE Dump(p)
  <2>1. UNCHANGED <<dir, dead, restarts, kills, sweep>> /\ pc[p]["dump"] \notin Quiet
    BY <1>3 DEF Dump, DumpStart, DumpOk, DumpFails, RewriteStart, RewriteEnds, SummaryFails
  <2>2. Exit1(p, "dump") \/ \E to : to \notin Quiet /\ Go(p, "dump", to) /\ UNCHANGED markers
    BY <1>3 DEF Dump, DumpStart, DumpOk, DumpFails, RewriteStart, RewriteEnds, SummaryFails
  <2>3. QED BY <2>1, <2>2, WorksOn
<1>4. CASE Compress(p)
  <2>1. UNCHANGED <<dir, dead, restarts, kills, sweep>> /\ pc[p]["compress"] \notin Quiet
    BY <1>4 DEF Compress, GzipStart, GzipOk, GzipFails
  <2>2. Exit1(p, "compress") \/ \E to : to \notin Quiet /\ Go(p, "compress", to) /\ UNCHANGED markers
    BY <1>4 DEF Compress, GzipStart, GzipOk, GzipFails
  <2>3. QED BY <2>1, <2>2, WorksOn
<1>5. CASE Release(p)
  <2>1. /\ pc[p]["encrypt"] = "release" /\ TouchThen(p, "encrypt", "job-done", "ok")
        /\ UNCHANGED <<dir, dead, restarts, kills, sweep>>
    BY <1>5 DEF Release
  <2>2. /\ (\A q \in Pods \ {p} : markers'[q] = markers[q])
        /\ markers'[p] \subseteq markers[p] \cup {"failed", "job-done"}
    BY <1>0, <2>1 DEF TouchThen, Exit1, ChainTypeOK
  <2>3. \/ Go(p, "encrypt", "ok") /\ Added(p, "job-done")
        \/ Go(p, "encrypt", "err") /\ Kept(p)
    BY <1>0, <2>1, TouchKept
  <2>4. ContainerStep(p, "encrypt")
    BY <2>1, <2>2, <2>3 DEF ContainerStep
  <2>5. LifeStep(p, "encrypt", FALSE) /\ (Hop(p, "encrypt") \/ Frees(p, "encrypt"))
    BY <2>1, <2>3 DEF LifeStep, Hop, Frees
  <2>6. QED BY <2>1, <2>2, <2>4, <2>5 DEF OwnStep
<1>6. CASE Encrypt(p) /\ ~Release(p)
  <2>1. UNCHANGED <<dir, dead, restarts, kills, sweep>> /\ pc[p]["encrypt"] \notin Quiet
    BY <1>6 DEF Encrypt, GpgStart, GpgOk, GpgFails, CopyStart, CopyEnds
  <2>2. Exit1(p, "encrypt") \/ \E to : to \notin Quiet /\ Go(p, "encrypt", to) /\ UNCHANGED markers
    BY <1>6 DEF Encrypt, GpgStart, GpgOk, GpgFails, CopyStart, CopyEnds
  <2>3. QED BY <2>1, <2>2, WorksOn
<1>7. CASE S3Sync(p)
  <2>1. /\ UNCHANGED <<dir, dead, restarts, kills, sweep>> /\ pc[p]["s3-sync"] \notin Quiet
        /\ "s3-sync" \in Stages
    BY <1>7 DEF S3Sync, Mirror, MirrorFails, PruneS3
  <2>2. Exit1(p, "s3-sync") \/ \E to : to \notin Quiet /\ Go(p, "s3-sync", to) /\ UNCHANGED markers
    BY <1>7 DEF S3Sync, Mirror, MirrorFails, PruneS3
  <2>3. QED BY <2>1, <2>2, WorksOn
<1>8. ASSUME NEW s \in Stages, LoopOver(p, s) PROVE OwnStep(p, s) /\ UNCHANGED sweep
  <2>1. UNCHANGED <<dir, dead, restarts, kills, sweep>> /\ pc[p][s] \notin Quiet
    BY <1>8 DEF LoopOver
  <2>2. Exit1(p, s) \/ \E to : to \notin Quiet /\ Go(p, s, to) /\ UNCHANGED markers
    BY <1>8 DEF LoopOver
  <2>3. QED BY <2>1, <2>2, WorksOn
<1>9. QED BY <1>1, <1>2, <1>3, <1>4, <1>5, <1>6, <1>7, <1>8 DEF StageAct

\* One pod at work, all others ended or not begun.
LEMMA OneAtWork ==
  ASSUME ~Overlap, PodsInv, NEW p \in Pods, ~Ended(p), Begun(p), NEW q \in Pods \ {p}, Begun(q)
  PROVE  Ended(q)
  BY ChainAssumption DEF PodsInv, Pods

\* Only cleanup takes markers away, and then there are none but .step-failed.
LEMMA DoneStay ==
  ASSUME TypeOK, NEW p \in Pods, NEW s \in Stages, Hop(p, s) \/ Frees(p, s), MarkInv(p), OwnMarks(p)
  PROVE  markers[p] \ {"failed"} \subseteq markers'[p]
<1>1. CASE Kept(p) \/ \E m : Added(p, m)
  BY <1>1 DEF Kept, Added
<1>2. CASE s = "cleanup" /\ pc[p][s] \notin Quiet
  <2>1. After(s) \notin markers[p]
    BY <1>2 DEF MarkInv
  <2>2. \A r \in Stages : r = s \/ Rank[s] < Rank[r]
    BY <1>2, BackupInOrder DEF InOrder
  <2>3. (\A r \in Stages : After(r) \notin markers[p]) /\ "job-done" \notin markers[p]
    BY <2>1, <2>2 DEF MarkInv
  <2>4. QED BY <2>3 DEF OwnMarks
<1>3. QED BY <1>1, <1>2 DEF Hop, Frees, Begin, HoldEnds, Kept, TypeOK, ChainTypeOK

\* The steps of the system, as BackupInv sees them.
BackupStep(p) ==
  /\ PodStep(p) /\ ~Ended(p)
  /\ \A q \in Pods \ {p} : markers'[q] = markers[q]
  /\ OwnMarks(p) => OwnMarks(p)'
  /\ MarkInv(p) => MarkInv(p)' \/ p \in dead'
  /\ MarkInv(p) /\ OwnMarks(p) => markers[p] \ {"failed"} \subseteq markers'[p]
  /\ \A q \in Pods : \A x \in sweep'[q] : x \in sweep[q] \/ (q = p /\ x[1] \in dir \ {p} /\ Begun(p))

\* Every step of the system is a BackupStep, sweeps, or leaves the pods alone.
LEMMA BackupSteps ==
  ASSUME TypeOK, PodsInv, [Next]_vars
  PROVE  \/ \E p \in Pods : BackupStep(p)
         \/ \E p \in Pods, q \in Pods : SweepEntries(p, q) \/ SweepDir(p, q)
         \/ UNCHANGED <<chain, sweep>>
<1> USE StageFacts
<1>0. ChainTypeOK(PCs) /\ sweep \in [Pods -> SUBSET (Pods \X {"entries", "rmdir"})]
  BY DEF TypeOK
<1>1. ASSUME NEW p \in Pods, StageAct(p) PROVE BackupStep(p)
  <2>1. PICK s \in Stages : OwnStep(p, s)
    BY <1>1, StageSteps
  <2>2. PodStep(p) /\ ~Ended(p)
    BY <2>1, EndedRests DEF OwnStep, PodStep
  <2>3. MarkInv(p) => MarkInv(p)'
    BY <1>0, <2>1, MarkHop, BackupInOrder DEF OwnStep
  <2>4. OwnMarks(p) => OwnMarks(p)'
    BY <2>1 DEF OwnStep, OwnMarks
  <2>5. \A q \in Pods : \A x \in sweep'[q] : x \in sweep[q] \/ (q = p /\ x[1] \in dir \ {p} /\ Begun(p))
    <3>1. CASE PruneLocal(p)
      BY <1>0, <3>1 DEF PruneLocal, Begun
    <3>2. CASE UNCHANGED sweep
      BY <3>2
    <3>3. QED BY <1>1, <3>1, <3>2, StageSteps
  <2>6. MarkInv(p) /\ OwnMarks(p) => markers[p] \ {"failed"} \subseteq markers'[p]
    BY <2>1, DoneStay DEF OwnStep
  <2>7. QED BY <2>1, <2>2, <2>3, <2>4, <2>5, <2>6 DEF BackupStep, OwnStep
<1>2. ASSUME NEW p \in Pods, StartPod(p) \/ BackoffExceeded(p) \/ Evict(p), UNCHANGED sweep
      PROVE  BackupStep(p)
  <2>1. PodStep(p) /\ ~Ended(p) /\ UNCHANGED markers
    BY <1>2, EndedRests DEF PodStep, StartPod, BackoffExceeded, Evict
  <2>2. MarkInv(p) => MarkInv(p)' \/ p \in dead'
    BY <1>0, <1>2, MarkStart DEF BackoffExceeded, Evict
  <2>3. QED BY <1>2, <2>1, <2>2 DEF BackupStep, OwnMarks
<1>3. ASSUME NEW p \in Pods, NEW s \in Stages,
             Poll(p, s) \/ TimesOut(p, s) \/ Kill(p, s) \/ Restart(p, s),
             \A q \in Pods : sweep'[q] \subseteq sweep[q]
      PROVE  BackupStep(p)
  <2>1. PodStep(p) /\ ~Ended(p)
    BY <1>0, <1>3, ChainPodStep, EndedRests
  <2>2. MarkInv(p) => MarkInv(p)'
    BY <1>0, <1>3, ChainHops, MarkHop, BackupInOrder
  <2>3. \A q \in Pods \ {p} : markers'[q] = markers[q]
    BY <1>0, <1>3 DEF Poll, StartContainer, Begin, HoldEnds, PeerFailed, TouchDone, TouchThen, Exit1,
       TimesOut, Kill, Restart, ChainTypeOK
  <2>4. markers'[p] \subseteq markers[p] \cup {"failed", After(s)}
    BY <1>0, <1>3 DEF Poll, StartContainer, Begin, HoldEnds, PeerFailed, TouchDone, TouchThen, Exit1,
       TimesOut, Kill, Restart, ChainTypeOK
  <2>5. OwnMarks(p) => OwnMarks(p)'
    BY <2>4 DEF OwnMarks
  <2>6. MarkInv(p) /\ OwnMarks(p) => markers[p] \ {"failed"} \subseteq markers'[p]
    BY <1>0, <1>3, ChainHops, DoneStay
  <2>7. QED BY <1>3, <2>1, <2>2, <2>3, <2>5, <2>6 DEF BackupStep
<1>4. ASSUME NEW p \in Pods, ChainAct(p) PROVE BackupStep(p)
  BY <1>2, <1>3, <1>4 DEF ChainAct, data
<1>5. ASSUME NEW p \in Pods, NEW s \in Stages, RestartStage(p, s) PROVE BackupStep(p)
  <2>1. \A q \in Pods : sweep'[q] \subseteq sweep[q]
    BY <1>0, <1>5 DEF RestartStage
  <2>2. QED BY <1>3, <1>5, <2>1 DEF RestartStage
<1>6. CASE Tick \/ UNCHANGED vars
  BY <1>6 DEF Tick, vars, chain, data
<1>7. QED BY <1>1, <1>4, <1>5, <1>6 DEF Next, Cleanup, StageAct, ChainAct

\* BackupInv is inductive for runs that do not overlap: when a pod sweeps,
\* all the others have ended.
LEMMA BackupInvStep ==
  ASSUME ~Overlap, TypeOK, BackupInv, [Next]_vars
  PROVE  BackupInv'
<1>0. ChainTypeOK(PCs) /\ PodsInv /\ SweepInv /\ \A p \in Pods : sweep[p] \subseteq Pods \X {"entries", "rmdir"}
  BY DEF TypeOK, BackupInv
<1>1. ASSUME NEW p \in Pods, BackupStep(p) PROVE BackupInv'
  <2>1. PodsInv' /\ \A q \in Pods : Ended(q) => Ended(q)'
    BY <1>0, <1>1, PodsStep, EndedStays DEF BackupStep
  <2>2. ASSUME NEW q \in Pods, NEW x \in sweep'[q] PROVE Ended(x[1])'
    <3>1. CASE x \in sweep[q]
      <4>1. x[1] \in Pods /\ Ended(x[1])
        BY <1>0, <3>1 DEF SweepInv
      <4>2. QED BY <2>1, <4>1
    <3>2. CASE x[1] \in dir \ {p} /\ Begun(p)
      <4>1. x[1] \in Pods /\ Begun(x[1])
        BY <1>0, <3>2 DEF ChainTypeOK, PodsInv
      <4>2. Ended(x[1])
        BY <1>0, <1>1, <3>2, <4>1, OneAtWork DEF BackupStep
      <4>3. QED BY <2>1, <4>1, <4>2
    <3>3. QED BY <1>1, <2>2, <3>1, <3>2 DEF BackupStep
  <2>3. ASSUME NEW q \in Pods PROVE OwnMarks(q)' /\ (~Ended(q)' => MarkInv(q)')
    <3>1. CASE q = p
      BY <1>1, <3>1 DEF BackupStep, BackupInv, Ended
    <3>2. CASE q # p
      <4>1. pc'[q] = pc[q] /\ markers'[q] = markers[q]
        BY <1>0, <1>1, <3>2, OtherPods DEF BackupStep
      <4>2. MarkInv(q) => MarkInv(q)'
        BY <4>1, MarkSame DEF Kept
      <4>3. QED BY <2>1, <4>1, <4>2 DEF BackupInv, OwnMarks
    <3>3. QED BY <3>1, <3>2
  <2>4. QED BY <2>1, <2>2, <2>3 DEF BackupInv, SweepInv
<1>2. ASSUME NEW p \in Pods, NEW q \in Pods, SweepEntries(p, q) \/ SweepDir(p, q) PROVE BackupInv'
  <2>1. /\ UNCHANGED <<pc, dead, restarts>> /\ dir' \subseteq dir /\ Ended(q)
        /\ \A r \in Pods \ {q} : markers'[r] = markers[r]
        /\ markers'[q] \subseteq markers[q]
        /\ \A r \in Pods : \A x \in sweep'[r] : x \in sweep[r] \/ x[1] = q
    <3>1. Ended(q)
      BY <1>0, <1>2 DEF SweepEntries, SweepDir, SweepInv
    <3>2. QED BY <1>0, <1>2, <3>1 DEF SweepEntries, SweepDir, ChainTypeOK, TypeOK
  <2>2. PodsInv' /\ \A r \in Pods : Ended(r)' <=> Ended(r)
    BY <1>0, <2>1, PodsSame
  <2>3. SweepInv'
    <3>1. ASSUME NEW r \in Pods, NEW x \in sweep'[r] PROVE Ended(x[1])'
      <4>1. x[1] \in Pods /\ Ended(x[1])
        BY <1>0, <2>1, <3>1 DEF SweepInv
      <4>2. QED BY <2>2, <4>1
    <3>2. QED BY <3>1 DEF SweepInv
  <2>4. ASSUME NEW r \in Pods PROVE OwnMarks(r)' /\ (~Ended(r)' => MarkInv(r)')
    <3>1. CASE r = q
      BY <2>1, <2>2, <3>1 DEF BackupInv, OwnMarks
    <3>2. CASE r # q
      BY <2>1, <2>2, <3>2, MarkSame DEF BackupInv, OwnMarks, Kept
    <3>3. QED BY <3>1, <3>2
  <2>5. QED BY <2>2, <2>3, <2>4 DEF BackupInv
<1>3. CASE UNCHANGED <<chain, sweep>>
  BY <1>3 DEF chain, BackupInv, PodsInv, Begun, SweepInv, OwnMarks, Ended, Succeeded, MarkInv
<1>4. QED BY <1>0, <1>1, <1>2, <1>3, BackupSteps

\* BackupInv holds of runs that do not overlap, under either restart policy and
\* whatever fails.
LEMMA BackupInvariance ==
  ASSUME ~Overlap
  PROVE  Spec => []BackupInv
<1>1. Init => BackupInv
  <2> SUFFICES ASSUME Init PROVE BackupInv
    OBVIOUS
  <2>1. PodsInv /\ \A p \in Pods : MarkInv(p)
    BY PodsInit, MarkInit DEF Init
  <2>2. SweepInv /\ \A p \in Pods : OwnMarks(p)
    BY DEF Init, ChainInit, SweepInv, OwnMarks
  <2>3. QED BY <2>1, <2>2 DEF BackupInv
<1>2. TypeOK /\ BackupInv /\ [Next]_vars => BackupInv'
  BY BackupInvStep
<1>3. QED BY <1>1, <1>2, TypeInvariance, PTL DEF Spec

\* cleanup.sh removes the scratch directories of ended pods only: of runs that
\* do not overlap it never meets a live one, restarted in place or not.
THEOREM OnlyEndedPodsAreSwept ==
  ASSUME ~Overlap
  PROVE  Spec => SweepsOnlyEndedPods
<1>1. BackupInv => [\A p \in Pods : \A q \in Pods : SweepEntries(p, q) => Ended(q)]_vars
  BY DEF BackupInv, SweepInv, SweepEntries
<1>2. QED BY <1>1, BackupInvariance, PTL DEF SweepsOnlyEndedPods

\* The done marker of a live pod is never taken away again, although cleanup
\* removes markers, its own and other pods', and may be restarted at any time.
THEOREM BackupMarkersStay ==
  ASSUME ~Overlap
  PROVE  Spec => DoneMarkersStay
<1>1. ASSUME TypeOK, BackupInv, [Next]_vars, NEW p \in Pods, ~Ended(p)
      PROVE  markers[p] \ {"failed"} \subseteq markers'[p]
  <2>0. PodsInv /\ MarkInv(p) /\ OwnMarks(p)
    BY <1>1 DEF BackupInv
  <2>1. ASSUME NEW q \in Pods, BackupStep(q) PROVE markers[p] \ {"failed"} \subseteq markers'[p]
    BY <2>0, <2>1 DEF BackupStep
  <2>2. ASSUME NEW q \in Pods, NEW r \in Pods, SweepEntries(q, r) \/ SweepDir(q, r)
        PROVE  markers'[p] = markers[p]
    BY <1>1, <2>2 DEF SweepEntries, SweepDir, BackupInv, SweepInv, TypeOK, ChainTypeOK
  <2>3. QED BY <1>1, <2>0, <2>1, <2>2, BackupSteps DEF chain
<1>2. TypeOK /\ BackupInv /\ [Next]_vars =>
        [\A p \in Pods : ~Ended(p) => markers[p] \ {"failed"} \subseteq markers'[p]]_chain
  BY <1>1
<1>3. QED BY <1>2, BackupInvariance, TypeInvariance, PTL DEF Spec, DoneMarkersStay

\* A step of a live pod's container, or of none.
LEMMA LifeKeeps ==
  ASSUME TypeOK, BackupInv, Turns, LifeInv, NoneKilled, NEW p \in Pods, NEW s \in Stages,
         LifeStep(p, s, FALSE), Hop(p, s) \/ Frees(p, s), ~Ended(p),
         dir \subseteq dir', UNCHANGED dead,
         \A q \in Pods \ {p} : pc'[q] = pc[q] /\ markers'[q] = markers[q]
  PROVE  LifeInv'
<1>0. ChainTypeOK(PCs) /\ MarkInv(p) /\ TurnInv(p) /\ Alive(p, FALSE)
  BY DEF TypeOK, BackupInv, Turns, LifeInv
<1>1. Alive(p, FALSE)'
  BY <1>0, AliveStep, BackupInOrder
<1>2. MarkInv(p)'
  BY <1>0, MarkHop, BackupInOrder
<1>3. (\E r \in Stages : pc'[p][r] = "err") => "job-done" \notin markers'[p]
  BY <1>1, <1>2 DEF Alive, MarkInv
<1>4. ASSUME NEW q \in Pods \ {p}
      PROVE  /\ ~Ended(q)' => Alive(q, FALSE)'
             /\ q \notin dead' /\ (\E r \in Stages : pc'[q][r] = "err") => "job-done" \notin markers'[q]
  <2>1. Ended(q)' <=> Ended(q)
    BY DEF Ended, Succeeded
  <2>2. QED BY <2>1, AliveSame DEF LifeInv
<1>5. QED BY <1>1, <1>3, <1>4 DEF LifeInv

\* LifeInv is inductive, and while it holds nobody's patience ends.
LEMMA LifeInvStep ==
  ASSUME RestartPolicy = "Never", ~Overlap, "slow" \notin Faults,
         TypeOK, BackupInv, Turns, LifeInv, [Next]_vars
  PROVE  LifeInv' /\ \A p \in Pods, s \in Stages : TimesOut(p, s) => ~NoneKilled
<1> USE StageFacts
<1>0. ChainTypeOK(PCs) /\ kills \in Nat /\ PodsInv /\ SweepInv
  BY DEF TypeOK, ChainTypeOK, BackupInv
<1>1. ASSUME NEW p \in Pods, NEW s \in Stages, TimesOut(p, s), NoneKilled PROVE FALSE
  <2>1. ~Ended(p)
    BY <1>0, <1>1, EndedRests DEF TimesOut, Missing, Polling, Exited
  <2>2. MarkInv(p) /\ TurnInv(p) /\ Alive(p, FALSE)
    BY <1>1, <2>1 DEF BackupInv, Turns, LifeInv
  <2>3. \E r \in Stages : AfterTouch(r) # "hold"
    BY DEF AfterTouch
  <2>4. QED BY <1>1, <2>2, <2>3, NobodyGivesUp, BackupInOrder
<1>2. ASSUME NoneKilled' PROVE NoneKilled
  <2>1. kills' = kills \/ kills' = kills + 1
    BY <1>0, StageSteps, ZenonT(60) DEF Next, vars, chain, Cleanup, StageAct, OwnStep, SweepEntries, SweepDir,
       RestartStage, Restart, StartPod, BackoffExceeded, Evict, Poll, StartContainer, Begin,
       HoldEnds, PeerFailed, TouchDone, TimesOut, Kill, Tick
  <2>2. QED BY <1>0, <1>2, <2>1 DEF NoneKilled
<1>3. ASSUME NEW p \in Pods, StageAct(p), NoneKilled PROVE LifeInv'
  <2>1. PICK s \in Stages : OwnStep(p, s)
    BY <1>3, StageSteps
  <2>2. ~Ended(p) /\ \A q \in Pods \ {p} : pc'[q] = pc[q]
    BY <1>0, <2>1, EndedRests, OtherPods DEF OwnStep, PodStep
  <2>3. QED BY <1>3, <2>1, <2>2, LifeKeeps DEF OwnStep
<1>4. ASSUME NEW p \in Pods, NEW s \in Stages, Poll(p, s), NoneKilled PROVE LifeInv'
  <2>1. PodStep(p)
    BY <1>0, <1>4, ChainPodStep
  <2>2. ~Ended(p) /\ \A q \in Pods \ {p} : pc'[q] = pc[q]
    BY <1>0, <2>1, EndedRests, OtherPods
  <2>3. LifeStep(p, s, FALSE)
    BY <1>4 DEF Poll, LifeStep
  <2>4. Hop(p, s)
    BY <1>0, <1>4, ChainHops
  <2>5. \A q \in Pods \ {p} : markers'[q] = markers[q]
    BY <1>0, <1>4 DEF Poll, StartContainer, Begin, HoldEnds, PeerFailed, TouchDone, TouchThen, Exit1,
       ChainTypeOK
  <2>6. dir \subseteq dir' /\ UNCHANGED dead
    BY <1>4 DEF Poll, StartContainer, Begin, HoldEnds, PeerFailed, TouchDone
  <2>7. QED BY <1>4, <2>2, <2>3, <2>4, <2>5, <2>6, LifeKeeps
<1>5. ASSUME NEW p \in Pods, StartPod(p) \/ Evict(p), NoneKilled PROVE LifeInv'
  <2>1. /\ \A q \in Pods \ {p} : pc'[q] = pc[q]
        /\ UNCHANGED <<markers, dir>> /\ dead \subseteq dead' /\ dead' \subseteq dead \cup {p}
    BY <1>0, <1>5 DEF StartPod, Evict, AllStopped, ChainTypeOK
  <2>2. ASSUME NEW q \in Pods \ {p}
        PROVE  /\ ~Ended(q)' => Alive(q, FALSE)'
               /\ q \notin dead' /\ (\E r \in Stages : pc'[q][r] = "err") => "job-done" \notin markers'[q]
    <3>1. Ended(q)' <=> Ended(q)
      BY <2>1 DEF Ended, Succeeded
    <3>2. QED BY <1>5, <2>1, <3>1, AliveSame DEF LifeInv
  <2>3. CASE StartPod(p)
    <3>1. \A s \in Stages : pc[p][s] = "none" /\ pc'[p][s] = "off"
      BY <1>0, <2>3 DEF StartPod, ChainTypeOK
    <3>2. markers'[p] = {}
      BY <1>0, <2>1, <3>1 DEF PodsInv, Begun, ChainTypeOK
    <3>3. Alive(p, FALSE)'
      BY <3>1, <3>2, AliveUnbegun
    <3>4. QED BY <2>2, <3>1, <3>3 DEF LifeInv
  <2>4. CASE Evict(p)
    <3>1. p \in dead' /\ Ended(p)'
      BY <2>4 DEF Evict, Ended
    <3>2. QED BY <2>2, <3>1 DEF LifeInv
  <2>5. QED BY <1>5, <2>3, <2>4
<1>6. ASSUME NEW p \in Pods, NEW q \in Pods, SweepEntries(p, q) \/ SweepDir(p, q), NoneKilled
      PROVE  LifeInv'
  <2>1. Ended(q)
    BY <1>0, <1>6 DEF SweepEntries, SweepDir, SweepInv
  <2>2. UNCHANGED <<pc, dead>> /\ markers'[q] \subseteq markers[q]
    BY <1>0, <1>6 DEF SweepEntries, SweepDir, ChainTypeOK
  <2>3. \A r \in Pods \ {q} : markers'[r] = markers[r] /\ (r \in dir => r \in dir')
    BY <1>0, <1>6 DEF SweepEntries, SweepDir, ChainTypeOK
  <2>4. \A r \in Pods : Ended(r)' <=> Ended(r)
    BY <2>2 DEF Ended, Succeeded
  <2>5. \A r \in Pods \ {q} : Alive(r, FALSE) => Alive(r, FALSE)'
    BY <2>2, <2>3, AliveSame
  <2>6. QED BY <1>6, <2>1, <2>2, <2>3, <2>4, <2>5 DEF LifeInv
<1>7. ASSUME NEW p \in Pods, NEW s \in Stages, Kill(p, s) PROVE ~NoneKilled'
  BY <1>0, <1>7 DEF Kill, NoneKilled
<1>8. ASSUME UNCHANGED <<pc, markers, dir, dead, kills>> PROVE LifeInv'
  BY <1>8 DEF LifeInv, NoneKilled, Alive, Ended, Succeeded
<1>9. ASSUME Tick \/ UNCHANGED vars PROVE LifeInv'
  BY <1>8, <1>9 DEF Tick, vars, chain
<1>10. ASSUME NEW p \in Pods PROVE ~BackoffExceeded(p) /\ \A s \in Stages : ~RestartStage(p, s)
  BY DEF BackoffExceeded, RestartStage, Restart, MayRestart
<1>11. ASSUME ~NoneKilled' PROVE LifeInv'
  BY <1>11 DEF LifeInv
<1>12. QED
  BY <1>1, <1>2, <1>3, <1>4, <1>5, <1>6, <1>7, <1>9, <1>10, <1>11 DEF Next, StageAct, Cleanup

\* LifeInv holds when no stage outlasts the patience of its peers.
LEMMA LifeInvariance ==
  ASSUME RestartPolicy = "Never", ~Overlap, "slow" \notin Faults
  PROVE  Spec => []LifeInv
<1>1. Init => LifeInv
  BY DEF Init, ChainInit, LifeInv, Alive
<1>2. TypeOK /\ BackupInv /\ Turns /\ LifeInv /\ [Next]_vars => LifeInv'
  BY LifeInvStep
<1>3. QED BY <1>1, <1>2, TypeInvariance, BackupInvariance, BackupTurns, PTL DEF Spec

\* A stage of a backup gives up waiting only when something died without a
\* word: the markers leave no stages waiting for each other.
THEOREM BackupNoVainWait ==
  ASSUME RestartPolicy = "Never", ~Overlap, "slow" \notin Faults
  PROVE  Spec => NoVainWait
<1>1. ASSUME TypeOK, BackupInv, Turns, LifeInv, [Next]_vars
      PROVE  [\A p \in Pods, s \in Stages : TimesOut(p, s) => kills > 0]_chain
  <2>1. kills \in Nat
    BY <1>1 DEF TypeOK, ChainTypeOK
  <2>2. ~NoneKilled => kills > 0
    BY <2>1 DEF NoneKilled
  <2>3. QED BY <1>1, <2>2, LifeInvStep
<1>2. QED BY <1>1, LifeInvariance, TypeInvariance, BackupInvariance, BackupTurns, PTL
         DEF Spec, NoVainWait

\* Once the last stage has released its peers none of them reports failure.
THEOREM BackupDoneMeansSuccess ==
  ASSUME RestartPolicy = "Never", ~Overlap, "slow" \notin Faults, "kill" \notin Faults
  PROVE  Spec => []JobDoneMeansSuccess
<1>1. LifeInv => JobDoneMeansSuccess
  BY DEF LifeInv, NoneKilled, JobDoneMeansSuccess
<1>2. QED BY <1>1, LifeInvariance, PTL
=============================================================================
