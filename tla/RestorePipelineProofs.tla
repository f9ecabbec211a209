----------------------- MODULE RestorePipelineProofs -----------------------
(* Theorems about RestorePipeline, for every value of its constants.       *)
EXTENDS RestorePipeline, StageChainProofs, FiniteSetTheorems

\* The five stages of a restore pod.
LEMMA StageFacts ==
  /\ Stages = {"cleanup", "fetch", "decrypt", "extract", "restore"}
  /\ \A s \in Stages : After(s) \in Markers
  BY RestoreAssumption, AfterType

---------------------------------------------------------------------------
(* The dump that is fetched.                                               *)

\* sort | tail finds the last name of a listing: names are linearly ordered,
\* so a finite listing that is not empty has one.
LEMMA LatestExists ==
  ASSUME NEW K \in SUBSET Objects, K # {}
  PROVE  LatestByName(K) \in K /\ \A r \in K \ {LatestByName(K)} : Precedes(r, LatestByName(K))
<1> DEFINE Above(o) == {r \in K : Precedes(o, r)}
           T == {Above(o) : o \in K}
<1>0. \A o \in K : o \in ObjectNames
  BY RestoreAssumption
<1>1. IsFiniteSet(K)
  BY RestoreAssumption, FS_Subset
<1>2. IsWellFoundedOn(StrictSubsetOrdering(K), SUBSET K)
  BY <1>1, FS_FiniteSubsetsOfFinite, FS_StrictSubsetOrderingWellFounded
<1>3. PICK t \in T : \A u \in T : <<u, t>> \notin StrictSubsetOrdering(K)
  <2>1. T \subseteq SUBSET K /\ T # {}
    OBVIOUS
  <2> HIDE DEF T
  <2>2. QED BY <1>2, <2>1, WFMin
<1>4. PICK o \in K : t = Above(o)
  BY <1>3
<1>5. \A r \in K \ {o} : Precedes(r, o)
  <2> SUFFICES ASSUME NEW r \in K \ {o}, ~Precedes(r, o) PROVE FALSE
    OBVIOUS
  <2>1. Precedes(o, r)
    BY <1>0 DEF Precedes, ObjectNames
  <2>2. Above(r) \subseteq Above(o)
    BY <1>0, <2>1 DEF Precedes, ObjectNames
  <2>3. r \in Above(o) /\ r \notin Above(r)
    BY <1>0, <2>1 DEF Precedes, ObjectNames
  <2>4. <<Above(r), Above(o)>> \in StrictSubsetOrdering(K)
    BY <2>2, <2>3 DEF StrictSubsetOrdering
  <2>5. QED BY <1>3, <1>4, <2>4
<1>6. QED BY <1>4, <1>5 DEF LatestByName

\* What a run fetches is stored.
LEMMA SourcesStored == Sources \subseteq Objects
<1>1. \A K \in Listings : K \in SUBSET Objects
  BY DEF Listings
<1>2. QED BY <1>1, LatestExists DEF Sources

---------------------------------------------------------------------------
(* Types.                                                                  *)

LEMMA RGoType ==
  ASSUME TypeOK, NEW p \in Pods, NEW s \in Stages, NEW to \in PCs, Go(p, s, to)
  PROVE  pc' \in [Pods -> [Stages -> PCs]]
  BY GoType DEF TypeOK

\* What Go does to the program counters.
LEMMA RGoFacts ==
  ASSUME TypeOK, NEW p \in Pods, NEW s \in Stages, NEW to, Go(p, s, to)
  PROVE  /\ pc'[p][s] = to
         /\ \A r \in Stages \ {s} : pc'[p][r] = pc[p][r]
         /\ \A r \in Pods \ {p} : pc'[r] = pc[r]
  BY GoFacts DEF TypeOK

\* Exit1 keeps the types of what it writes.
LEMMA RExitType ==
  ASSUME TypeOK, NEW p \in Pods, NEW s \in Stages, Exit1(p, s)
  PROVE  pc' \in [Pods -> [Stages -> PCs]] /\ markers' \in [Pods -> SUBSET Markers]
<1>1. "err" \in PCs
  BY DEF PCs, ChainPCs
<1>2. QED BY <1>1, ExitType DEF TypeOK

\* The file sets the stages write.
LEMMA FilesType ==
  ASSUME TypeOK, NEW p \in Pods
  PROVE  /\ files[p] \subseteq File
         /\ \A form \in Forms, q \in {"torn", "whole"} :
              With(p, form, q) \subseteq File
         /\ \A S \in SUBSET File : SetFiles(p, S) => files' \in [Pods -> SUBSET File]
         /\ NoDumps(p) \subseteq File
  BY DEF TypeOK, With, OfForm, NoDumps, SetFiles, File

\* What the scripts make of the target is a target.
LEMMA TargetType ==
  ASSUME TypeOK, NEW p \in Pods
  PROVE  /\ NoObject \in ObjectNames /\ Filled(p) \in Targets
         /\ \A d \in Contents : SetData(d) => target' \in Targets
         /\ \A r \in {"master", "replica"} : [target EXCEPT !.role = r] \in Targets
<1>1. NoObject \in ObjectNames
  BY DEF NoObject, ObjectNames
<1>2. target \in Targets /\ src[p] \in ObjectNames
  BY DEF TypeOK
<1>3. Filled(p) \in Targets
  BY <1>2 DEF Filled, Targets, Contents
<1>4. \A d \in Contents : SetData(d) => target' \in Targets
  BY <1>1, <1>2 DEF SetData, Targets
<1>5. \A r \in {"master", "replica"} : [target EXCEPT !.role = r] \in Targets
  BY <1>2 DEF Targets
<1>6. QED BY <1>1, <1>3, <1>4, <1>5

\* Every program counter, marker set, file set, source and target stays in its
\* type; the source does because a listing that is not empty has a last name.
THEOREM RestoreTypeInvariance == Spec => []TypeOK
<1>1. Init => TypeOK
  <2> SUFFICES ASSUME Init PROVE TypeOK
    OBVIOUS
  <2>1. target \in Targets
    BY DEF Init, Targets, Contents, NoObject, ObjectNames
  <2>2. QED
    BY <2>1 DEF Init, ChainInit, TypeOK, ChainTypeOK, PCs, ChainPCs, NoObject, ObjectNames
<1>2. TypeOK /\ [Next]_vars => TypeOK'
  <2> SUFFICES ASSUME TypeOK, Next PROVE TypeOK'
    BY DEF TypeOK, ChainTypeOK, vars, chain, data
  <2> USE StageFacts
  <2>0. "err" \in PCs /\ ChainPCs \subseteq PCs /\ ChainTypeOK(PCs)
    BY DEF PCs, ChainPCs, TypeOK
  <2>1. ASSUME NEW p \in Pods, Cleanup(p) PROVE TypeOK'
    <3>1. CASE SweepOthers(p)
      BY <3>1, RGoType DEF SweepOthers, TypeOK, ChainTypeOK, PCs, ChainPCs
    <3>2. CASE ClearOwn(p)
      BY <3>2, RGoType, FilesType DEF ClearOwn, TypeOK, ChainTypeOK, PCs, ChainPCs
    <3>3. QED BY <2>1, <3>1, <3>2 DEF Cleanup
  <2>2. ASSUME NEW p \in Pods, Fetch(p) PROVE TypeOK'
    <3>1. CASE FetchStart(p)
      <4>1. src' \in [Pods -> ObjectNames]
        BY <3>1, SourcesStored, RestoreAssumption DEF FetchStart, TypeOK
      <4>2. NoDumps(p) \cup {[form |-> "gpg", q |-> "torn"]} \in SUBSET File
        BY FilesType DEF File, Forms
      <4>3. QED BY <3>1, <4>1, <4>2, RGoType, FilesType DEF FetchStart, TypeOK, ChainTypeOK, PCs, ChainPCs
    <3>2. CASE FetchNone(p)
      BY <3>2, RExitType, FilesType DEF FetchNone, TypeOK, ChainTypeOK
    <3>3. CASE FetchEnds(p)
      <4>1. files' \in [Pods -> SUBSET File]
        BY <3>3, FilesType DEF FetchEnds, TypeOK, Forms
      <4>2. pc' \in [Pods -> [Stages -> PCs]] /\ markers' \in [Pods -> SUBSET Markers]
        BY <3>3, RGoType, RExitType DEF FetchEnds, TypeOK, ChainTypeOK, PCs, ChainPCs
      <4>3. QED BY <3>3, <4>1, <4>2 DEF FetchEnds, TypeOK, ChainTypeOK
    <3>4. QED BY <2>2, <3>1, <3>2, <3>3 DEF Fetch
  <2>3. ASSUME NEW p \in Pods, Unpack(p) PROVE TypeOK'
    <3>1. files' \in [Pods -> SUBSET File]
      <4>1. files[p] \ OfForm(p, "plain") \in SUBSET File
        BY FilesType
      <4>2. With(p, "gz", "whole") \ OfForm(p, "gpg") \in SUBSET File
        BY FilesType DEF Forms
      <4>3. With(p, "plain", "whole") \ OfForm(p, "gz") \in SUBSET File
        BY FilesType DEF Forms
      <4>4. files \in [Pods -> SUBSET File]
        BY DEF TypeOK
      <4>5. QED BY <2>3, <4>1, <4>2, <4>3, <4>4, FilesType
                DEF Forms, Unpack, DecryptStart, DecryptEnds, ExtractStart, ExtractEnds
    <3>2. pc' \in [Pods -> [Stages -> PCs]] /\ markers' \in [Pods -> SUBSET Markers]
      <4>1. CASE DecryptStart(p) \/ DecryptEnds(p)
        BY <4>1, RGoType, RExitType DEF DecryptStart, DecryptEnds, TypeOK, ChainTypeOK, PCs, ChainPCs
      <4>2. CASE ExtractStart(p) \/ ExtractEnds(p)
        BY <4>2, RGoType, RExitType DEF ExtractStart, ExtractEnds, TypeOK, ChainTypeOK, PCs, ChainPCs
      <4>3. QED BY <2>3, <4>1, <4>2 DEF Unpack
    <3>3. UNCHANGED <<dir, dead, restarts, kills, src, target>>
      BY <2>3 DEF Unpack, DecryptStart, DecryptEnds, ExtractStart, ExtractEnds
    <3>4. QED BY <3>1, <3>2, <3>3 DEF TypeOK, ChainTypeOK
  <2>4. ASSUME NEW p \in Pods, Load(p) PROVE TypeOK'
    <3>1. CASE RestoreStart(p) \/ Inspect(p)
      <4>1. pc' \in [Pods -> [Stages -> PCs]] /\ markers' \in [Pods -> SUBSET Markers]
        BY <3>1, RGoType, RExitType DEF RestoreStart, Inspect, Proceed, TypeOK, ChainTypeOK, PCs, ChainPCs
      <4>2. QED BY <3>1, <4>1 DEF RestoreStart, Inspect, data, TypeOK, ChainTypeOK
    <3>2. CASE DropDatabase(p) \/ CreateDatabase(p) \/ ApplyStart(p)
      <4>1. pc' \in [Pods -> [Stages -> PCs]]
        BY <3>2, RGoType DEF DropDatabase, CreateDatabase, ApplyStart, PCs, ChainPCs
      <4>2. target' \in Targets
        BY <3>2, TargetType DEF DropDatabase, CreateDatabase, ApplyStart, Contents
      <4>3. QED BY <3>2, <4>1, <4>2 DEF DropDatabase, CreateDatabase, ApplyStart, TypeOK, ChainTypeOK
    <3>3. CASE FilterStart(p) \/ FilterEnds(p)
      <4>1. pc' \in [Pods -> [Stages -> PCs]]
        BY <3>3, RGoType DEF FilterStart, FilterEnds, PCs, ChainPCs
      <4>2. files' \in [Pods -> SUBSET File]
        BY <3>3, FilesType DEF FilterStart, FilterEnds, Forms
      <4>3. QED BY <3>3, <4>1, <4>2 DEF FilterStart, FilterEnds, TypeOK, ChainTypeOK
    <3>4. CASE ApplyOk(p)
      <4>1. pc' \in [Pods -> [Stages -> PCs]]
        BY <3>4, RGoType DEF ApplyOk, PCs, ChainPCs
      <4>2. target' \in Targets
        BY <3>4, TargetType DEF ApplyOk, TypeOK
      <4>3. QED BY <3>4, <4>1, <4>2 DEF ApplyOk, TypeOK, ChainTypeOK
    <3>5. QED BY <2>4, <3>1, <3>2, <3>3, <3>4 DEF Load
  <2>5. ASSUME NEW p \in Pods, Replicate(p) PROVE TypeOK'
    <3>1. pc' \in [Pods -> [Stages -> PCs]] /\ markers' \in [Pods -> SUBSET Markers]
      <4>1. CASE SyncTimesOut(p)
        BY <4>1, RExitType DEF SyncTimesOut
      <4>2. CASE SyncBegins(p)
        BY <4>2 DEF SyncBegins, chain, TypeOK, ChainTypeOK
      <4>3. CASE CopyRdb(p) \/ LoadRdb(p) \/ Attach(p) \/ SyncOk(p) \/ Promote(p)
        BY <4>3, RGoType DEF CopyRdb, LoadRdb, Attach, SyncOk, Promote, TypeOK, ChainTypeOK, PCs, ChainPCs
      <4>4. QED BY <2>5, <4>1, <4>2, <4>3 DEF Replicate
    <3>2. target' \in Targets
      BY <2>5, TargetType DEF Replicate, CopyRdb, LoadRdb, Attach, SyncBegins, SyncOk,
         SyncTimesOut, Promote, data, TypeOK, Contents
    <3>3. UNCHANGED <<dir, dead, restarts, kills, src>>
      BY <2>5 DEF Replicate, CopyRdb, LoadRdb, Attach, SyncBegins, SyncOk, SyncTimesOut,
         Promote, data, chain
    <3>4. files' \in [Pods -> SUBSET File]
      <4>1. CASE CopyRdb(p) \/ LoadRdb(p)
        BY <4>1, FilesType DEF CopyRdb, LoadRdb, Forms
      <4>2. CASE ~CopyRdb(p) /\ ~LoadRdb(p)
        BY <2>5, <4>2 DEF Replicate, Attach, SyncBegins, SyncOk, SyncTimesOut, Promote, TypeOK
      <4>3. QED BY <4>1, <4>2
    <3>5. QED BY <3>1, <3>2, <3>3, <3>4 DEF TypeOK, ChainTypeOK
  <2>6. ASSUME NEW p \in Pods, Finish(p) PROVE TypeOK'
    <3>1. files[p] \ OfForm(p, "rdb") \in SUBSET File
      BY FilesType
    <3>2. QED BY <2>6, <3>1, RGoType, FilesType DEF Finish, Tidy, RemoveCopy, RemoveScratch,
              TypeOK, ChainTypeOK, PCs, ChainPCs
  <2>7. ASSUME NEW p \in Pods, RestoreFails(p) PROVE TypeOK'
    BY <2>7, RExitType DEF RestoreFails, data, TypeOK, ChainTypeOK
  <2>8. ASSUME NEW p \in Pods, UNCHANGED data,
               \/ StartPod(p) \/ BackoffExceeded(p) \/ Evict(p)
               \/ \E s \in Stages : \/ Poll(p, s) \/ TimesOut(p, s)
                                    \/ Restart(p, s) \/ Kill(p, s)
        PROVE TypeOK'
    <3>1. ChainTypeOK(PCs)'
      BY <2>0, <2>8, ChainStepType
    <3>2. QED BY <2>8, <3>1 DEF data, TypeOK
  <2>9. CASE Use
    <3>1. target' \in Targets
      BY <2>9, TargetType DEF Use, SetData, Targets, Contents, TypeOK, NoObject, ObjectNames
    <3>2. QED BY <2>9, <3>1 DEF Use, chain, TypeOK, ChainTypeOK
  <2>10. CASE UNCHANGED vars
    BY <2>10 DEF vars, chain, data, TypeOK, ChainTypeOK
  <2>11. QED
    BY <2>1, <2>2, <2>3, <2>4, <2>5, <2>6, <2>7, <2>8, <2>9, <2>10 DEF Next
<1>3. QED BY <1>1, <1>2, PTL DEF Spec

---------------------------------------------------------------------------
(* The relay.                                                              *)

\* The stages of a restore pod are in order.
LEMMA RestoreInOrder == InOrder
<1>1. /\ Rank["cleanup"] = 1 /\ Rank["fetch"] = 2 /\ Rank["decrypt"] = 3
      /\ Rank["extract"] = 4 /\ Rank["restore"] = 5
  BY StageFacts DEF Rank
<1>2. /\ After("cleanup") = "cleanup-done" /\ After("fetch") = "fetch-done"
      /\ After("decrypt") = "decrypt-done" /\ After("extract") = "extract-done"
      /\ After("restore") = "job-done"
      /\ Before("fetch") = "cleanup-done" /\ Before("decrypt") = "fetch-done"
      /\ Before("extract") = "decrypt-done" /\ Before("restore") = "extract-done"
  BY DEF After, Before
<1>3. \A r \in Stages, s \in Stages : Rank[r] \in Nat /\ (Rank[r] = Rank[s] => r = s)
  BY <1>1, StageFacts
<1>4. \A s \in Stages \ {"cleanup"} : \E r \in Stages :
        /\ After(r) = Before(s) /\ Rank[r] < Rank[s]
        /\ \A q \in Stages : Rank[q] < Rank[s] => q = r \/ Rank[q] < Rank[r]
  <2>1. \A q \in Stages : Rank[q] < 2 => q = "cleanup" \/ Rank[q] < 1
    BY <1>1, StageFacts
  <2>2. \A q \in Stages : Rank[q] < 3 => q = "fetch" \/ Rank[q] < 2
    BY <1>1, StageFacts
  <2>3. \A q \in Stages : Rank[q] < 4 => q = "decrypt" \/ Rank[q] < 3
    BY <1>1, StageFacts
  <2>4. \A q \in Stages : Rank[q] < 5 => q = "extract" \/ Rank[q] < 4
    BY <1>1, StageFacts
  <2>5. QED BY <1>1, <1>2, <2>1, <2>2, <2>3, <2>4, StageFacts
<1>5. \A s \in Stages : Rank["cleanup"] <= Rank[s]
  BY <1>1, StageFacts
<1>6. \A r \in Stages, s \in Stages : After(r) = After(s) => r = s
  BY <1>2, StageFacts
<1>7. \A s \in Stages : \/ s \in LastStages
                        \/ s = "encrypt" /\ "s3-sync" \notin Stages
                        => \A r \in Stages : r = s \/ Rank[r] < Rank[s]
  BY <1>1, StageFacts DEF LastStages
<1>8. \A s \in Stages : After(s) = "job-done" => s \in LastStages
  BY <1>2, StageFacts DEF LastStages
<1>9. QED BY <1>3, <1>4, <1>5, <1>6, <1>7, <1>8 DEF InOrder

\* A stage that goes on working, or exits non-zero.
LEMMA WorksMoves ==
  ASSUME TypeOK, NEW p \in Pods, NEW s \in Stages, pc[p][s] \notin Quiet,
         \/ Exit1(p, s)
         \/ \E to : to \notin Quiet /\ Go(p, s, to) /\ NoNewMarks
  PROVE  Move(p, s)
  BY ExitMarks DEF TypeOK, Move, Fails, Works, Quiet, Through

\* Whatever a stage does besides polling is a move, or leaves the stages where
\* they are.
LEMMA RestoreMoves ==
  ASSUME RestartPolicy = "Never", TypeOK, Next
  PROVE  \/ \E p \in Pods : PodMove(p) \/ \E s \in Stages : Move(p, s)
         \/ UNCHANGED <<pc, markers>>
<1> USE StageFacts
<1>0. ChainTypeOK(PCs)
  BY DEF TypeOK
<1>1. ASSUME NEW p \in Pods, Cleanup(p) PROVE Move(p, "cleanup")
  BY <1>0, <1>1, WorksMoves DEF Cleanup, SweepOthers, ClearOwn, Quiet, Idle, Through,
     NoNewMarks, ChainTypeOK
<1>2. ASSUME NEW p \in Pods, Fetch(p) PROVE Move(p, "fetch")
  BY <1>2, WorksMoves DEF Fetch, FetchStart, FetchNone, FetchEnds, Quiet, Idle, Through,
     NoNewMarks
<1>3. ASSUME NEW p \in Pods, Unpack(p) PROVE Move(p, "decrypt") \/ Move(p, "extract")
  BY <1>3, WorksMoves DEF Unpack, DecryptStart, DecryptEnds, ExtractStart, ExtractEnds,
     Quiet, Idle, Through, NoNewMarks
<1>4. ASSUME NEW p \in Pods, Load(p) PROVE Move(p, "restore")
  BY <1>4, WorksMoves DEF Load, RestoreStart, Inspect, DropDatabase, CreateDatabase,
     FilterStart, FilterEnds, ApplyStart, ApplyOk, Proceed, Quiet, Idle, Through, NoNewMarks
<1>5. ASSUME NEW p \in Pods, Replicate(p)
      PROVE  Move(p, "restore") \/ UNCHANGED <<pc, markers>>
  BY <1>5, WorksMoves DEF Replicate, CopyRdb, LoadRdb, Attach, SyncBegins, SyncOk, SyncTimesOut,
     Promote, chain, Quiet, Idle, Through, NoNewMarks
<1>6. ASSUME NEW p \in Pods, Tidy(p) \/ RemoveCopy(p) PROVE Move(p, "restore")
  BY <1>6, WorksMoves DEF Tidy, RemoveCopy, Quiet, Idle, Through, NoNewMarks
<1>7. ASSUME NEW p \in Pods, RemoveScratch(p) PROVE Move(p, "restore")
  BY <1>0, <1>7 DEF RemoveScratch, Move, Removes, NoNewMarks, ChainTypeOK
<1>8. ASSUME NEW p \in Pods, RestoreFails(p) PROVE Move(p, "restore")
  BY <1>0, <1>8, ExitMarks DEF RestoreFails, Move, Fails
<1>9. CASE Use \/ UNCHANGED vars
  BY <1>9 DEF Use, vars, chain
<1>10. QED
  BY <1>0, <1>1, <1>2, <1>3, <1>4, <1>5, <1>6, <1>7, <1>8, <1>9, ChainMoves DEF Next, Finish

Turns == \A p \in Pods : TurnInv(p)

\* Every step is one of the relay, and keeps the stages in turn.
LEMMA RestoreTurnStep ==
  ASSUME RestartPolicy = "Never", TypeOK, Turns, [Next]_vars
  PROVE  [R!Next]_(R!vars) /\ Turns'
<1> USE DEF Turns
<1>0. ChainTypeOK(PCs)
  BY DEF TypeOK
<1>1. ASSUME NEW p \in Pods, PodMove(p) PROVE [R!Next]_(R!vars) /\ Turns'
  BY <1>0, <1>1, RestoreInOrder, PodMaps, TurnPod
<1>2. ASSUME NEW p \in Pods, NEW s \in Stages, Move(p, s)
      PROVE  [R!Next]_(R!vars) /\ Turns'
  BY <1>0, <1>2, RestoreInOrder, MoveMaps, TurnMove
<1>3. CASE UNCHANGED <<pc, markers>>
  BY <1>3, StillMaps, TurnSame, AfterFacts
<1>4. CASE UNCHANGED vars
  BY <1>3, <1>4 DEF vars, chain
<1>5. QED BY <1>1, <1>2, <1>3, <1>4, RestoreMoves

\* The stages of every pod stay in turn.
LEMMA RestoreTurns ==
  ASSUME RestartPolicy = "Never"
  PROVE  Spec => []Turns
<1>1. Init => Turns
  BY RelayInit DEF Init, Turns
<1>2. TypeOK /\ Turns /\ [Next]_vars => Turns'
  BY RestoreTurnStep
<1>3. QED BY <1>1, <1>2, RestoreTypeInvariance, PTL DEF Spec

\* The containers of a restore pod that are not restarted run a relay.
THEOREM RestoreTakesTurns ==
  ASSUME RestartPolicy = "Never"
  PROVE  Spec => TakesTurns
<1>1. Init => R!Init
  BY RelayInit DEF Init
<1>2. TypeOK /\ Turns /\ [Next]_vars => [R!Next]_(R!vars)
  BY RestoreTurnStep
<1>3. QED BY <1>1, <1>2, RestoreTypeInvariance, RestoreTurns, PTL DEF Spec, TakesTurns, R!Spec

---------------------------------------------------------------------------
(* Source and replica.                                                     *)

\* With listings that do not break off and dumps of one database, a run
\* fetches BACKUP_FILE, or the newest dump when that is not stored.
THEOREM FetchesTheWanted ==
  ASSUME "tool" \notin Faults, \A o \in Objects, r \in Objects : o.db = r.db
  PROVE  Spec => []SourceIsWanted
<1>1. \A o \in Sources :
        \/ o = BackupFile
        \/ BackupFile \notin Objects /\ \A r \in Objects : r.at <= o.at
  <2> SUFFICES ASSUME NEW o \in Sources, o # BackupFile
               PROVE  BackupFile \notin Objects /\ \A r \in Objects : r.at <= o.at
    OBVIOUS
  <2>1. /\ BackupFile \notin Objects /\ Objects # {} /\ o = LatestByName(Objects)
    BY DEF Sources, Listings, StatFails
  <2>2. o \in Objects /\ \A r \in Objects \ {o} : Precedes(r, o)
    BY <2>1, LatestExists
  <2>3. \A r \in Objects : r.at \in Nat
    BY RestoreAssumption DEF ObjectNames
  <2>4. QED BY <2>1, <2>2, <2>3, RestoreAssumption DEF Precedes, ObjectNames
<1>2. Init => SourceIsWanted
  BY DEF Init, SourceIsWanted
<1>3. TypeOK /\ SourceIsWanted /\ [Next]_vars => SourceIsWanted'
  <2> SUFFICES ASSUME TypeOK, SourceIsWanted, [Next]_vars PROVE SourceIsWanted'
    OBVIOUS
  <2>1. ASSUME NEW p \in Pods, FetchStart(p) PROVE SourceIsWanted'
    BY <1>1, <2>1 DEF FetchStart, SourceIsWanted, TypeOK
  <2>2. CASE \A p \in Pods : ~FetchStart(p)
    <3>1. UNCHANGED src
      BY <2>2, ZenonT(60) DEF Next, vars, data, Cleanup, SweepOthers, ClearOwn, Fetch, FetchNone,
         FetchEnds, Unpack, DecryptStart, DecryptEnds, ExtractStart, ExtractEnds, Load,
         RestoreStart, Inspect, DropDatabase, CreateDatabase, FilterStart, FilterEnds,
         ApplyStart, ApplyOk, Replicate, CopyRdb, LoadRdb, Attach, SyncBegins, SyncOk,
         SyncTimesOut, Promote, Finish, Tidy, RemoveCopy, RemoveScratch, RestoreFails, Use
    <3>2. QED BY <3>1 DEF SourceIsWanted
  <2>3. QED BY <2>1, <2>2
<1>4. QED BY <1>2, <1>3, RestoreTypeInvariance, PTL DEF Spec

---------------------------------------------------------------------------
(* What is in the target.                                                  *)

\* The restore stage has removed the directory, markers and all.
Closed(p) == pc[p]["restore"] = "ok" /\ "job-done" \notin markers[p]

Loading == {"inspect", "drop", "create", "filter", "filtering", "load", "copying"}
Replicating == {"load", "copying", "attach", "syncing", "promote"}
Statements == {"drop", "create", "filter", "filtering", "apply", "applying"}

DataInv(p) ==
  /\ After("extract") \in markers[p] \/ pc[p]["extract"] = "finish"
       => ~Is(p, "plain", "torn")
  /\ pc[p]["restore"] \in Loading => Is(p, "plain", "whole")
  /\ pc[p]["restore"] \in {"apply", "applying"} => Is(p, "filtered", "whole")
  /\ pc[p]["restore"] \in {"attach", "syncing"} => Is(p, "rdb", "whole")
  /\ pc[p]["restore"] = "promote" => target.data = "restored" /\ target.from = src[p]
  /\ pc[p]["restore"] \in {"tidy", "tidyCopy", "finish", "linger"} \/ "job-done" \in markers[p]
       => target = [data |-> "restored", from |-> src[p], role |-> "master"]
  /\ pc[p]["restore"] = "tidyCopy" => files[p] = OfForm(p, "rdb")
  /\ pc[p]["restore"] \in {"finish", "linger"} \/ "job-done" \in markers[p] => files[p] = {}

EngineInv ==
  /\ Engine = "redis" => target.data # "none"
  /\ Engine # "redis" => target.role = "master"
  /\ \A p \in Pods : /\ pc[p]["restore"] \in Replicating => Engine = "redis"
                     /\ pc[p]["restore"] \in Statements => Engine # "redis"

\* Only Redis is given a copy of the dump.
CopyInv == Engine # "redis" => \A p \in Pods : OfForm(p, "rdb") = {}

RestoreInv ==
  /\ PodsInv /\ EngineInv /\ CopyInv
  /\ \A p \in Pods : ~Ended(p) /\ ~Closed(p) => MarkInv(p) /\ DataInv(p)
  /\ NothingLeftBehind

\* The stages' own actions.
OwnAct(p) == \/ Cleanup(p) \/ Fetch(p) \/ Unpack(p) \/ Load(p) \/ Replicate(p)
             \/ Finish(p) \/ RestoreFails(p)

ChainAct(p) == /\ UNCHANGED data
               /\ \/ StartPod(p) \/ BackoffExceeded(p) \/ Evict(p)
                  \/ \E s \in Stages : \/ Poll(p, s) \/ TimesOut(p, s)
                                       \/ Restart(p, s) \/ Kill(p, s)

\* A stage at work goes on, or exits non-zero.
WorkStep(p, s) ==
  /\ pc[p][s] \notin Idle \cup Exited
  /\ \/ Go(p, s, "err") /\ \A q \in Pods : Kept(q)
     \/ /\ pc[p][s] \notin Quiet
        /\ \E to : to \notin Quiet /\ Go(p, s, to)
        /\ Kept(p) \/ (s = "cleanup" /\ markers'[p] = {})

\* A directory is left alone or emptied.
Swept(q) == \/ markers'[q] = markers[q] /\ files'[q] = files[q] /\ src'[q] = src[q]
            \/ markers'[q] = {} /\ files'[q] = {} /\ src'[q] = src[q]

\* Every action of a stage moves one container, removes the directory at the
\* end, or begins a sync; and touches the other pods only by sweeping.
LEMMA OwnSteps ==
  ASSUME TypeOK, NEW p \in Pods, OwnAct(p)
  PROVE  /\ \/ \E s \in Stages : WorkStep(p, s)
            \/ RemoveScratch(p)
            \/ SyncBegins(p)
         /\ UNCHANGED <<dead, restarts>> /\ dir' \subseteq dir
         /\ \A q \in Pods \ {p} : Swept(q)
<1> USE StageFacts
<1>0. ChainTypeOK(PCs) /\ files \in [Pods -> SUBSET File] /\ src \in [Pods -> ObjectNames]
  BY DEF TypeOK
<1>1. ASSUME NEW s \in Stages, pc[p][s] \notin Idle \cup Exited, Exit1(p, s)
      PROVE  WorkStep(p, s) /\ \A q \in Pods \ {p} : markers'[q] = markers[q]
  <2>1. WorkStep(p, s)
    BY <1>0, <1>1, ExitKept DEF WorkStep
  <2>2. \A q \in Pods \ {p} : markers'[q] = markers[q]
    BY <1>0, <1>1 DEF Exit1, ChainTypeOK
  <2>3. QED BY <2>1, <2>2
<1>2. ASSUME NEW s \in Stages, pc[p][s] \notin Quiet, NEW to, to \notin Quiet, Go(p, s, to),
             UNCHANGED markers
      PROVE  WorkStep(p, s)
  BY <1>2 DEF WorkStep, Kept, Quiet, Exited, Through
<1>3. ASSUME \A q \in Pods \ {p} : markers'[q] = markers[q],
             \A q \in Pods \ {p} : files'[q] = files[q],
             \A q \in Pods \ {p} : src'[q] = src[q]
      PROVE  \A q \in Pods \ {p} : Swept(q)
  BY <1>3 DEF Swept
<1> USE DEF Quiet, Idle, Through, Exited
<1>4. CASE SweepOthers(p)
  <2>1. WorkStep(p, "cleanup")
    BY <1>0, <1>4 DEF SweepOthers, WorkStep, Kept, ChainTypeOK
  <2>2. QED BY <1>0, <1>4, <2>1 DEF SweepOthers, Swept
<1>5. CASE ClearOwn(p)
  <2>1. WorkStep(p, "cleanup")
    BY <1>0, <1>5 DEF ClearOwn, WorkStep, ChainTypeOK
  <2>2. QED BY <1>0, <1>3, <1>5, <2>1 DEF ClearOwn, SetFiles, ChainTypeOK
<1>6. CASE Fetch(p)
  <2>1. WorkStep(p, "fetch") /\ \A q \in Pods \ {p} : markers'[q] = markers[q]
    BY <1>1, <1>2, <1>6 DEF Fetch, FetchStart, FetchNone, FetchEnds
  <2>2. QED BY <1>0, <1>3, <1>6, <2>1 DEF Fetch, FetchStart, FetchNone, FetchEnds, SetFiles
<1>7. CASE Unpack(p)
  <2>1. /\ WorkStep(p, "decrypt") \/ WorkStep(p, "extract")
        /\ \A q \in Pods \ {p} : markers'[q] = markers[q]
    BY <1>1, <1>2, <1>7 DEF Unpack, DecryptStart, DecryptEnds, ExtractStart, ExtractEnds
  <2>2. QED BY <1>0, <1>3, <1>7, <2>1 DEF Unpack, DecryptStart, DecryptEnds, ExtractStart,
              ExtractEnds, SetFiles
<1>8. CASE Load(p)
  <2>1. WorkStep(p, "restore") /\ \A q \in Pods \ {p} : markers'[q] = markers[q]
    BY <1>1, <1>2, <1>8 DEF Load, RestoreStart, Inspect, DropDatabase, CreateDatabase,
       FilterStart, FilterEnds, ApplyStart, ApplyOk, Proceed
  <2>2. QED BY <1>0, <1>3, <1>8, <2>1 DEF Load, RestoreStart, Inspect, DropDatabase,
              CreateDatabase, FilterStart, FilterEnds, ApplyStart, ApplyOk, SetFiles, data
<1>9. CASE Replicate(p)
  <2>1. \/ SyncBegins(p) /\ UNCHANGED markers
        \/ WorkStep(p, "restore") /\ \A q \in Pods \ {p} : markers'[q] = markers[q]
    BY <1>1, <1>2, <1>9 DEF Replicate, CopyRdb, LoadRdb, Attach, SyncBegins, SyncOk, SyncTimesOut,
       Promote, chain
  <2>2. QED BY <1>0, <1>3, <1>9, <2>1 DEF Replicate, CopyRdb, LoadRdb, Attach, SyncBegins, SyncOk,
              SyncTimesOut, Promote, SetFiles, data, chain
<1>10. CASE Tidy(p) \/ RemoveCopy(p)
  <2>1. WorkStep(p, "restore") /\ \A q \in Pods \ {p} : markers'[q] = markers[q]
    BY <1>2, <1>10 DEF Tidy, RemoveCopy
  <2>2. QED BY <1>0, <1>3, <1>10, <2>1 DEF Tidy, RemoveCopy, SetFiles
<1>11. CASE RemoveScratch(p)
  BY <1>0, <1>3, <1>11 DEF RemoveScratch, SetFiles, ChainTypeOK
<1>12. CASE RestoreFails(p)
  <2>1. WorkStep(p, "restore") /\ \A q \in Pods \ {p} : markers'[q] = markers[q]
    BY <1>1, <1>12 DEF RestoreFails
  <2>2. QED BY <1>0, <1>3, <1>12, <2>1 DEF RestoreFails, data
<1>13. QED BY <1>4, <1>5, <1>6, <1>7, <1>8, <1>9, <1>10, <1>11, <1>12 DEF OwnAct, Cleanup, Finish

\* A work step is a hop of a pod that has begun and not ended.
LEMMA OwnPodStep ==
  ASSUME TypeOK, PodsInv, NEW p \in Pods, OwnAct(p)
  PROVE  /\ PodStep(p) \/ UNCHANGED chain
         /\ ~Ended(p) /\ Begun(p)
         /\ RemoveScratch(p) \/ SyncBegins(p) \/ \E s \in Stages : Hop(p, s)
<1> USE StageFacts DEF Idle, Quiet, Through, Exited
<1>0. /\ UNCHANGED <<dead, restarts>> /\ dir' \subseteq dir
      /\ \A q \in Pods \ {p} : markers'[q] \subseteq markers[q]
  BY OwnSteps DEF Swept
<1>1. ASSUME NEW s \in Stages, WorkStep(p, s)
      PROVE  ContainerStep(p, s) /\ Hop(p, s) /\ pc[p][s] \notin {"none", "ok", "err"}
  <2>1. pc[p][s] \notin {"none", "ok", "err"}
    BY <1>1 DEF WorkStep
  <2>2. Hop(p, s)
    BY <1>1, <2>1 DEF WorkStep, Hop
  <2>3. PICK to : Go(p, s, to) /\ to # "none"
    BY <1>1 DEF WorkStep
  <2>4. ContainerStep(p, s)
    BY <1>0, <2>1, <2>3 DEF ContainerStep
  <2>5. QED BY <2>1, <2>2, <2>4
<1>2. CASE RemoveScratch(p)
  <2>1. pc[p]["restore"] = "linger" /\ Go(p, "restore", "ok")
    BY <1>2 DEF RemoveScratch
  <2>2. ContainerStep(p, "restore")
    BY <1>0, <2>1 DEF ContainerStep
  <2>3. QED BY <1>2, <2>1, <2>2, EndedRests DEF PodStep, PodsInv
<1>3. CASE SyncBegins(p)
  <2>1. pc[p]["restore"] = "syncing" /\ UNCHANGED chain
    BY <1>3 DEF SyncBegins
  <2>2. QED BY <1>3, <2>1, EndedRests DEF PodsInv
<1>4. ASSUME NEW s \in Stages, WorkStep(p, s)
      PROVE  PodStep(p) /\ ~Ended(p) /\ Begun(p) /\ Hop(p, s)
  BY <1>1, <1>4, EndedRests DEF PodStep, PodsInv
<1>5. QED BY <1>2, <1>3, <1>4, OwnSteps

\* While a pod is at work every other one has ended or not begun.
LEMMA OneAtWork ==
  ASSUME PodsInv, NEW p \in Pods, ~Ended(p), Begun(p), NEW q \in Pods \ {p}
  PROVE  Ended(q) \/ ~Begun(q)
  BY RestoreAssumption DEF PodsInv, Pods

\* Whoever is at work has all the stages after it still before them.
LEMMA StillBehind ==
  ASSUME NEW p \in Pods, MarkInv(p), NEW s \in Stages, pc[p][s] \notin Quiet
  PROVE  /\ After(s) \notin markers[p] /\ "job-done" \notin markers[p]
         /\ \A r \in Stages : Rank[s] < Rank[r] =>
              After(r) \notin markers[p] /\ pc[p][r] \in Idle \cup {"err"}
  BY DEF MarkInv

\* A pod whose extract and restore stages have nothing to show.
LEMMA NothingToShow ==
  ASSUME NEW p \in Pods,
         pc'[p]["extract"] \in Idle \cup {"err"}, pc'[p]["restore"] \in Idle \cup {"err"},
         After("extract") \notin markers'[p], "job-done" \notin markers'[p]
  PROVE  DataInv(p)'
  BY DEF DataInv, Loading, Idle

\* The order of the stages and of the markers that matter here.
LEMMA Ranks ==
  /\ Rank["cleanup"] = 1 /\ Rank["fetch"] = 2 /\ Rank["decrypt"] = 3
  /\ Rank["extract"] = 4 /\ Rank["restore"] = 5
  /\ After("extract") = "extract-done" /\ After("restore") = "job-done"
  /\ \A s \in Stages : After(s) = "job-done" => s = "restore"
  BY StageFacts DEF Rank, After

\* Markers that are kept are kept.
LEMMA KeptFacts ==
  ASSUME NEW p \in Pods, Kept(p)
  PROVE  /\ After("extract") \in markers'[p] <=> After("extract") \in markers[p]
         /\ "job-done" \in markers'[p] <=> "job-done" \in markers[p]
<1>1. \A m : m # "failed" => (m \in markers'[p] <=> m \in markers[p])
  BY DEF Kept
<1>2. QED BY <1>1, Ranks

\* What the stages before restore do keeps DataInv.
LEMMA EarlyData ==
  ASSUME TypeOK, NEW p \in Pods, Cleanup(p) \/ Fetch(p) \/ Unpack(p), MarkInv(p)
  PROVE  DataInv(p)'
<1> USE StageFacts, Ranks
<1>0. ChainTypeOK(PCs)
  BY DEF TypeOK
<1>1. ASSUME NEW s \in {"cleanup", "fetch", "decrypt"}, pc[p][s] \notin Quiet,
             \E to : Go(p, s, to), Kept(p) \/ markers'[p] = {}
      PROVE  DataInv(p)'
  <2>1. s \in Stages /\ Rank[s] < 4 /\ s # "extract" /\ s # "restore"
    OBVIOUS
  <2>2. pc'[p]["extract"] = pc[p]["extract"] /\ pc'[p]["restore"] = pc[p]["restore"]
    BY <1>1, <2>1, RGoFacts
  <2>3. /\ pc[p]["extract"] \in Idle \cup {"err"} /\ pc[p]["restore"] \in Idle \cup {"err"}
        /\ After("extract") \notin markers[p] /\ "job-done" \notin markers[p]
    BY <1>1, <2>1, StillBehind
  <2>4. After("extract") \notin markers'[p] /\ "job-done" \notin markers'[p]
    BY <1>1, <2>3, KeptFacts
  <2>5. QED BY <2>2, <2>3, <2>4, NothingToShow
<1>2. ASSUME NEW s \in Stages, Exit1(p, s) PROVE (\E to : Go(p, s, to)) /\ Kept(p)
  BY <1>0, <1>2, ExitKept
<1>3. ASSUME UNCHANGED markers PROVE Kept(p)
  BY <1>3 DEF Kept
<1>4. CASE Cleanup(p)
  <2>1. /\ pc[p]["cleanup"] \notin Quiet /\ \E to : Go(p, "cleanup", to)
        /\ Kept(p) \/ markers'[p] = {}
    BY <1>0, <1>4 DEF Cleanup, SweepOthers, ClearOwn, Quiet, Idle, Through, Kept, ChainTypeOK
  <2>2. QED BY <1>1, <2>1
<1>5. CASE Fetch(p)
  <2>1. pc[p]["fetch"] \notin Quiet /\ (\E to : Go(p, "fetch", to)) /\ Kept(p)
    BY <1>2, <1>3, <1>5 DEF Fetch, FetchStart, FetchNone, FetchEnds, Quiet, Idle, Through
  <2>2. QED BY <1>1, <2>1
<1>6. CASE DecryptStart(p) \/ DecryptEnds(p)
  <2>1. pc[p]["decrypt"] \notin Quiet /\ (\E to : Go(p, "decrypt", to)) /\ Kept(p)
    BY <1>2, <1>3, <1>6 DEF DecryptStart, DecryptEnds, Quiet, Idle, Through
  <2>2. QED BY <1>1, <2>1
<1>7. CASE ExtractStart(p) \/ ExtractEnds(p)
  <2>1. pc[p]["extract"] \notin Quiet /\ Kept(p)
    BY <1>2, <1>3, <1>7 DEF ExtractStart, ExtractEnds, Quiet, Idle, Through
  <2>2. /\ pc[p]["restore"] \in Idle \cup {"err"}
        /\ After("extract") \notin markers'[p] /\ "job-done" \notin markers'[p]
    BY <2>1, StillBehind, KeptFacts
  <2>3. PICK to : Go(p, "extract", to)
    BY <1>2, <1>7 DEF ExtractStart, ExtractEnds
  <2>4. pc'[p]["extract"] = to /\ pc'[p]["restore"] = pc[p]["restore"]
    BY <2>3, RGoFacts
  <2>5. pc'[p]["extract"] = "finish" => ~Is(p, "plain", "torn")'
    <3>1. CASE to = "finish"
      <4>1. SetFiles(p, With(p, "plain", "whole") \ OfForm(p, "gz"))
        BY <1>7, <2>4, <3>1, RGoFacts DEF ExtractStart, ExtractEnds, Exit1
      <4>2. QED BY <4>1 DEF SetFiles, With, OfForm, Is, TypeOK
    <3>2. QED BY <2>4, <3>1
  <2>6. QED BY <2>2, <2>4, <2>5 DEF DataInv, Loading, Idle
<1>8. QED BY <1>4, <1>5, <1>6, <1>7 DEF Unpack

\* What restore does keeps DataInv: the dump it inspects is whole, what it
\* applies or serves is that dump, and it tidies up before it leaves its marker.
LEMMA LateData ==
  ASSUME TypeOK, EngineInv, NEW p \in Pods,
         \/ Load(p) \/ Replicate(p) \/ Tidy(p) \/ RemoveCopy(p)
         \/ RestoreFails(p), CopyInv, MarkInv(p), DataInv(p)
  PROVE  DataInv(p)'
<1> USE StageFacts, Ranks
<1>0. ChainTypeOK(PCs) /\ target \in Targets /\ files \in [Pods -> SUBSET File]
  BY DEF TypeOK
<1>1. ASSUME NEW to, Go(p, "restore", to)
      PROVE  pc'[p]["restore"] = to /\ pc'[p]["extract"] = pc[p]["extract"]
  BY <1>1, RGoFacts
<1>2. ASSUME Exit1(p, "restore"), UNCHANGED files,
             pc[p]["restore"] \notin Quiet \/ UNCHANGED <<src, target>>
      PROVE  DataInv(p)'
  <2>1. Go(p, "restore", "err") /\ Kept(p)
    BY <1>0, <1>2, ExitKept
  <2>2. pc[p]["restore"] \notin Quiet => "job-done" \notin markers[p]
    BY StillBehind
  <2>3. QED BY <1>1, <1>2, <2>1, <2>2, KeptFacts DEF DataInv, Is, Loading
<1>3. ASSUME pc[p]["restore"] \notin Quiet
      PROVE  After("extract") \in markers[p] /\ ~Is(p, "plain", "torn") /\ "job-done" \notin markers[p]
  BY <1>3, StillBehind DEF MarkInv, DataInv, Quiet
<1> DEFINE Moves(to) == Go(p, "restore", to) /\ UNCHANGED markers /\ pc[p]["restore"] \notin Quiet
<1>4. ASSUME NEW to \in Loading, Moves(to), Is(p, "plain", "whole")', ~Is(p, "plain", "torn")'
      PROVE  DataInv(p)'
  BY <1>1, <1>3, <1>4 DEF DataInv, Loading
<1>5. CASE RestoreStart(p)
  <2>1. CASE OfForm(p, "plain") # {}
    <3>1. pc[p]["restore"] \notin Quiet /\ Moves("inspect")
      BY <1>5, <2>1 DEF RestoreStart, Quiet, Idle, Through
    <3>2. Is(p, "plain", "whole")
      BY <1>0, <1>3, <2>1, <3>1 DEF OfForm, Is, File
    <3>3. UNCHANGED files
      BY <1>5 DEF RestoreStart, data
    <3>4. QED BY <1>3, <1>4, <3>1, <3>2, <3>3 DEF Is, Loading
  <2>2. CASE OfForm(p, "plain") = {}
    BY <1>2, <1>5, <2>2 DEF RestoreStart, data
  <2>3. QED BY <2>1, <2>2
<1>6. CASE Inspect(p)
  <2>1. pc[p]["restore"] \notin Quiet /\ Is(p, "plain", "whole") /\ UNCHANGED <<files, src, target>>
    BY <1>6 DEF Inspect, data, Quiet, Idle, Through, DataInv, Loading
  <2>2. Exit1(p, "restore") \/ \E to \in Loading : Moves(to)
    BY <1>6, <2>1 DEF Inspect, Proceed, Loading
  <2>3. QED BY <1>2, <1>3, <1>4, <2>1, <2>2 DEF Is
<1>7. CASE DropDatabase(p) \/ CreateDatabase(p)
  <2>1. /\ pc[p]["restore"] \notin Quiet /\ Is(p, "plain", "whole") /\ UNCHANGED files
        /\ \E to \in Loading : Moves(to)
    BY <1>7 DEF DropDatabase, CreateDatabase, Quiet, Idle, Through, DataInv, Loading
  <2>2. QED BY <1>3, <1>4, <2>1 DEF Is
<1>8. CASE FilterStart(p)
  <2>1. pc[p]["restore"] \notin Quiet /\ Is(p, "plain", "whole") /\ Moves("filtering")
    BY <1>8 DEF FilterStart, Quiet, Idle, Through, DataInv, Loading
  <2>2. files'[p] = With(p, "filtered", "torn")
    BY <1>0, <1>8 DEF FilterStart, SetFiles
  <2>3. Is(p, "plain", "whole")' /\ ~Is(p, "plain", "torn")'
    BY <1>3, <2>1, <2>2 DEF Is, With, OfForm
  <2>4. QED BY <1>4, <2>1, <2>3 DEF Loading
<1>9. CASE FilterEnds(p)
  <2>1. pc[p]["restore"] \notin Quiet /\ Is(p, "plain", "whole") /\ Moves("apply")
    BY <1>9 DEF FilterEnds, Quiet, Idle, Through, DataInv, Loading
  <2>2. files'[p] = With(p, "filtered", "whole") \ OfForm(p, "plain")
    BY <1>0, <1>9, <2>1 DEF FilterEnds, SetFiles
  <2>3. Is(p, "filtered", "whole")' /\ ~Is(p, "plain", "torn")'
    BY <1>3, <2>1, <2>2 DEF Is, With, OfForm
  <2>4. QED BY <1>1, <1>3, <2>1, <2>3 DEF DataInv, Loading
<1>10. CASE ApplyStart(p)
  <2>1. pc[p]["restore"] \notin Quiet /\ Is(p, "filtered", "whole") /\ Moves("applying") /\ UNCHANGED files
    BY <1>10 DEF ApplyStart, Quiet, Idle, Through, DataInv
  <2>2. QED BY <1>1, <1>3, <2>1 DEF DataInv, Loading, Is
<1>11. CASE ApplyOk(p)
  <2>1. /\ pc[p]["restore"] \notin Quiet /\ Is(p, "filtered", "whole") /\ Moves("tidy")
        /\ UNCHANGED <<files, src>> /\ target' = Filled(p)
    BY <1>11 DEF ApplyOk, Quiet, Idle, Through, DataInv
  <2>2. target.role = "master"
    BY <1>11 DEF ApplyOk, EngineInv, Statements
  <2>3. target' = [data |-> "restored", from |-> src[p], role |-> "master"]
    BY <1>0, <2>1, <2>2 DEF Filled, Targets
  <2>4. QED BY <1>1, <1>3, <2>1, <2>3 DEF DataInv, Loading, Is
<1>12a. CASE CopyRdb(p)
  <2>1. pc[p]["restore"] \notin Quiet /\ Is(p, "plain", "whole") /\ Moves("copying")
    BY <1>12a DEF CopyRdb, Quiet, Idle, Through, DataInv, Loading
  <2>2. files'[p] = With(p, "rdb", "torn")
    BY <1>0, <1>12a DEF CopyRdb, SetFiles
  <2>3. Is(p, "plain", "whole")' /\ ~Is(p, "plain", "torn")'
    BY <1>3, <2>1, <2>2 DEF Is, With, OfForm
  <2>4. QED BY <1>4, <2>1, <2>3 DEF Loading
<1>12b. CASE LoadRdb(p)
  <2>1. pc[p]["restore"] \notin Quiet /\ Is(p, "plain", "whole") /\ Moves("attach")
    BY <1>12b DEF LoadRdb, Quiet, Idle, Through, DataInv, Loading
  <2>2. files'[p] = With(p, "rdb", "whole")
    BY <1>0, <1>12b, <2>1 DEF LoadRdb, SetFiles
  <2>3. Is(p, "rdb", "whole")' /\ ~Is(p, "plain", "torn")'
    BY <1>3, <2>1, <2>2 DEF Is, With, OfForm
  <2>4. QED BY <1>1, <1>3, <2>1, <2>3 DEF DataInv, Loading
<1>12. CASE Attach(p)
  <2>1. /\ pc[p]["restore"] \notin Quiet /\ Is(p, "rdb", "whole") /\ UNCHANGED files
        /\ Moves("syncing")
    BY <1>12 DEF Attach, Quiet, Idle, Through, DataInv
  <2>2. QED BY <1>1, <1>3, <2>1 DEF DataInv, Loading, Is
<1>13. CASE SyncBegins(p)
  <2>1. pc[p]["restore"] = "syncing" /\ UNCHANGED <<chain, files>>
    BY <1>13 DEF SyncBegins
  <2>2. "job-done" \notin markers[p]
    BY <1>3, <2>1 DEF Quiet, Idle, Through
  <2>3. QED BY <2>1, <2>2 DEF DataInv, Loading, Is, chain
<1>14. CASE SyncOk(p)
  <2>1. /\ pc[p]["restore"] \notin Quiet /\ Moves("promote")
        /\ UNCHANGED <<files, src>> /\ target' = Filled(p)
    BY <1>14 DEF SyncOk, Quiet, Idle, Through, DataInv, Loading
  <2>2. target'.data = "restored" /\ target'.from = src'[p]
    BY <1>0, <2>1 DEF Filled, Targets
  <2>3. QED BY <1>1, <1>3, <2>1, <2>2 DEF DataInv, Loading, Is
<1>15. CASE SyncTimesOut(p)
  BY <1>2, <1>15 DEF SyncTimesOut, Quiet, Idle, Through
<1>16. CASE Promote(p)
  <2>1. pc[p]["restore"] \notin Quiet /\ Moves("tidy") /\ UNCHANGED <<files, src>>
    BY <1>16 DEF Promote, Quiet, Idle, Through
  <2>2. target.data = "restored" /\ target.from = src[p]
    BY <1>16 DEF Promote, DataInv
  <2>3. target' = [data |-> "restored", from |-> src[p], role |-> "master"]
    BY <1>0, <1>16, <2>2 DEF Promote, Targets
  <2>4. QED BY <1>1, <1>3, <2>1, <2>3 DEF DataInv, Loading, Is
<1>17. CASE Tidy(p)
  <2>0. pc[p]["restore"] \notin Quiet /\ UNCHANGED <<markers, src, target>>
        /\ files'[p] = OfForm(p, "rdb")
    BY <1>0, <1>17 DEF Tidy, SetFiles, NoDumps, Quiet, Idle, Through
  <2>1. target = [data |-> "restored", from |-> src[p], role |-> "master"]
    BY <1>17 DEF Tidy, DataInv
  <2>2. ~Is(p, "plain", "torn")' /\ files'[p] = OfForm(p, "rdb")'
    BY <2>0 DEF Is, OfForm
  <2>3. CASE Engine = "redis"
    <3>1. Moves("tidyCopy")
      BY <1>17, <2>0, <2>3 DEF Tidy
    <3>2. QED BY <1>1, <1>3, <2>0, <2>1, <2>2, <3>1 DEF DataInv, Loading
  <2>4. CASE Engine # "redis"
    <3>1. Moves("finish") /\ files'[p] = {}
      BY <1>17, <2>0, <2>4 DEF Tidy, CopyInv
    <3>2. QED BY <1>1, <1>3, <2>0, <2>1, <2>2, <3>1 DEF DataInv, Loading
  <2>5. QED BY <2>3, <2>4
<1>17a. CASE RemoveCopy(p)
  <2>1. /\ pc[p]["restore"] \notin Quiet /\ Moves("finish") /\ UNCHANGED <<src, target>>
        /\ files'[p] = files[p] \ OfForm(p, "rdb")
    BY <1>0, <1>17a DEF RemoveCopy, SetFiles, Quiet, Idle, Through
  <2>2. /\ target = [data |-> "restored", from |-> src[p], role |-> "master"]
        /\ files[p] = OfForm(p, "rdb")
    BY <1>17a DEF RemoveCopy, DataInv
  <2>3. files'[p] = {}
    BY <2>1, <2>2
  <2>4. QED BY <1>1, <1>3, <2>1, <2>2, <2>3 DEF DataInv, Loading, Is
<1>18. CASE RestoreFails(p)
  BY <1>2, <1>18 DEF RestoreFails, data
<1>19. QED
  BY <1>5, <1>6, <1>7, <1>8, <1>9, <1>10, <1>11, <1>12, <1>12a, <1>12b, <1>13,
     <1>14, <1>15, <1>16, <1>17, <1>17a, <1>18
     DEF Load, Replicate

\* Between the stages' own steps nothing happens to the data, and what a stage
\* has shown it keeps.
LEMMA ChainData ==
  ASSUME TypeOK, NEW p \in Pods, NEW s \in Stages,
         Poll(p, s) \/ TimesOut(p, s) \/ Restart(p, s) \/ Kill(p, s),
         UNCHANGED data, MarkInv(p), DataInv(p)
  PROVE  DataInv(p)'
<1> USE StageFacts, Ranks
<1>0. ChainTypeOK(PCs) /\ UNCHANGED <<files, src, target>>
  BY DEF TypeOK, data
<1>1. ASSUME NEW to, Go(p, s, to), Kept(p),
             to \in Idle \cup {"err", "work", "hold"} \/ (to = "ok" /\ "job-done" \in markers[p])
      PROVE  DataInv(p)'
  <2>1. pc'[p][s] = to /\ \A r \in Stages \ {s} : pc'[p][r] = pc[p][r]
    BY <1>1, RGoFacts
  <2>2. /\ pc'[p]["extract"] = "finish" => pc[p]["extract"] = "finish"
        /\ \A w \in Loading \cup {"apply", "applying", "attach", "syncing", "promote", "tidy",
                               "tidyCopy", "finish", "linger"} :
             pc'[p]["restore"] = w => pc[p]["restore"] = w
    BY <1>1, <2>1 DEF Idle, Loading
  <2>3. QED BY <1>0, <1>1, <2>2, KeptFacts DEF DataInv, Is, OfForm
<1>2. ASSUME pc[p][s] = "finish", Go(p, s, AfterTouch(s)), Added(p, After(s))
      PROVE  DataInv(p)'
  <2>1. pc'[p][s] = AfterTouch(s) /\ \A r \in Stages \ {s} : pc'[p][r] = pc[p][r]
    BY <1>2, RGoFacts
  <2>2. \A m : m # "failed" => (m \in markers'[p] <=> m \in markers[p] \/ m = After(s))
    BY <1>2 DEF Added
  <2>3. \A r \in Stages : After(r) \in markers'[p] <=> After(r) \in markers[p] \/ r = s
    BY <2>2, AfterFacts, RestoreInOrder DEF InOrder
  <2>4. AfterTouch(s) = IF s = "restore" THEN "linger" ELSE "hold"
    BY DEF AfterTouch
  <2>5. CASE s = "restore"
    BY <1>0, <1>2, <2>1, <2>3, <2>4, <2>5 DEF DataInv, Is, Loading
  <2>6. CASE s # "restore"
    <3>1. "job-done" \in markers'[p] <=> "job-done" \in markers[p]
      BY <2>3, <2>6
    <3>2. After("extract") \in markers'[p] => After("extract") \in markers[p] \/ pc[p]["extract"] = "finish"
      BY <1>2, <2>3
    <3>3. pc'[p]["restore"] = pc[p]["restore"] /\ (pc'[p]["extract"] = "finish" => pc[p]["extract"] = "finish")
      BY <2>1, <2>4, <2>6
    <3>4. QED BY <1>0, <3>1, <3>2, <3>3 DEF DataInv, Is, OfForm
  <2>7. QED BY <2>5, <2>6
<1>3. CASE StartContainer(p, s)
  BY <1>1, <1>3 DEF StartContainer, Idle, Kept
<1>4. CASE Begin(p, s)
  <2>1. Kept(p)
    BY <1>0, <1>4 DEF Begin, Kept, ChainTypeOK
  <2>2. CASE After(s) \in markers[p] /\ s \in LastStages
    <3>1. Go(p, s, "ok") /\ "job-done" \in markers[p]
      BY <1>4, <2>2, AfterFacts DEF Begin
    <3>2. QED BY <1>1, <2>1, <3>1
  <2>3. CASE ~(After(s) \in markers[p] /\ s \in LastStages)
    <3>1. Go(p, s, "hold") \/ Go(p, s, "work")
      BY <1>4, <2>3 DEF Begin
    <3>2. QED BY <1>1, <2>1, <3>1
  <2>4. QED BY <2>2, <2>3
<1>5. CASE HoldEnds(p, s)
  BY <1>1, <1>5 DEF HoldEnds, Kept
<1>6. CASE PeerFailed(p, s) \/ TimesOut(p, s)
  BY <1>0, <1>1, <1>6, ExitKept DEF PeerFailed, TimesOut
<1>7. CASE TouchDone(p, s)
  BY <1>0, <1>1, <1>2, <1>7, TouchKept DEF TouchDone
<1>8. CASE Kill(p, s) \/ Restart(p, s)
  BY <1>1, <1>8 DEF Kill, Restart, Kept, Idle
<1>9. QED BY <1>3, <1>4, <1>5, <1>6, <1>7, <1>8 DEF Poll

\* The engine decides which way the target is filled.
LEMMA EngineStep ==
  ASSUME TypeOK, PodsInv, EngineInv, [Next]_vars
  PROVE  EngineInv'
<1> USE StageFacts
<1>0. ChainTypeOK(PCs) /\ target \in Targets /\ "restore" \in Stages
  BY DEF TypeOK
<1>1. ASSUME NEW p \in Pods, NEW s \in Stages, NEW to, Go(p, s, to),
             s = "restore" => (to \in Replicating => Engine = "redis") /\ (to \in Statements => Engine # "redis")
      PROVE  \A q \in Pods : /\ pc'[q]["restore"] \in Replicating => Engine = "redis"
                             /\ pc'[q]["restore"] \in Statements => Engine # "redis"
  <2>1. /\ pc'[p][s] = to /\ \A r \in Stages \ {s} : pc'[p][r] = pc[p][r]
        /\ \A q \in Pods \ {p} : pc'[q] = pc[q]
    BY <1>1, RGoFacts
  <2>2. QED BY <1>0, <1>1, <2>1 DEF EngineInv
<1>2. ASSUME UNCHANGED pc
      PROVE  \A q \in Pods : /\ pc'[q]["restore"] \in Replicating => Engine = "redis"
                             /\ pc'[q]["restore"] \in Statements => Engine # "redis"
  BY <1>2 DEF EngineInv
<1>3. ASSUME UNCHANGED target,
             \A q \in Pods : /\ pc'[q]["restore"] \in Replicating => Engine = "redis"
                             /\ pc'[q]["restore"] \in Statements => Engine # "redis"
      PROVE  EngineInv'
  BY <1>3 DEF EngineInv
<1>4. ASSUME NEW p \in Pods, Cleanup(p) \/ Fetch(p) \/ Unpack(p) PROVE EngineInv'
  <2>1. PICK s \in Stages \ {"restore"} : \E to : Go(p, s, to)
    BY <1>4 DEF Cleanup, SweepOthers, ClearOwn, Fetch, FetchStart, FetchNone, FetchEnds,
       Unpack, DecryptStart, DecryptEnds, ExtractStart, ExtractEnds, Exit1
  <2>2. UNCHANGED target
    BY <1>4 DEF Cleanup, SweepOthers, ClearOwn, Fetch, FetchStart, FetchNone, FetchEnds,
       Unpack, DecryptStart, DecryptEnds, ExtractStart, ExtractEnds
  <2>3. QED BY <1>1, <1>3, <2>1, <2>2
<1> DEFINE Fits(to) == (to \in Replicating => Engine = "redis") /\ (to \in Statements => Engine # "redis")
<1>5. ASSUME NEW p \in Pods, UNCHANGED target, \E to : Go(p, "restore", to) /\ Fits(to)
      PROVE EngineInv'
  BY <1>0, <1>1, <1>3, <1>5
<1>6. ASSUME NEW p \in Pods, RestoreStart(p) \/ Inspect(p) \/ FilterStart(p) \/ FilterEnds(p)
                               \/ CopyRdb(p) \/ LoadRdb(p) \/ Finish(p) \/ RestoreFails(p)
      PROVE  EngineInv'
  <2>1. UNCHANGED target
    BY <1>6 DEF RestoreStart, Inspect, FilterStart, FilterEnds, CopyRdb, LoadRdb, Finish, Tidy, RemoveCopy,
       RemoveScratch, RestoreFails, data
  <2>2. \E to : Go(p, "restore", to) /\ Fits(to)
    BY <1>6 DEF RestoreStart, Inspect, Proceed, FilterStart, FilterEnds, CopyRdb, LoadRdb, Finish, Tidy, RemoveCopy,
       RemoveScratch, RestoreFails, Exit1, EngineInv, Replicating, Statements
  <2>3. QED BY <1>5, <2>1, <2>2
<1>7. ASSUME NEW p \in Pods, DropDatabase(p) \/ CreateDatabase(p) \/ ApplyStart(p) \/ ApplyOk(p)
      PROVE  EngineInv'
  <2>1. Engine # "redis" /\ \E to : Go(p, "restore", to) /\ Fits(to)
    BY <1>7 DEF DropDatabase, CreateDatabase, ApplyStart, ApplyOk, EngineInv, Replicating, Statements
  <2>2. target'.role = target.role
    BY <1>0, <1>7 DEF DropDatabase, CreateDatabase, ApplyStart, ApplyOk, SetData, Filled, Targets
  <2>3. QED BY <1>0, <1>1, <2>1, <2>2 DEF EngineInv
<1>8. ASSUME NEW p \in Pods, Attach(p) \/ SyncBegins(p) \/ SyncOk(p) \/ SyncTimesOut(p) \/ Promote(p)
      PROVE  EngineInv'
  <2>1. Engine = "redis"
    BY <1>8 DEF Attach, SyncBegins, SyncOk, SyncTimesOut, Promote, EngineInv, Replicating
  <2>2. UNCHANGED pc \/ \E to : Go(p, "restore", to) /\ Fits(to)
    BY <1>8, <2>1 DEF Attach, SyncBegins, SyncOk, SyncTimesOut, Promote, Exit1, chain, Statements
  <2>3. target'.data # "none"
    BY <1>0, <1>8, <2>1 DEF Attach, SyncBegins, SyncOk, SyncTimesOut, Promote, SetData, Filled,
       Targets, EngineInv
  <2>4. QED BY <1>0, <1>1, <1>2, <2>1, <2>2, <2>3 DEF EngineInv
<1>9. ASSUME NEW p \in Pods, UNCHANGED target,
             \/ StartPod(p) \/ BackoffExceeded(p) \/ Evict(p)
             \/ \E s \in Stages : \/ Poll(p, s) \/ TimesOut(p, s) \/ Restart(p, s) \/ Kill(p, s)
      PROVE  EngineInv'
  <2>1. CASE StartPod(p) \/ BackoffExceeded(p) \/ Evict(p)
    <3>1. pc'[p]["restore"] \in {"off", "ok", "err"} /\ \A q \in Pods \ {p} : pc'[q] = pc[q]
      BY <1>0, <2>1 DEF StartPod, BackoffExceeded, Evict, AllStopped, ChainTypeOK
    <3>2. QED BY <1>3, <1>9, <3>1 DEF EngineInv, Replicating, Statements
  <2>2. ASSUME NEW s \in Stages, Poll(p, s) \/ TimesOut(p, s) \/ Restart(p, s) \/ Kill(p, s)
        PROVE  EngineInv'
    <3>1. \E to : Go(p, s, to) /\ Fits(to)
      BY <2>2 DEF Poll, StartContainer, Begin, HoldEnds, PeerFailed, TouchDone, TouchThen, Exit1,
         AfterTouch, TimesOut, Restart, Kill, Replicating, Statements
    <3>2. QED BY <1>1, <1>3, <1>9, <3>1
  <2>3. QED BY <1>9, <2>1, <2>2
<1>10. CASE Use
  <2>1. UNCHANGED pc /\ target'.data = "live" /\ target'.role = target.role
    BY <1>0, <1>10 DEF Use, chain, SetData, Targets
  <2>2. QED BY <1>2, <2>1 DEF EngineInv
<1>11. CASE UNCHANGED vars
  BY <1>2, <1>3, <1>11 DEF vars, chain, data
<1>12. QED
  BY <1>4, <1>6, <1>7, <1>8, <1>9, <1>10, <1>11 DEF Next, Load, Replicate, data

\* Only Redis is given a copy of the dump, whatever the steps.
LEMMA CopyStep ==
  ASSUME TypeOK, EngineInv, CopyInv, [Next]_vars
  PROVE  CopyInv'
<1> SUFFICES ASSUME Engine # "redis", NEW q \in Pods PROVE OfForm(q, "rdb")' = {}
  BY DEF CopyInv
<1>0. files \in [Pods -> SUBSET File] /\ OfForm(q, "rdb") = {}
  BY DEF TypeOK, CopyInv
<1>1. ASSUME files'[q] = files[q] \/ files'[q] = {} PROVE OfForm(q, "rdb")' = {}
  BY <1>0, <1>1 DEF OfForm
<1>2. ASSUME NEW S, S \subseteq files[q] \cup [form : Forms \ {"rdb"}, q : {"torn", "whole"}],
             SetFiles(q, S)
      PROVE  OfForm(q, "rdb")' = {}
  BY <1>0, <1>2 DEF OfForm, SetFiles
<1>3. ASSUME NEW p \in Pods, NEW S, SetFiles(p, S), p # q PROVE OfForm(q, "rdb")' = {}
  BY <1>0, <1>1, <1>3 DEF SetFiles
<1>4. ASSUME NEW p \in Pods, NEW S, SetFiles(p, S),
             S \subseteq files[p] \cup [form : Forms \ {"rdb"}, q : {"torn", "whole"}]
      PROVE  OfForm(q, "rdb")' = {}
  BY <1>2, <1>3, <1>4
<1>5. \A p \in Pods, form \in Forms \ {"rdb"}, w \in {"torn", "whole"} :
        With(p, form, w) \subseteq files[p] \cup [form : Forms \ {"rdb"}, q : {"torn", "whole"}]
  BY DEF With
<1>6. \A p \in Pods : /\ NoDumps(p) \subseteq files[p]
                      /\ [form |-> "gpg", q |-> "torn"] \in [form : Forms \ {"rdb"}, q : {"torn", "whole"}]
  BY DEF NoDumps, OfForm, Forms
<1>7. {"gpg", "gz", "plain", "filtered"} \subseteq Forms \ {"rdb"}
  BY DEF Forms
<1>8. ASSUME NEW p \in Pods, Cleanup(p) PROVE OfForm(q, "rdb")' = {}
  <2>1. CASE SweepOthers(p)
    BY <1>1, <2>1 DEF SweepOthers
  <2>2. CASE ClearOwn(p)
    BY <1>4, <1>6, <2>2 DEF ClearOwn
  <2>3. QED BY <1>8, <2>1, <2>2 DEF Cleanup
<1>9. ASSUME NEW p \in Pods, Fetch(p) PROVE OfForm(q, "rdb")' = {}
  <2>1. CASE FetchStart(p)
    <3>1. /\ SetFiles(p, NoDumps(p) \cup {[form |-> "gpg", q |-> "torn"]})
          /\ NoDumps(p) \cup {[form |-> "gpg", q |-> "torn"]} \subseteq
               files[p] \cup [form : Forms \ {"rdb"}, q : {"torn", "whole"}]
      BY <1>6, <2>1 DEF FetchStart
    <3>2. QED BY <1>4, <3>1
  <2>2. CASE FetchNone(p)
    BY <1>4, <1>6, <2>2 DEF FetchNone
  <2>3. CASE FetchEnds(p)
    BY <1>1, <1>4, <1>5, <1>7, <2>3 DEF FetchEnds
  <2>4. QED BY <1>9, <2>1, <2>2, <2>3 DEF Fetch
<1>10. ASSUME NEW p \in Pods, Unpack(p) PROVE OfForm(q, "rdb")' = {}
  <2>1. CASE UNCHANGED files
    BY <1>1, <2>1
  <2>2. CASE ~UNCHANGED files
    <3>1. \E S : /\ SetFiles(p, S)
                 /\ S \subseteq files[p] \cup [form : Forms \ {"rdb"}, q : {"torn", "whole"}]
      <4>1. /\ With(p, "gz", "whole") \ OfForm(p, "gpg") \subseteq With(p, "gz", "whole")
            /\ With(p, "plain", "whole") \ OfForm(p, "gz") \subseteq With(p, "plain", "whole")
            /\ files[p] \ OfForm(p, "plain") \subseteq files[p]
        OBVIOUS
      <4>2. CASE DecryptStart(p) \/ DecryptEnds(p)
        BY <1>5, <1>7, <2>2, <4>1, <4>2 DEF DecryptStart, DecryptEnds
      <4>3. CASE ExtractStart(p) \/ ExtractEnds(p)
        BY <1>5, <1>7, <2>2, <4>1, <4>3 DEF ExtractStart, ExtractEnds
      <4>4. QED BY <1>10, <4>2, <4>3 DEF Unpack
    <3>2. QED BY <1>4, <3>1
  <2>3. QED BY <2>1, <2>2
<1>11. ASSUME NEW p \in Pods, Load(p) PROVE OfForm(q, "rdb")' = {}
  <2>1. CASE FilterStart(p)
    BY <1>4, <1>5, <1>7, <2>1 DEF FilterStart
  <2>2. CASE FilterEnds(p)
    <3>1. (IF Is(p, "plain", "whole") THEN With(p, "filtered", "whole") ELSE files[p])
            \ OfForm(p, "plain")
            \subseteq files[p] \cup [form : Forms \ {"rdb"}, q : {"torn", "whole"}]
      BY <1>5, <1>7
    <3>2. QED BY <1>4, <2>2, <3>1 DEF FilterEnds
  <2>3. CASE Load(p) /\ ~FilterStart(p) /\ ~FilterEnds(p)
    BY <1>1, <2>3 DEF Load, RestoreStart, Inspect, DropDatabase, CreateDatabase, ApplyStart,
       ApplyOk, data
  <2>4. QED BY <1>11, <2>1, <2>2, <2>3
<1>12. ASSUME NEW p \in Pods, Replicate(p) PROVE OfForm(q, "rdb")' = {}
  <2>1. ~CopyRdb(p) /\ ~LoadRdb(p)
    BY DEF CopyRdb, LoadRdb, EngineInv, Replicating
  <2>2. QED BY <1>1, <1>12, <2>1 DEF Replicate, Attach, SyncBegins, SyncOk, SyncTimesOut, Promote
<1>13. ASSUME NEW p \in Pods, Finish(p) PROVE OfForm(q, "rdb")' = {}
  <2>1. \E S : SetFiles(p, S) /\ S \subseteq files[p]
    <3>1. {} \subseteq files[p] /\ files[p] \ OfForm(p, "rdb") \subseteq files[p]
      OBVIOUS
    <3>2. QED BY <1>6, <1>13, <3>1 DEF Finish, Tidy, RemoveCopy, RemoveScratch
  <2>2. QED BY <1>4, <2>1
<1>14. CASE UNCHANGED files
  BY <1>1, <1>14
<1>15. QED BY <1>8, <1>9, <1>10, <1>11, <1>12, <1>13, <1>14
          DEF Next, RestoreFails, Use, vars, data

\* Once the directory is removed, job-done does not come back.
LEMMA ClosedStays ==
  ASSUME TypeOK, PodsInv, NEW p \in Pods, PodStep(p),
         \/ StartPod(p) \/ BackoffExceeded(p) \/ Evict(p) \/ RemoveScratch(p)
         \/ \E s \in Stages : Hop(p, s),
         NEW q \in Pods, Closed(q)
  PROVE  Closed(q)'
<1> USE StageFacts, Ranks DEF Closed
<1>0. ChainTypeOK(PCs) /\ "restore" \in Stages
  BY DEF TypeOK
<1>1. CASE q # p
  BY <1>0, <1>1, OtherPods
<1>2. CASE q = p /\ (StartPod(p) \/ BackoffExceeded(p) \/ Evict(p) \/ RemoveScratch(p))
  BY <1>0, <1>2 DEF StartPod, BackoffExceeded, Evict, RemoveScratch, AllStopped, ChainTypeOK
<1>3. ASSUME q = p, NEW s \in Stages, Hop(p, s) PROVE Closed(q)'
  <2>1. s # "restore"
    BY <1>0, <1>3 DEF Hop, Begin, HoldEnds, Quiet, Through
  <2>2. PICK to : Go(p, s, to)
    BY <1>3 DEF Hop, Begin, HoldEnds
  <2>3. pc'[p]["restore"] = "ok"
    BY <1>0, <1>3, <2>1, <2>2, RGoFacts
  <2>4. \/ Kept(p) \/ markers'[p] = {} \/ Added(p, After(s))
    BY <1>0, <1>3 DEF Hop, Begin, HoldEnds, Kept, ChainTypeOK
  <2>5. After(s) # "job-done"
    BY <2>1
  <2>6. "job-done" \notin markers'[p]
    BY <1>3, <2>4, <2>5, KeptFacts DEF Added
  <2>7. QED BY <1>3, <2>3, <2>6
<1>4. QED BY <1>1, <1>2, <1>3

\* Pods other than the one that moves.
LEMMA OthersRest ==
  ASSUME TypeOK, RestoreInv, NEW p \in Pods, ~Ended(p), Begun(p),
         PodStep(p) \/ UNCHANGED chain,
         \A r \in Pods \ {p} : Swept(r), NEW q \in Pods \ {p}
  PROVE  /\ ~Ended(q)' => MarkInv(q)' /\ DataInv(q)'
         /\ Succeeded(q)' => files'[q] = {}
<1> USE StageFacts
<1>0. ChainTypeOK(PCs)
  BY DEF TypeOK
<1>1. pc'[q] = pc[q] /\ markers'[q] \subseteq markers[q]
  BY <1>0, OtherPods DEF chain
<1>2. Succeeded(q)' => files'[q] = {}
  BY <1>1 DEF RestoreInv, NothingLeftBehind, Succeeded, Swept
<1>3. Ended(q) \/ ~Begun(q)
  BY OneAtWork DEF RestoreInv
<1>4. ASSUME Ended(q) PROVE Ended(q)'
  <2>1. CASE PodStep(p)
    BY <1>0, <1>4, <2>1, EndedStays DEF RestoreInv
  <2>2. CASE UNCHANGED chain
    BY <1>4, <2>2 DEF chain, Ended, Succeeded
  <2>3. QED BY <2>1, <2>2
<1>5. ASSUME ~Begun(q) PROVE MarkInv(q)' /\ DataInv(q)'
  <2>1. markers[q] = {} /\ \A s \in Stages : pc[q][s] = "none"
    BY <1>0, <1>5 DEF RestoreInv, PodsInv, ChainTypeOK
  <2>2. markers'[q] = {} /\ \A s \in Stages : pc'[q][s] = "none"
    BY <1>1, <2>1
  <2>3. MarkInv(q)'
    BY <2>2 DEF MarkInv, Idle, Through
  <2>4. DataInv(q)'
    BY <2>2, NothingToShow DEF Idle
  <2>5. QED BY <2>3, <2>4
<1>6. QED BY <1>2, <1>3, <1>4, <1>5

\* A stage's own action keeps RestoreInv.
LEMMA RestoreInvOwn ==
  ASSUME TypeOK, RestoreInv, EngineInv', CopyInv', NEW p \in Pods, OwnAct(p)
  PROVE  RestoreInv'
<1> USE StageFacts
<1>0. ChainTypeOK(PCs) /\ PodsInv /\ EngineInv /\ CopyInv
  BY DEF TypeOK, RestoreInv
<1>1. /\ PodStep(p) \/ UNCHANGED chain
      /\ ~Ended(p) /\ Begun(p)
      /\ RemoveScratch(p) \/ SyncBegins(p) \/ \E s \in Stages : Hop(p, s)
  BY <1>0, OwnPodStep
<1>2. /\ \/ \E s \in Stages : WorkStep(p, s)
         \/ RemoveScratch(p)
         \/ SyncBegins(p)
      /\ UNCHANGED <<dead, restarts>> /\ dir' \subseteq dir
      /\ \A q \in Pods \ {p} : Swept(q)
  BY OwnSteps
<1>3. PodsInv'
  <2>1. CASE PodStep(p)
    BY <1>0, <2>1, PodsStep
  <2>2. CASE UNCHANGED chain
    BY <1>0, <2>2, PodsSame DEF chain
  <2>3. QED BY <1>1, <2>1, <2>2
<1>4. \A q \in Pods \ {p} : /\ ~Ended(q)' => MarkInv(q)' /\ DataInv(q)'
                            /\ Succeeded(q)' => files'[q] = {}
  BY <1>1, <1>2, OthersRest
<1>5. ASSUME Closed(p) PROVE Closed(p)'
  <2>1. CASE PodStep(p) /\ ~SyncBegins(p)
    BY <1>0, <1>1, <1>5, <2>1, ClosedStays
  <2>2. CASE UNCHANGED chain
    BY <1>5, <2>2 DEF chain, Closed
  <2>3. SyncBegins(p) => UNCHANGED chain
    BY DEF SyncBegins
  <2>4. QED BY <1>1, <2>1, <2>2, <2>3
<1>6. CASE RemoveScratch(p)
  <2>1. Closed(p)' /\ files'[p] = {}
    BY <1>0, <1>6 DEF RemoveScratch, SetFiles, Closed, ChainTypeOK, Go, TypeOK
  <2>2. QED BY <1>3, <1>4, <2>1 DEF RestoreInv, NothingLeftBehind
<1>7. CASE ~RemoveScratch(p)
  <2>1. ASSUME ~Closed(p) PROVE MarkInv(p)' /\ DataInv(p)'
    <3>1. MarkInv(p) /\ DataInv(p)
      BY <1>1, <2>1 DEF RestoreInv
    <3>2. MarkInv(p)'
      <4>1. CASE SyncBegins(p)
        BY <3>1, <4>1, MarkSame DEF SyncBegins, chain, Kept
      <4>2. CASE \E s \in Stages : Hop(p, s)
        BY <1>0, <3>1, <4>2, MarkHop, RestoreInOrder
      <4>3. QED BY <1>1, <1>7, <4>1, <4>2
    <3>3. DataInv(p)'
      BY <1>0, <1>7, <3>1, EarlyData, LateData DEF OwnAct, Finish
    <3>4. QED BY <3>2, <3>3
  <2>2. ~Succeeded(p)'
    <3>1. CASE SyncBegins(p)
      BY <1>1, <3>1 DEF SyncBegins, chain, Succeeded, Ended
    <3>2. ASSUME NEW s \in Stages, WorkStep(p, s) PROVE ~Succeeded(p)'
      <4>1. PICK to : Go(p, s, to) /\ to # "ok"
        BY <3>2 DEF WorkStep, Quiet, Through
      <4>2. pc'[p][s] # "ok"
        BY <4>1, RGoFacts
      <4>3. QED BY <4>2 DEF Succeeded
    <3>3. QED BY <1>2, <1>7, <3>1, <3>2
  <2>3. QED BY <1>3, <1>4, <1>5, <2>1, <2>2 DEF RestoreInv, NothingLeftBehind
<1>8. QED BY <1>6, <1>7

\* So does everything the marker protocol, the kubelet and accidents do.
LEMMA RestoreInvChain ==
  ASSUME TypeOK, RestoreInv, EngineInv', CopyInv', NEW p \in Pods, ChainAct(p)
  PROVE  RestoreInv'
<1> USE StageFacts
<1>0. /\ ChainTypeOK(PCs) /\ PodsInv /\ EngineInv /\ UNCHANGED <<files, src, target>>
      /\ \/ StartPod(p) \/ BackoffExceeded(p) \/ Evict(p)
         \/ \E s \in Stages : \/ Poll(p, s) \/ TimesOut(p, s) \/ Restart(p, s) \/ Kill(p, s)
  BY DEF TypeOK, RestoreInv, ChainAct, data
<1>1. PodStep(p)
  BY <1>0, ChainPodStep
<1>2. ~Ended(p) /\ PodsInv'
  BY <1>0, <1>1, EndedRests, PodsStep
<1>3. \A q \in Pods \ {p} : pc'[q] = pc[q]
  BY <1>0, <1>1, OtherPods
<1>4. ASSUME NEW q \in Pods \ {p}, ~Ended(q)', ~Closed(q)' PROVE MarkInv(q)' /\ DataInv(q)'
  <2>1. ~Ended(q) /\ Kept(q) /\ markers'[q] \ {"failed"} = markers[q] \ {"failed"}
    BY <1>0, <1>1, <1>4, EndedStays, ChainHops DEF StartPod, BackoffExceeded, Evict, Kept
  <2>2. ~Closed(q)
    BY <1>3, <1>4, <2>1, KeptFacts DEF Closed
  <2>3. MarkInv(q) /\ DataInv(q)
    BY <2>1, <2>2 DEF RestoreInv
  <2>4. MarkInv(q)'
    BY <1>3, <2>1, <2>3, MarkSame
  <2>5. DataInv(q)'
    BY <1>0, <1>3, <2>1, <2>3, KeptFacts DEF DataInv, Is, OfForm
  <2>6. QED BY <2>4, <2>5
<1>5. ASSUME NEW q \in Pods \ {p}, Succeeded(q)' PROVE files'[q] = {}
  BY <1>0, <1>3, <1>5 DEF RestoreInv, NothingLeftBehind, Succeeded
<1>6. ASSUME ~Ended(p)', ~Closed(p)' PROVE MarkInv(p)' /\ DataInv(p)'
  <2>1. ~BackoffExceeded(p) /\ ~Evict(p)
    BY <1>6 DEF BackoffExceeded, Evict, Ended
  <2>2. ~Closed(p)
    BY <1>0, <1>1, <1>6, ClosedStays, ChainHops
  <2>3. MarkInv(p) /\ DataInv(p)
    BY <1>2, <2>2 DEF RestoreInv
  <2>4. CASE StartPod(p)
    <3>1. MarkInv(p)'
      BY <1>0, <2>3, <2>4, MarkStart
    <3>2. (\A s \in Stages : pc[p][s] = "none" /\ pc'[p][s] = "off") /\ markers'[p] = markers[p]
      BY <1>0, <2>4 DEF StartPod, ChainTypeOK
    <3>3. markers[p] = {}
      BY <1>0, <3>2 DEF PodsInv, Begun, ChainTypeOK
    <3>4. DataInv(p)'
      BY <3>2, <3>3, NothingToShow DEF Idle
    <3>5. QED BY <3>1, <3>4
  <2>5. ASSUME NEW s \in Stages, Poll(p, s) \/ TimesOut(p, s) \/ Restart(p, s) \/ Kill(p, s)
        PROVE  MarkInv(p)' /\ DataInv(p)'
    <3>1. MarkInv(p)'
      BY <1>0, <2>3, <2>5, ChainHops, MarkHop, RestoreInOrder
    <3>2. DataInv(p)'
      BY <2>3, <2>5, ChainData DEF ChainAct
    <3>3. QED BY <3>1, <3>2
  <2>6. QED BY <1>0, <2>1, <2>4, <2>5
<1>7. ASSUME Succeeded(p)' PROVE files'[p] = {}
  <2>1. ~StartPod(p) /\ ~BackoffExceeded(p) /\ ~Evict(p)
    <3>1. PICK s \in Stages : pc[p][s] # "ok"
      BY <1>2 DEF Ended, Succeeded
    <3>2. pc'[p][s] = "ok"
      BY <1>7 DEF Succeeded
    <3>3. QED BY <1>0, <3>1, <3>2 DEF StartPod, BackoffExceeded, Evict, AllStopped, ChainTypeOK
  <2>2. PICK s \in Stages : Poll(p, s) \/ TimesOut(p, s) \/ Restart(p, s) \/ Kill(p, s)
    BY <1>0, <2>1
  <2>3. \A to : Go(p, s, to) => to = "ok"
    BY <1>7, RGoFacts DEF Succeeded
  <2>4. "job-done" \in markers[p]
    BY <2>2, <2>3, AfterFacts DEF Poll, StartContainer, Begin, HoldEnds, PeerFailed, TouchDone,
       TouchThen, Exit1, AfterTouch, TimesOut, Restart, Kill
  <2>5. files[p] = {}
    BY <1>2, <2>4 DEF RestoreInv, Closed, DataInv
  <2>6. QED BY <1>0, <2>5
<1>8. QED BY <1>2, <1>4, <1>5, <1>6, <1>7 DEF RestoreInv, NothingLeftBehind

\* RestoreInv is inductive, whatever fails and whatever the restart policy.
LEMMA RestoreInvariance == Spec => []RestoreInv
<1>1. Init => RestoreInv
  <2> SUFFICES ASSUME Init PROVE RestoreInv
    OBVIOUS
  <2>1. \A p \in Pods : /\ MarkInv(p) /\ files[p] = {} /\ markers[p] = {}
                        /\ pc[p]["restore"] = "none" /\ pc[p]["extract"] = "none"
    BY StageFacts, MarkInit DEF Init, ChainInit
  <2>2. \A p \in Pods : DataInv(p)
    BY <2>1 DEF DataInv, Loading, Is
  <2>3. EngineInv /\ CopyInv
    BY <2>1 DEF Init, EngineInv, CopyInv, OfForm, Replicating, Statements
  <2>4. QED BY <2>1, <2>2, <2>3, PodsInit DEF Init, RestoreInv, NothingLeftBehind
<1>2. TypeOK /\ RestoreInv /\ [Next]_vars => RestoreInv'
  <2> SUFFICES ASSUME TypeOK, RestoreInv, [Next]_vars PROVE RestoreInv'
    OBVIOUS
  <2>1. EngineInv' /\ CopyInv'
    BY EngineStep, CopyStep DEF RestoreInv
  <2>2. ASSUME NEW p \in Pods, OwnAct(p) PROVE RestoreInv'
    BY <2>1, <2>2, RestoreInvOwn
  <2>3. ASSUME NEW p \in Pods, ChainAct(p) PROVE RestoreInv'
    BY <2>1, <2>3, RestoreInvChain
  <2>4. CASE Use
    <3>1. /\ UNCHANGED <<pc, markers, dir, dead, restarts, files, src>>
          /\ \A p \in Pods : Ended(p) \/ ~Begun(p)
      BY <2>4 DEF Use, chain, Begun
    <3>2. PodsInv' /\ \A p \in Pods : Ended(p)' <=> Ended(p)
      BY <3>1, PodsSame DEF RestoreInv
    <3>3. ASSUME NEW p \in Pods, ~Ended(p)' PROVE MarkInv(p)' /\ DataInv(p)'
      <4>1. ~Begun(p) /\ ~Ended(p)
        BY <3>1, <3>2, <3>3
      <4>2. markers[p] = {} /\ \A s \in Stages : pc[p][s] = "none"
        BY <4>1 DEF RestoreInv, PodsInv, TypeOK, ChainTypeOK
      <4>3. MarkInv(p)'
        BY <3>1, <4>2 DEF MarkInv, Idle, Through
      <4>4. DataInv(p)'
        BY <3>1, <4>2, NothingToShow, StageFacts DEF Idle
      <4>5. QED BY <4>3, <4>4
    <3>4. QED BY <2>1, <3>1, <3>2, <3>3 DEF RestoreInv, NothingLeftBehind, Succeeded
  <2>5. CASE UNCHANGED vars
    BY <2>1, <2>5 DEF vars, chain, data, RestoreInv, PodsInv, Begun, Ended, Succeeded, Closed,
       MarkInv, DataInv, Is, OfForm, NothingLeftBehind
  <2>6. QED BY <2>2, <2>3, <2>4, <2>5 DEF Next, OwnAct, ChainAct
<1>3. QED BY <1>1, <1>2, RestoreTypeInvariance, PTL DEF Spec

\* When the restore stage releases its peers, the target holds all of the dump
\* that was fetched and accepts writes: whichever programs fail, containers are
\* killed and restarted or pods deleted, in any order.
THEOREM ReleasedMeansRestored == Spec => []DoneMeansRestored
<1>1. RestoreInv => DoneMeansRestored
  BY DEF RestoreInv, DoneMeansRestored, Closed, DataInv
<1>2. QED BY <1>1, RestoreInvariance, PTL

\* A run that succeeded leaves no dump on the volume, for Redis neither the dump
\* nor the copy its server was given.
THEOREM SuccessLeavesNothing == Spec => []NothingLeftBehind
<1>1. RestoreInv => NothingLeftBehind
  BY DEF RestoreInv
<1>2. QED BY <1>1, RestoreInvariance, PTL

---------------------------------------------------------------------------
(* Whose data is replaced, and who is left a replica.                      *)

Filling == {"create", "filter", "filtering", "apply", "applying", "load", "copying", "attach", "syncing"}

\* The restore stage of a run without dropDatabaseIfExists has not come past
\* its inspection unless there was no data to lose.
LiveInv ==
  \A p \in Pods \ DropAllowed : /\ pc[p]["restore"] \in Filling => target.data # "live"
                                /\ pc[p]["restore"] # "drop"

\* What StageChain does to the restore stage.
LEMMA ChainPlaces ==
  ASSUME TypeOK, NEW p \in Pods, ChainAct(p)
  PROVE  /\ UNCHANGED target
         /\ \A q \in Pods : \/ pc'[q]["restore"] = pc[q]["restore"]
                            \/ pc'[q]["restore"] \in {"off", "wait", "work", "hold", "linger", "ok", "err"}
<1> USE StageFacts
<1>0. ChainTypeOK(PCs)
  BY DEF TypeOK
<1>1. CASE StartPod(p) \/ BackoffExceeded(p) \/ Evict(p)
  BY <1>0, <1>1 DEF StartPod, BackoffExceeded, Evict, AllStopped, ChainTypeOK, ChainAct, data
<1>2. ASSUME NEW s \in Stages, Poll(p, s) \/ TimesOut(p, s) \/ Restart(p, s) \/ Kill(p, s)
      PROVE  \A q \in Pods : \/ pc'[q]["restore"] = pc[q]["restore"]
                             \/ pc'[q]["restore"] \in {"off", "wait", "work", "hold", "linger", "ok", "err"}
  <2>1. PICK to \in {"off", "wait", "work", "hold", "release", "linger", "ok", "err"} :
          Go(p, s, to) /\ (s = "restore" => to # "release")
    BY <1>2 DEF Poll, StartContainer, Begin, HoldEnds, PeerFailed, TouchDone, TouchThen, Exit1,
       AfterTouch, TimesOut, Restart, Kill
  <2>2. QED BY <2>1, RGoFacts
<1>3. QED BY <1>1, <1>2 DEF ChainAct, data

\* What the stages do to restore, and restore to the target.
LEMMA TargetMoves ==
  ASSUME TypeOK, NEW p \in Pods, OwnAct(p),
         Engine # "mariadb" \/ "tool" \notin Faults,
         p \notin DropAllowed, pc[p]["restore"] # "drop"
  PROVE  /\ \/ pc'[p]["restore"] \notin Filling \cup {"drop"}
            \/ pc[p]["restore"] \in Filling /\ pc'[p]["restore"] # "drop"
            \/ target.data \in {"none", "empty"} /\ pc'[p]["restore"] # "drop"
         /\ \/ UNCHANGED target
            \/ pc[p]["restore"] \in Filling \cup {"promote"}
<1> USE StageFacts
<1>0. ChainTypeOK(PCs) /\ target \in Targets
  BY DEF TypeOK
<1>1. ASSUME NEW to, Go(p, "restore", to) PROVE pc'[p]["restore"] = to
  BY <1>1, RGoFacts
<1>2. CASE Cleanup(p) \/ Fetch(p) \/ Unpack(p)
  <2>1. PICK s \in Stages \ {"restore"} : \E to : Go(p, s, to)
    BY <1>2 DEF Cleanup, SweepOthers, ClearOwn, Fetch, FetchStart, FetchNone, FetchEnds,
       Unpack, DecryptStart, DecryptEnds, ExtractStart, ExtractEnds, Exit1
  <2>2. UNCHANGED target
    BY <1>2 DEF Cleanup, SweepOthers, ClearOwn, Fetch, FetchStart, FetchNone, FetchEnds,
       Unpack, DecryptStart, DecryptEnds, ExtractStart, ExtractEnds
  <2>3. QED BY <2>1, <2>2, RGoFacts DEF Filling
<1>3. CASE RestoreStart(p) \/ RestoreFails(p) \/ Finish(p)
  BY <1>1, <1>3 DEF RestoreStart, RestoreFails, Finish, Tidy, RemoveCopy, RemoveScratch, Exit1, data, Filling
<1>4. CASE Inspect(p)
  <2>1. UNCHANGED target
    BY <1>4 DEF Inspect, data
  <2>2. \/ target.data \in {"none", "empty"} /\ \E to : Go(p, "restore", to) /\ to # "drop"
        \/ Go(p, "restore", "err")
    BY <1>0, <1>4, RestoreAssumption DEF Inspect, Proceed, Exit1
  <2>3. QED BY <1>1, <2>1, <2>2 DEF Filling
<1>5. CASE Load(p) /\ ~RestoreStart(p) /\ ~Inspect(p)
  <2>1. pc[p]["restore"] \in Filling /\ \E to : Go(p, "restore", to) /\ to # "drop"
    BY <1>5 DEF Load, DropDatabase, CreateDatabase, FilterStart, FilterEnds, ApplyStart, ApplyOk,
       Filling
  <2>2. QED BY <1>1, <2>1
<1>6. CASE Replicate(p)
  <2>1. CASE Promote(p)
    <3>1. pc[p]["restore"] = "promote" /\ Go(p, "restore", "tidy")
      BY <2>1 DEF Promote
    <3>2. QED BY <1>1, <3>1 DEF Filling
  <2>2. CASE ~Promote(p)
    <3>1. pc[p]["restore"] \in Filling /\ (UNCHANGED pc \/ \E to : Go(p, "restore", to) /\ to # "drop")
      BY <1>6, <2>2 DEF Replicate, CopyRdb, LoadRdb, Attach, SyncBegins, SyncOk, SyncTimesOut, Exit1,
         chain, Filling
    <3>2. QED BY <1>1, <3>1 DEF Filling
  <2>3. QED BY <2>1, <2>2
<1>7. QED BY <1>2, <1>3, <1>4, <1>5, <1>6 DEF OwnAct

\* No step but Use puts live data into the target; Promote keeps the data.
LEMMA TargetData ==
  ASSUME TypeOK, NEW p \in Pods, OwnAct(p)
  PROVE  /\ target'.data = "live" => target.data = "live"
         /\ pc[p]["restore"] = "promote" => target'.data = target.data
<1>0. target \in Targets
  BY DEF TypeOK
<1>1. CASE Cleanup(p) \/ Fetch(p) \/ Unpack(p) \/ Finish(p) \/ RestoreFails(p)
  BY <1>1 DEF Cleanup, SweepOthers, ClearOwn, Fetch, FetchStart, FetchNone, FetchEnds,
       Unpack, DecryptStart, DecryptEnds, ExtractStart, ExtractEnds, Finish, Tidy, RemoveCopy, RemoveScratch,
       RestoreFails, data
<1>2. CASE Load(p)
  BY <1>0, <1>2 DEF Load, RestoreStart, Inspect, DropDatabase, CreateDatabase, FilterStart,
     FilterEnds, ApplyStart, ApplyOk, SetData, Filled, Targets, data
<1>3. CASE Replicate(p)
  BY <1>0, <1>3 DEF Replicate, CopyRdb, LoadRdb, Attach, SyncBegins, SyncOk, SyncTimesOut, Promote,
     SetData, Filled, Targets, data
<1>4. QED BY <1>1, <1>2, <1>3 DEF OwnAct

\* Data that this pipeline did not put there is replaced only by a run with
\* spec.dropDatabaseIfExists, however many runs fail, die or are retried.  For
\* MariaDB only if its client does not fail: mysqlrestore.sh takes a failing
\* count of tables for an empty database.
THEOREM LiveDataIsKept ==
  ASSUME Engine # "mariadb" \/ "tool" \notin Faults
  PROVE  Spec => LiveDataKept
<1> USE StageFacts
<1>1. Init => LiveInv
  BY DEF Init, ChainInit, LiveInv, Filling
<1>2. TypeOK /\ RestoreInv /\ LiveInv /\ [Next]_vars
        => /\ LiveInv'
           /\ [target.data = "live" =>
                 \/ target'.data = "live"
                 \/ \E p \in DropAllowed : ~Ended(p) /\ pc[p]["cleanup"] # "none"]_vars
  <2> SUFFICES ASSUME TypeOK, RestoreInv, LiveInv, [Next]_vars
               PROVE  /\ LiveInv'
                      /\ target.data = "live" =>
                           \/ target'.data = "live"
                           \/ \E p \in DropAllowed : ~Ended(p) /\ Begun(p)
    BY DEF Begun
  <2>1. ASSUME NEW p \in Pods, OwnAct(p)
        PROVE  /\ LiveInv'
               /\ target.data = "live" =>
                    \/ target'.data = "live"
                    \/ \E q \in DropAllowed : ~Ended(q) /\ Begun(q)
    <3>1. ~Ended(p) /\ Begun(p) /\ \A q \in Pods \ {p} : pc'[q] = pc[q]
      <4>1. (PodStep(p) \/ UNCHANGED chain) /\ ~Ended(p) /\ Begun(p)
        BY <2>1, OwnPodStep DEF RestoreInv
      <4>2. QED BY <4>1, OtherPods DEF TypeOK, chain
    <3>2. target'.data = "live" => target.data = "live"
      BY <2>1, TargetData
    <3>3. \A q \in Pods \ {p} : pc[q]["restore"] \notin Filling
      <4> SUFFICES ASSUME NEW q \in Pods \ {p}, pc[q]["restore"] \in Filling PROVE FALSE
        OBVIOUS
      <4>1. Begun(q) /\ ~Ended(q)
        BY EndedRests DEF RestoreInv, PodsInv, Filling, Exited
      <4>2. QED BY <3>1, <4>1, OneAtWork DEF RestoreInv
    <3>4. CASE p \in DropAllowed
      BY <3>1, <3>2, <3>3, <3>4 DEF LiveInv
    <3>5. CASE p \notin DropAllowed
      <4>1. pc[p]["restore"] # "drop" /\ (pc[p]["restore"] \in Filling => target.data # "live")
        BY <3>5 DEF LiveInv
      <4>2. /\ \/ pc'[p]["restore"] \notin Filling \cup {"drop"}
               \/ pc[p]["restore"] \in Filling /\ pc'[p]["restore"] # "drop"
               \/ target.data \in {"none", "empty"} /\ pc'[p]["restore"] # "drop"
            /\ \/ UNCHANGED target
               \/ pc[p]["restore"] \in Filling \cup {"promote"}
        BY <2>1, <3>5, <4>1, TargetMoves
      <4>3. LiveInv'
        BY <3>1, <3>2, <3>3, <4>1, <4>2 DEF LiveInv
      <4>4. target.data = "live" => target'.data = "live"
        BY <2>1, <4>1, <4>2, TargetData
      <4>5. QED BY <4>3, <4>4
    <3>6. QED BY <3>4, <3>5
  <2>2. ASSUME NEW p \in Pods, ChainAct(p) PROVE LiveInv' /\ UNCHANGED target
    BY <2>2, ChainPlaces DEF LiveInv, Filling
  <2>3. CASE Use
    <3>1. \A p \in Pods : pc'[p]["restore"] \in Exited \cup {"none"}
      BY <2>3, EndedRests DEF Use, chain, RestoreInv, PodsInv, Begun
    <3>2. target.data # "live"
      BY <2>3 DEF Use
    <3>3. QED BY <3>1, <3>2 DEF LiveInv, Filling, Exited
  <2>4. CASE UNCHANGED vars
    BY <2>4 DEF vars, chain, data, LiveInv
  <2>5. QED BY <2>1, <2>2, <2>3, <2>4 DEF Next, OwnAct, ChainAct
<1>3. QED BY <1>1, <1>2, RestoreTypeInvariance, RestoreInvariance, PTL DEF Spec, LiveDataKept

\* A Redis target is a replica only while a pod has it sync: unless its client
\* fails, a run that gives up after an hour hands it back writable.
THEOREM ReplicaIsHandedBack ==
  ASSUME "tool" \notin Faults
  PROVE  Spec => []ReplicaOnlyWhileSyncing
<1> USE StageFacts
<1>1. Init => ReplicaOnlyWhileSyncing
  BY DEF Init, ReplicaOnlyWhileSyncing
<1>2. TypeOK /\ ReplicaOnlyWhileSyncing /\ [Next]_vars => ReplicaOnlyWhileSyncing'
  <2> SUFFICES ASSUME TypeOK, ReplicaOnlyWhileSyncing, [Next]_vars,
                      target'.role = "replica", kills' = 0, dead' = {}
               PROVE  \E p \in Pods : pc'[p]["restore"] \in {"syncing", "promote"}
    BY DEF ReplicaOnlyWhileSyncing
  <2>0. ChainTypeOK(PCs) /\ target \in Targets /\ kills \in Nat
    BY DEF TypeOK, ChainTypeOK
  <2>1. ASSUME kills = 0, dead = {}, target.role = "replica"
        PROVE  \E q \in Pods : pc[q]["restore"] \in {"syncing", "promote"}
    BY <2>1 DEF ReplicaOnlyWhileSyncing
  <2>2. ASSUME NEW p \in Pods, OwnAct(p)
        PROVE  \E q \in Pods : pc'[q]["restore"] \in {"syncing", "promote"}
    <3>1. UNCHANGED dead /\ kills = 0
      BY <2>2, OwnSteps DEF OwnAct, Cleanup, SweepOthers, ClearOwn, Fetch, FetchStart, FetchNone, FetchEnds,
       Unpack, DecryptStart, DecryptEnds, ExtractStart, ExtractEnds, Load,
         RestoreStart, Inspect, DropDatabase, CreateDatabase, FilterStart, FilterEnds,
         ApplyStart, ApplyOk, Replicate, CopyRdb, LoadRdb, Attach, SyncBegins, SyncOk,
         SyncTimesOut, Promote, Finish, Tidy, RemoveCopy, RemoveScratch, RestoreFails, chain
    <3>2. CASE Attach(p) \/ SyncOk(p)
      BY <3>2, RGoFacts DEF Attach, SyncOk
    <3>3. CASE SyncBegins(p)
      BY <3>3 DEF SyncBegins, chain
    <3>4. ~SyncTimesOut(p) /\ ~Promote(p) /\ ~RestoreFails(p)
      BY <2>0 DEF SyncTimesOut, Promote, RestoreFails, Targets
    <3>5. CASE OwnAct(p) /\ ~Attach(p) /\ ~SyncOk(p) /\ ~SyncBegins(p)
      <4>1. target'.role = target.role
        BY <2>0, <3>4, <3>5 DEF OwnAct, Cleanup, SweepOthers, ClearOwn, Fetch, FetchStart, FetchNone, FetchEnds,
           Unpack, DecryptStart, DecryptEnds, ExtractStart, ExtractEnds, Load,
           RestoreStart, Inspect, DropDatabase, CreateDatabase, FilterStart, FilterEnds,
           ApplyStart, ApplyOk, Replicate, CopyRdb, LoadRdb, Finish, Tidy, RemoveCopy, RemoveScratch,
           SetData, Filled, data, Targets
      <4>2. PICK s \in Stages : (\E to : Go(p, s, to)) /\ (s = "restore" => pc[p][s] \notin {"syncing", "promote"})
        BY <3>4, <3>5 DEF OwnAct, Cleanup, SweepOthers, ClearOwn, Fetch, FetchStart, FetchNone, FetchEnds,
           Unpack, DecryptStart, DecryptEnds, ExtractStart, ExtractEnds, Load,
           RestoreStart, Inspect, DropDatabase, CreateDatabase, FilterStart, FilterEnds,
           ApplyStart, ApplyOk, Replicate, CopyRdb, LoadRdb, Finish, Tidy, RemoveCopy, RemoveScratch, Exit1
      <4>3. PICK q \in Pods : pc[q]["restore"] \in {"syncing", "promote"}
        BY <2>1, <3>1, <4>1
      <4>4. pc'[q]["restore"] = pc[q]["restore"]
        BY <4>2, <4>3, RGoFacts
      <4>5. QED BY <4>3, <4>4
    <3>6. QED BY <2>2, <3>2, <3>3, <3>5
  <2>3. ASSUME NEW p \in Pods, ChainAct(p)
        PROVE  \E q \in Pods : pc'[q]["restore"] \in {"syncing", "promote"}
    <3>1. ~BackoffExceeded(p) /\ ~Evict(p)
      BY DEF BackoffExceeded, Evict
    <3>2. UNCHANGED target
      BY <2>3 DEF ChainAct, data
    <3>3. CASE StartPod(p)
      <4>1. /\ kills = 0 /\ dead = {} /\ \A q \in Pods \ {p} : pc'[q] = pc[q]
            /\ pc[p]["restore"] = "none"
        BY <2>0, <3>3 DEF StartPod, ChainTypeOK
      <4>2. QED BY <2>1, <3>2, <4>1
    <3>4. ASSUME NEW s \in Stages, Poll(p, s) \/ TimesOut(p, s) \/ Restart(p, s) \/ Kill(p, s)
          PROVE  \E q \in Pods : pc'[q]["restore"] \in {"syncing", "promote"}
      <4>1. ~Kill(p, s)
        BY <2>0 DEF Kill
      <4>2. kills = 0 /\ dead = {} /\ pc[p][s] \notin {"syncing", "promote"} /\ \E to : Go(p, s, to)
        BY <3>4, <4>1 DEF Poll, StartContainer, Begin, HoldEnds, PeerFailed, TouchDone, TouchThen,
           Exit1, TimesOut, Restart, Missing, Polling
      <4>3. PICK q \in Pods : pc[q]["restore"] \in {"syncing", "promote"}
        BY <2>1, <3>2, <4>2
      <4>4. pc'[q]["restore"] = pc[q]["restore"]
        BY <4>2, <4>3, RGoFacts
      <4>5. QED BY <4>3, <4>4
    <3>5. QED BY <2>3, <3>1, <3>3, <3>4 DEF ChainAct
  <2>4. CASE Use
    <3>1. target.role = "master" /\ target'.role = target.role
      BY <2>0, <2>4 DEF Use, SetData, Targets
    <3>2. QED BY <3>1
  <2>5. CASE UNCHANGED vars
    BY <2>1, <2>5 DEF vars, chain, data
  <2>6. QED BY <2>2, <2>3, <2>4, <2>5 DEF Next, OwnAct, ChainAct
<1>3. QED BY <1>1, <1>2, RestoreTypeInvariance, PTL DEF Spec

---------------------------------------------------------------------------
(* Failure, under restartPolicy Never.                                     *)

\* A live pod fails in the open, and has not removed its directory.
RestoreLife ==
  NoneKilled => \A p \in Pods : ~Ended(p) => Alive(p, TRUE) /\ ~Closed(p)

\* A stage's own action is a step of a live pod's container, unless it removes
\* the directory or only the target changes.
LEMMA OwnLife ==
  ASSUME TypeOK, NEW p \in Pods, OwnAct(p), ~RemoveScratch(p), ~SyncBegins(p)
  PROVE  /\ \E s \in Stages : LifeStep(p, s, TRUE)
         /\ p \in dir => p \in dir'
         /\ UNCHANGED kills
<1> USE StageFacts DEF Quiet, Idle, Through, LastStages
<1>0. ChainTypeOK(PCs)
  BY DEF TypeOK
<1>1. ASSUME NEW s \in Stages, pc[p][s] \notin Quiet, Exit1(p, s) PROVE LifeStep(p, s, TRUE)
  BY <1>1 DEF LifeStep
<1>2. ASSUME NEW s \in Stages, pc[p][s] \notin Quiet, NEW to, to \notin Quiet, Go(p, s, to),
             UNCHANGED markers
      PROVE  LifeStep(p, s, TRUE)
  BY <1>2 DEF LifeStep
<1>3. CASE Cleanup(p)
  <2>1. /\ pc[p]["cleanup"] \notin Quiet
        /\ \E to : to \notin Quiet /\ Go(p, "cleanup", to)
        /\ markers'[p] = markers[p] \/ markers'[p] = {}
    BY <1>0, <1>3 DEF Cleanup, SweepOthers, ClearOwn, ChainTypeOK
  <2>2. LifeStep(p, "cleanup", TRUE)
    BY <2>1 DEF LifeStep
  <2>3. QED BY <1>3, <2>2 DEF Cleanup, SweepOthers, ClearOwn
<1>4. CASE Fetch(p)
  <2>1. LifeStep(p, "fetch", TRUE)
    BY <1>1, <1>2, <1>4 DEF Fetch, FetchStart, FetchNone, FetchEnds
  <2>2. QED BY <1>4, <2>1 DEF Fetch, FetchStart, FetchNone, FetchEnds
<1>5. CASE Unpack(p)
  <2>1. LifeStep(p, "decrypt", TRUE) \/ LifeStep(p, "extract", TRUE)
    BY <1>1, <1>2, <1>5 DEF Unpack, DecryptStart, DecryptEnds, ExtractStart, ExtractEnds
  <2>2. QED BY <1>5, <2>1 DEF Unpack, DecryptStart, DecryptEnds, ExtractStart, ExtractEnds
<1>6. CASE Load(p)
  <2>1. LifeStep(p, "restore", TRUE)
    BY <1>1, <1>2, <1>6 DEF Load, RestoreStart, Inspect, DropDatabase, CreateDatabase,
       FilterStart, FilterEnds, ApplyStart, ApplyOk, Proceed
  <2>2. QED BY <1>6, <2>1 DEF Load, RestoreStart, Inspect, DropDatabase, CreateDatabase,
              FilterStart, FilterEnds, ApplyStart, ApplyOk
<1>7. CASE Replicate(p)
  <2>1. LifeStep(p, "restore", TRUE)
    BY <1>1, <1>2, <1>7 DEF Replicate, CopyRdb, LoadRdb, Attach, SyncOk, SyncTimesOut, Promote
  <2>2. QED BY <1>7, <2>1 DEF Replicate, CopyRdb, LoadRdb, Attach, SyncOk, SyncTimesOut, Promote
<1>8. CASE Finish(p)
  <2>1. Tidy(p) \/ RemoveCopy(p)
    BY <1>8 DEF Finish
  <2>2. LifeStep(p, "restore", TRUE)
    BY <1>2, <2>1 DEF Tidy, RemoveCopy
  <2>3. QED BY <2>1, <2>2 DEF Tidy, RemoveCopy
<1>9. CASE RestoreFails(p)
  <2>1. LifeStep(p, "restore", TRUE)
    BY <1>9 DEF RestoreFails, LifeStep
  <2>2. QED BY <1>9, <2>1 DEF RestoreFails
<1>10. QED BY <1>3, <1>4, <1>5, <1>6, <1>7, <1>8, <1>9 DEF OwnAct

\* Pods other than the one that is at work.
LEMMA OthersLife ==
  ASSUME TypeOK, RestoreInv, NEW p \in Pods, ~Ended(p), Begun(p), PodStep(p), NEW q \in Pods \ {p}
  PROVE  Ended(q)' \/ (Alive(q, TRUE)' /\ ~Closed(q)')
<1>0. ChainTypeOK(PCs) /\ PodsInv
  BY DEF TypeOK, RestoreInv
<1>1. CASE Ended(q)
  BY <1>0, <1>1, EndedStays
<1>2. CASE ~Begun(q)
  <2>1. markers[q] = {} /\ \A s \in Stages : pc[q][s] = "none"
    BY <1>0, <1>2 DEF PodsInv, ChainTypeOK
  <2>2. markers'[q] = {} /\ \A s \in Stages : pc'[q][s] = "none"
    BY <1>0, <2>1, OtherPods
  <2>3. QED BY <2>2, AliveUnbegun, StageFacts DEF Closed
<1>3. QED BY <1>0, <1>1, <1>2, OneAtWork

\* The directory goes when every container of the pod is home or about to be.
LEMMA RemovalEnds ==
  ASSUME "stall" \notin Faults, TypeOK, NEW p \in Pods, TurnInv(p), MarkInv(p), Alive(p, TRUE),
         RemoveScratch(p)
  PROVE  Succeeded(p)'
<1> USE StageFacts DEF LastStages
<1>1. /\ pc[p]["restore"] = "linger" /\ Go(p, "restore", "ok")
      /\ \A s \in Stages : pc[p][s] \notin {"wait", "hold"}
  BY DEF RemoveScratch
<1>2. "job-done" \in markers[p] /\ \A s \in Stages : After(s) \in markers[p]
  BY <1>1, Ranks DEF MarkInv, Through
<1>3. \A s \in Stages : pc[p][s] # "err"
  BY <1>1, <1>2 DEF Alive
<1>4. \A s \in Stages : pc[p][s] \in Through
  BY <1>2, <1>3 DEF TurnInv, LostPods
<1>5. \A s \in Stages \ {"restore"} : pc[p][s] = "ok"
  BY <1>1, <1>3, <1>4 DEF TurnInv, LostPods, Through
<1>6. QED BY <1>1, <1>5, RGoFacts DEF Succeeded

\* RestoreLife is inductive, and while it holds nobody's patience ends.
LEMMA RestoreLifeStep ==
  ASSUME RestartPolicy = "Never", "slow" \notin Faults, "stall" \notin Faults,
         TypeOK, RestoreInv, Turns, RestoreLife, [Next]_vars
  PROVE  RestoreLife' /\ \A p \in Pods, s \in Stages : TimesOut(p, s) => ~NoneKilled
<1> USE StageFacts
<1>0. ChainTypeOK(PCs) /\ kills \in Nat /\ PodsInv
  BY DEF TypeOK, ChainTypeOK, RestoreInv
<1>1. ASSUME NEW p \in Pods, NoneKilled, ~Ended(p)
      PROVE  MarkInv(p) /\ TurnInv(p) /\ Alive(p, TRUE) /\ ~Closed(p)
  BY <1>1 DEF RestoreInv, Turns, RestoreLife
<1>2. ASSUME NEW p \in Pods, NEW s \in Stages, TimesOut(p, s), NoneKilled PROVE FALSE
  <2>1. ~Ended(p)
    BY <1>0, <1>2, EndedRests DEF TimesOut, Missing, Polling, Exited
  <2>2. \E r \in Stages : AfterTouch(r) # "hold"
    BY DEF AfterTouch
  <2>3. QED BY <1>1, <1>2, <2>1, <2>2, NobodyGivesUp, RestoreInOrder
<1>3. ASSUME NEW p \in Pods, MarkInv(p)' PROVE ~Closed(p)'
  BY <1>3, Ranks DEF MarkInv, Closed, Through
<1>4. ASSUME NEW p \in Pods, NEW s \in Stages, NoneKilled, ~Ended(p), LifeStep(p, s, TRUE),
             \E r \in Stages : Hop(p, r), p \in dir => p \in dir'
      PROVE  Alive(p, TRUE)' /\ ~Closed(p)'
  <2>1. Alive(p, TRUE)'
    BY <1>0, <1>1, <1>4, AliveStep, RestoreInOrder
  <2>2. MarkInv(p)'
    BY <1>0, <1>1, <1>4, MarkHop, RestoreInOrder
  <2>3. QED BY <1>3, <2>1, <2>2
<1>5. ASSUME NEW p \in Pods, OwnAct(p), NoneKilled PROVE RestoreLife'
  <2>1. /\ PodStep(p) \/ UNCHANGED chain
        /\ ~Ended(p) /\ Begun(p)
        /\ RemoveScratch(p) \/ SyncBegins(p) \/ \E s \in Stages : Hop(p, s)
    BY <1>0, <1>5, OwnPodStep
  <2>2. CASE UNCHANGED chain
    BY <1>5, <2>2 DEF chain, RestoreLife, Alive, Closed, Ended, Succeeded
  <2>3. CASE PodStep(p) /\ RemoveScratch(p)
    <3>1. Ended(p)'
      BY <1>1, <1>5, <2>1, <2>3, RemovalEnds DEF Ended
    <3>2. QED BY <2>1, <2>3, <3>1, OthersLife DEF RestoreLife
  <2>4. CASE PodStep(p) /\ ~RemoveScratch(p) /\ ~SyncBegins(p)
    <3>1. Alive(p, TRUE)' /\ ~Closed(p)'
      BY <1>4, <1>5, <2>1, <2>4, OwnLife
    <3>2. QED BY <2>1, <2>4, <3>1, OthersLife DEF RestoreLife
  <2>5. SyncBegins(p) => UNCHANGED chain
    BY DEF SyncBegins
  <2>6. QED BY <2>1, <2>2, <2>3, <2>4, <2>5
<1>6. ASSUME NEW p \in Pods, NEW s \in Stages, Poll(p, s), NoneKilled PROVE RestoreLife'
  <2>1. PodStep(p) /\ ~Ended(p) /\ Begun(p)
    <3>1. PodStep(p)
      BY <1>0, <1>6, ChainPodStep
    <3>2. pc[p][s] # "none"
      BY <1>6 DEF Poll, StartContainer, Begin, HoldEnds, PeerFailed, TouchDone, Missing, Polling
    <3>3. QED BY <1>0, <3>1, <3>2, EndedRests DEF PodsInv
  <2>2. LifeStep(p, s, TRUE)
    BY <1>6 DEF Poll, LifeStep
  <2>3. Hop(p, s)
    BY <1>0, <1>6, ChainHops
  <2>4. dir \subseteq dir'
    BY <1>6 DEF Poll, StartContainer, Begin, HoldEnds, PeerFailed, TouchDone
  <2>5. Alive(p, TRUE)' /\ ~Closed(p)'
    BY <1>4, <1>6, <2>1, <2>2, <2>3, <2>4
  <2>6. QED BY <2>1, <2>5, OthersLife DEF RestoreLife
<1>7. ASSUME NEW p \in Pods, StartPod(p) \/ Evict(p), NoneKilled PROVE RestoreLife'
  <2>1. /\ \A q \in Pods \ {p} : pc'[q] = pc[q]
        /\ UNCHANGED <<markers, dir>> /\ dead \subseteq dead' /\ dead' \subseteq dead \cup {p}
    BY <1>0, <1>7 DEF StartPod, Evict, AllStopped, ChainTypeOK
  <2>2. ASSUME NEW q \in Pods \ {p}, ~Ended(q)' PROVE Alive(q, TRUE)' /\ ~Closed(q)'
    <3>1. ~Ended(q)
      BY <2>1, <2>2 DEF Ended, Succeeded
    <3>2. Alive(q, TRUE) /\ ~Closed(q)
      BY <1>1, <1>7, <3>1
    <3>3. QED BY <2>1, <3>2, AliveSame DEF Closed
  <2>3. CASE StartPod(p)
    <3>1. \A s \in Stages : pc[p][s] = "none" /\ pc'[p][s] = "off"
      BY <1>0, <2>3 DEF StartPod, ChainTypeOK
    <3>2. markers'[p] = {}
      BY <1>0, <2>1, <3>1 DEF PodsInv, Begun, ChainTypeOK
    <3>3. Alive(p, TRUE)' /\ ~Closed(p)'
      BY <3>1, <3>2, AliveUnbegun DEF Closed
    <3>4. QED BY <2>2, <3>3 DEF RestoreLife
  <2>4. CASE Evict(p)
    <3>1. Ended(p)'
      BY <2>4 DEF Evict, Ended
    <3>2. QED BY <2>2, <3>1 DEF RestoreLife
  <2>5. QED BY <1>7, <2>3, <2>4
<1>8. ASSUME NEW p \in Pods, NEW s \in Stages, Kill(p, s) PROVE RestoreLife'
  BY <1>0, <1>8 DEF Kill, NoneKilled, RestoreLife
<1>9. ASSUME NEW p \in Pods PROVE ~BackoffExceeded(p) /\ \A s \in Stages : ~Restart(p, s)
  BY DEF BackoffExceeded, Restart, MayRestart
<1>10. ASSUME Use \/ UNCHANGED vars PROVE RestoreLife'
  <2>1. UNCHANGED chain
    BY <1>10 DEF Use, vars
  <2>2. ASSUME NEW p \in Pods, Alive(p, TRUE) /\ ~Closed(p) PROVE Alive(p, TRUE)' /\ ~Closed(p)'
    BY <2>1, <2>2, AliveSame DEF chain, Closed
  <2>3. \A p \in Pods : Ended(p)' <=> Ended(p)
    BY <2>1 DEF chain, Ended, Succeeded
  <2>4. NoneKilled' <=> NoneKilled
    BY <2>1 DEF chain, NoneKilled
  <2>5. ASSUME NoneKilled', NEW p \in Pods, ~Ended(p)' PROVE Alive(p, TRUE)' /\ ~Closed(p)'
    <3>1. NoneKilled /\ ~Ended(p)
      BY <2>3, <2>4, <2>5
    <3>2. QED BY <1>1, <2>2, <3>1
  <2>6. QED BY <2>5 DEF RestoreLife
<1>11. ASSUME ~NoneKilled, Next PROVE ~NoneKilled'
  <2>1. kills' = kills \/ kills' = kills + 1
    <3>1. ASSUME NEW p \in Pods, OwnAct(p) PROVE kills' = kills
      BY <3>1, OwnLife DEF RemoveScratch, SyncBegins, chain
    <3>2. QED BY <1>11, <3>1, ZenonT(60) DEF Next, OwnAct, Use, vars, chain, StartPod, BackoffExceeded, Evict,
                Poll, StartContainer, Begin, HoldEnds, PeerFailed, TouchDone, TimesOut, Restart, Kill
  <2>2. QED BY <1>0, <1>11, <2>1 DEF NoneKilled
<1>12. RestoreLife'
  <2>1. CASE NoneKilled
    BY <1>2, <1>5, <1>6, <1>7, <1>8, <1>9, <1>10, <2>1 DEF Next, OwnAct
  <2>2. CASE ~NoneKilled
    BY <1>10, <1>11, <2>2 DEF RestoreLife
  <2>3. QED BY <2>1, <2>2
<1>13. QED BY <1>2, <1>12

\* RestoreLife holds when no stage outlasts the patience of its peers and no
\* peer stalls for the 20 s after .step-job-done.
LEMMA RestoreLifeInvariance ==
  ASSUME RestartPolicy = "Never", "slow" \notin Faults, "stall" \notin Faults
  PROVE  Spec => []RestoreLife
<1>1. Init => RestoreLife
  BY StageFacts DEF Init, ChainInit, RestoreLife, Alive, Closed
<1>2. TypeOK /\ RestoreInv /\ Turns /\ RestoreLife /\ [Next]_vars => RestoreLife'
  BY RestoreLifeStep
<1>3. QED BY <1>1, <1>2, RestoreTypeInvariance, RestoreInvariance, RestoreTurns, PTL DEF Spec

\* A stage of a restore gives up waiting only when something died without a
\* word, although the last stage removes the markers the others look for.
THEOREM RestoreNoVainWait ==
  ASSUME RestartPolicy = "Never", "slow" \notin Faults, "stall" \notin Faults
  PROVE  Spec => NoVainWait
<1>1. ASSUME TypeOK, RestoreInv, Turns, RestoreLife, [Next]_vars
      PROVE  [\A p \in Pods, s \in Stages : TimesOut(p, s) => kills > 0]_chain
  <2>1. kills \in Nat
    BY <1>1 DEF TypeOK, ChainTypeOK
  <2>2. ~NoneKilled => kills > 0
    BY <2>1 DEF NoneKilled
  <2>3. QED BY <1>1, <2>2, RestoreLifeStep
<1>2. QED BY <1>1, RestoreLifeInvariance, RestoreTypeInvariance, RestoreInvariance, RestoreTurns,
         PTL DEF Spec, NoVainWait
=============================================================================
