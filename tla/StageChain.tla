---------------------------- MODULE StageChain ----------------------------
(***************************************************************************)
(* The marker protocol of internal/pipeline/scripts/common.sh and the pods *)
(* it runs in.  The stage containers of one pod run concurrently and hand  *)
(* over through marker files, named .step-..., in a scratch directory named *)
(* after the pod, on a volume that outlives the pod.  Pods are the runs of *)
(* one Backup's or Restore's CronJob, in the order they are created.       *)
(*                                                                         *)
(* The actions here say what happens to containers, markers and scratch    *)
(* directories; BackupPipeline and RestorePipeline add what the stages do. *)
(***************************************************************************)
EXTENDS Integers, FiniteSets

CONSTANTS
  Stages,         \* the containers of the pod
  MaxPods,        \* number of pods (runs and retries) of the CronJob
  RestartPolicy,  \* spec.job.restartPolicy
  BackoffLimit,   \* spec.job.backoffLimit
  Overlap,        \* two pods may run at once (manual Job, policy Allow)
  Faults,         \* what the environment may do: see FaultKinds
  MaxRestarts,    \* bound on container restarts per pod
  MaxKills        \* bound on containers killed and pods evicted

\* tool: a program of a stage exits non-zero;  kill: SIGKILL / OOM of one
\* container, which runs no EXIT trap;  evict: the whole pod goes;
\* slow: a stage outlasts the 24 h patience of its peers;  stall: a container
\* makes no progress for 20 s;  sync: a Redis target cannot reach the pod.
FaultKinds == {"tool", "kill", "evict", "slow", "stall", "sync"}

ASSUME ChainAssumption ==
  /\ "cleanup" \in Stages
  /\ Stages \subseteq {"cleanup", "dump", "compress", "encrypt", "s3-sync",
                       "fetch", "decrypt", "extract", "restore"}
  /\ MaxPods \in Nat /\ MaxRestarts \in Nat /\ MaxKills \in Nat
  /\ BackoffLimit \in 0..MaxRestarts
  /\ Overlap \in BOOLEAN
  /\ RestartPolicy \in {"Never", "OnFailure"}
  /\ Faults \subseteq FaultKinds

VARIABLES
  pc,        \* pc[p][s]: where the container of stage s in pod p is
  markers,   \* markers[p]: the .step-* files in p's scratch directory
  dir,       \* the pods whose scratch directory exists
  dead,      \* pods deleted by the Job controller or evicted
  restarts,  \* restarts[p]: container restarts of p, over all stages
  kills      \* containers killed and pods evicted so far

chain == <<pc, markers, dir, dead, restarts, kills>>

Pods == 1..MaxPods
Markers == {"cleanup-done", "dump-done", "compress-done", "encrypt-done",
            "fetch-done", "decrypt-done", "extract-done", "job-done",
            "failed"}

\* none: no such pod yet;  off: container not started;  wait: in wait_for;
\* work: the stage's own steps begin;  finish: only its marker is missing;
\* hold: in hold_until_job_done;  ok, err: exited.
ChainPCs == {"none", "off", "wait", "work", "finish", "release", "linger",
             "hold", "ok", "err"}

ChainTypeOK(PCs) ==
  /\ pc \in [Pods -> [Stages -> PCs]]
  /\ markers \in [Pods -> SUBSET Markers]
  /\ dir \subseteq Pods
  /\ dead \subseteq Pods
  /\ restarts \in [Pods -> Nat]
  /\ kills \in Nat

ChainInit ==
  /\ pc = [p \in Pods |-> [s \in Stages |-> "none"]]
  /\ markers = [p \in Pods |-> {}]
  /\ dir = {}
  /\ dead = {}
  /\ restarts = [p \in Pods |-> 0]
  /\ kills = 0

Succeeded(p) == \A s \in Stages : pc[p][s] = "ok"

Ended(p) ==
  \/ p \in dead
  \/ Succeeded(p)
  \/ RestartPolicy = "Never" /\ \A s \in Stages : pc[p][s] \in {"ok", "err"}

Go(p, s, to) == pc' = [pc EXCEPT ![p][s] = to]

\* A non-zero exit runs the EXIT trap.  mark_failed ignores its own errors,
\* so the mark is lost when the scratch directory is gone.
Exit1(p, s) ==
  /\ Go(p, s, "err")
  /\ markers' = IF p \in dir THEN [markers EXCEPT ![p] = @ \cup {"failed"}]
                             ELSE markers

\* touch marker under set -e.
TouchThen(p, s, m, to) ==
  IF p \in dir
  THEN /\ Go(p, s, to)
       /\ markers' = [markers EXCEPT ![p] = @ \cup {m}]
  ELSE Exit1(p, s)

---------------------------------------------------------------------------
(* Which stage follows which.                                              *)

\* Mutants: the last stage starts on the wrong marker; two stages await each
\* other; a stage leaves a marker nobody knows.
Before_TooEarly(s) == CASE s \in {"dump", "fetch"}      -> "cleanup-done"
                        [] s = "compress"               -> "dump-done"
                        [] s \in {"encrypt", "s3-sync"} -> "compress-done"
                        [] s = "decrypt"                -> "fetch-done"
                        [] s \in {"extract", "restore"} -> "decrypt-done"
                        [] OTHER                        -> "none"
Before_Circular(s) == CASE s \in {"dump", "fetch"} -> "cleanup-done"
                        [] s = "compress" -> "encrypt-done"
                        [] s = "encrypt"  -> "compress-done"
                        [] s = "s3-sync"  -> "encrypt-done"
                        [] s = "decrypt"  -> "extract-done"
                        [] s = "extract"  -> "decrypt-done"
                        [] s = "restore"  -> "extract-done"
                        [] OTHER          -> "none"
After_Misnamed(s) == CASE s = "cleanup"  -> "cleanup-done"
                       [] s = "dump"     -> "dumped"
                       [] s = "fetch"    -> "fetched"
                       [] s = "compress" -> "compress-done"
                       [] s = "encrypt"  -> "encrypt-done"
                       [] s = "decrypt"  -> "decrypt-done"
                       [] s = "extract"  -> "extract-done"
                       [] OTHER          -> "job-done"

\* The marker a stage waits for before it works, and the one it leaves.
Before(s) == CASE s \in {"dump", "fetch"} -> "cleanup-done"
               [] s = "compress" -> "dump-done"
               [] s = "encrypt"  -> "compress-done"
               [] s = "s3-sync"  -> "encrypt-done"
               [] s = "decrypt"  -> "fetch-done"
               [] s = "extract"  -> "decrypt-done"
               [] s = "restore"  -> "extract-done"
               [] OTHER          -> "none"
After(s) == CASE s = "cleanup"  -> "cleanup-done"
              [] s = "dump"     -> "dump-done"
              [] s = "compress" -> "compress-done"
              [] s = "encrypt"  -> "encrypt-done"
              [] s = "fetch"    -> "fetch-done"
              [] s = "decrypt"  -> "decrypt-done"
              [] s = "extract"  -> "extract-done"
              [] OTHER          -> "job-done"

\* The stages that release their peers: .step-job-done is their own marker.
LastStages == {"s3-sync", "restore"}

\* What a stage does once its marker is there: encrypt releases its peers
\* itself when there is no s3-sync, restore has yet to remove the directory.
AfterTouch(s) == CASE s = "s3-sync" -> "ok"
                   [] s = "restore" -> "linger"
                   [] s = "encrypt" /\ "s3-sync" \notin Stages -> "release"
                   [] OTHER -> "hold"

---------------------------------------------------------------------------
(* Pods, and the helpers of common.sh.                                     *)

\* The marker a polling loop of s looks for.
Awaited(p, s) == IF pc[p][s] = "wait" THEN Before(s) ELSE "job-done"
Polling(p, s) == pc[p][s] = "hold" \/ (pc[p][s] = "wait" /\ s # "cleanup")
Missing(p, s) == Polling(p, s) /\ Awaited(p, s) \notin markers[p]

\* CronJob concurrencyPolicy Forbid; a retried Job's next pod.
StartPod(p) ==
  /\ \A s \in Stages : pc[p][s] = "none"
  /\ \A q \in 1..(p - 1) : \/ Ended(q)
                           \/ Overlap /\ \A s \in Stages : pc[q][s] # "none"
  /\ pc' = [pc EXCEPT ![p] = [s \in Stages |-> "off"]]
  /\ UNCHANGED <<markers, dir, dead, restarts, kills>>

\* pipeline_init: mkdir -p of the scratch directory.
StartContainer(p, s) ==
  /\ pc[p][s] = "off"
  /\ Go(p, s, "wait")
  /\ dir' = dir \cup {p}
  /\ UNCHANGED <<markers, dead, restarts, kills>>

\* Mutant: cleanup does not ask whether it is already done.
Begin_CleanupAgain(p, s) ==
  /\ pc[p][s] = "wait" /\ ~Missing(p, s)
  /\ IF After(s) \in markers[p] /\ s # "cleanup"
     THEN Go(p, s, IF s \in LastStages THEN "ok" ELSE "hold") /\ UNCHANGED markers
     ELSE /\ Go(p, s, "work")
          /\ markers' = IF s \in {"dump", "fetch"}
                        THEN [markers EXCEPT ![p] = @ \ {"failed"}]
                        ELSE markers
  /\ UNCHANGED <<dir, dead, restarts, kills>>

\* wait_for returns; already_done_hold / already_done_exit; dump and fetch
\* also drop a .step-failed of an earlier attempt.
Begin(p, s) ==
  /\ pc[p][s] = "wait" /\ ~Missing(p, s)
  /\ IF After(s) \in markers[p]
     THEN /\ Go(p, s, IF s \in LastStages THEN "ok" ELSE "hold")
          /\ UNCHANGED markers
     ELSE /\ Go(p, s, "work")
          /\ markers' = IF s \in {"dump", "fetch"}
                        THEN [markers EXCEPT ![p] = @ \ {"failed"}]
                        ELSE markers
  /\ UNCHANGED <<dir, dead, restarts, kills>>

\* Mutant: a stage does not wait for the end of the run.
HoldEnds_AtOnce(p, s) ==
  /\ pc[p][s] = "hold"
  /\ Go(p, s, "ok")
  /\ UNCHANGED <<markers, dir, dead, restarts, kills>>

HoldEnds(p, s) ==
  /\ pc[p][s] = "hold" /\ "job-done" \in markers[p]
  /\ Go(p, s, "ok")
  /\ UNCHANGED <<markers, dir, dead, restarts, kills>>

\* A polling loop meets .step-failed before the marker it looks for.
PeerFailed(p, s) ==
  /\ Missing(p, s) /\ "failed" \in markers[p]
  /\ Exit1(p, s)
  /\ UNCHANGED <<dir, dead, restarts, kills>>

TouchDone(p, s) ==
  /\ pc[p][s] = "finish"
  /\ TouchThen(p, s, After(s), AfterTouch(s))
  /\ UNCHANGED <<dir, dead, restarts, kills>>

MayRestart(p) ==
  RestartPolicy = "OnFailure" /\ p \notin dead /\ restarts[p] < MaxRestarts

\* Mutant: the polling loops have no limit.
Patience_None(p) == FALSE

\* 24 h of polling are over.  Unless a stage may be that slow, they pass only
\* when no container of the pod can do anything else.
Patience(p) ==
  \/ "slow" \in Faults
  \/ \A s \in Stages : \/ pc[p][s] = "ok"
                       \/ pc[p][s] = "err" /\ ~MayRestart(p)
                       \/ Missing(p, s) /\ "failed" \notin markers[p]

TimesOut(p, s) ==
  /\ Missing(p, s) /\ "failed" \notin markers[p]
  /\ Patience(p)
  /\ Exit1(p, s)
  /\ UNCHANGED <<dir, dead, restarts, kills>>

\* What a container does by itself around its own work.
Poll(p, s) ==
  \/ StartContainer(p, s) \/ Begin(p, s) \/ HoldEnds(p, s) \/ PeerFailed(p, s)
  \/ TouchDone(p, s)

---------------------------------------------------------------------------
(* The kubelet, the Job controller and accidents.                          *)

\* The kubelet restarts a failed container in place.
Restart(p, s) ==
  /\ MayRestart(p) /\ pc[p][s] = "err"
  /\ Go(p, s, "off")
  /\ restarts' = [restarts EXCEPT ![p] = @ + 1]
  /\ UNCHANGED <<markers, dir, dead, kills>>

AllStopped(p) == pc' = [pc EXCEPT ![p] = [s \in Stages |->
                          IF pc[p][s] = "ok" THEN "ok" ELSE "err"]]

\* The Job controller deletes a pod whose restarts exceed backoffLimit.
BackoffExceeded(p) ==
  /\ RestartPolicy = "OnFailure" /\ ~Ended(p)
  /\ restarts[p] >= BackoffLimit /\ restarts[p] > 0
  /\ AllStopped(p)
  /\ dead' = dead \cup {p}
  /\ UNCHANGED <<markers, dir, restarts, kills>>

Kill(p, s) ==
  /\ "kill" \in Faults /\ kills < MaxKills
  /\ pc[p][s] \notin {"none", "off", "ok", "err"}
  /\ Go(p, s, "err")
  /\ kills' = kills + 1
  /\ UNCHANGED <<markers, dir, dead, restarts>>

Evict(p) ==
  /\ "evict" \in Faults /\ kills < MaxKills
  /\ ~Ended(p) /\ \A s \in Stages : pc[p][s] # "none"
  /\ AllStopped(p)
  /\ dead' = dead \cup {p}
  /\ kills' = kills + 1
  /\ UNCHANGED <<markers, dir, restarts>>

AllEnded == \A p \in Pods : Ended(p)

---------------------------------------------------------------------------
(* Properties of the hand-over, whatever the stages do.                    *)

\* The done marker of a live pod is never taken away again: a restarted
\* cleanup container must not clear the markers of the stages after it.
DoneMarkersStay ==
  [][\A p \in Pods :
       ~Ended(p) => markers[p] \ {"failed"} \subseteq markers'[p]]_chain

\* Once the last stage has released its peers none of them reports failure,
\* so a run whose work is done is not retried (unless the pod is evicted).
JobDoneMeansSuccess ==
  \A p \in Pods \ dead : "job-done" \in markers[p] =>
    \A s \in Stages : pc[p][s] # "err"

\* A pod that is started ends: no container waits for ever on a peer that
\* failed, died silently or lost its scratch directory.
PodEnds ==
  \A p \in Pods : (pc[p]["cleanup"] # "none") ~> Ended(p)

\* A stage gives up waiting only when something died without a word: between
\* them the markers leave no group of stages waiting for each other or for a
\* marker that is gone, so a run in which every program succeeds succeeds.
NoVainWait ==
  [][\A p \in Pods, s \in Stages : TimesOut(p, s) => kills > 0]_chain

---------------------------------------------------------------------------
(* The relay this implements when containers are not restarted.            *)

\* The order of the containers in the pod.
Rank == [s \in Stages |-> CASE s = "cleanup"                -> 1
                           [] s \in {"dump", "fetch"}       -> 2
                           [] s \in {"compress", "decrypt"} -> 3
                           [] s \in {"encrypt", "extract"}  -> 4
                           [] OTHER                         -> 5]

LostPods == {p \in Pods : \E s \in Stages : pc[p][s] = "err"}
StagesAt(places) ==
  [p \in Pods |-> IF p \in LostPods THEN {}
                  ELSE {s \in Stages : pc[p][s] \in places}]
Idle == {"none", "off", "wait"}
Through == {"hold", "release", "linger", "ok"}

R == INSTANCE Relay WITH
  running <- [p \in Pods |-> IF p \in LostPods THEN {}
                ELSE {s \in Stages : pc[p][s] \notin Idle \cup Through}],
  passed <- StagesAt(Through), left <- StagesAt({"ok"}), lost <- LostPods

\* Under restartPolicy Never the containers of a pod, which know of each other
\* only through files in a directory that others may remove, run a relay: one
\* at a time, in order, none leaving early, and no failed run ever succeeds.
TakesTurns == R!Spec
=============================================================================
