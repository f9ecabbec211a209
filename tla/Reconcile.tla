----------------------------- MODULE Reconcile -----------------------------
(***************************************************************************)
(* The operator's reconcilers, internal/controller: how a Backup or Restore *)
(* becomes a ConfigMap, a PVC, a CronJob and perhaps a volume holder        *)
(* Deployment, and how status.phase reports it.                            *)
(*                                                                         *)
(* Every read goes to informer caches, one per type, that lag behind the   *)
(* API server; every write goes to the API server.  Users edit and delete  *)
(* resources, other controllers write to the same objects, calls fail and  *)
(* the operator restarts between any two calls.                            *)
(***************************************************************************)
EXTENDS Integers, Sequences

CONSTANTS
  CRs,       \* the custom resources of the namespace: see Resource
  Specs,     \* the specs users write: see SpecOK
  MaxLabel,  \* name length that fits a DNS label, in name parts
  First,     \* First[c]: the specs c may begin with
  Start,     \* how the resources begin: "absent", "new" or "synced"
  Legacy,    \* resources that still own pre-0.0.4 objects
  Faults,    \* what happens besides: see FaultKinds
  MaxTurns   \* bound on steps of users, other controllers and faults

\* edit, delete: users;  revert: edits may lead back;  tick: the CronJob controller writes a status;
\* api: a write fails;  crash: the operator restarts;  down: a holder pod
\* goes;  secret, invalid: a prerequisite goes missing or lacks what it needs;
\* resync: the informers' resync period passes.
FaultKinds == {"edit", "delete", "tick", "api", "crash", "down", "secret",
               "invalid", "resync", "revert"}

Types == {"ConfigMap", "PVC", "Deployment", "CronJob"}
Kinds == {"Backup", "Restore"}

\* A name is a sequence of its parts: karkive-backup-app is
\* <<"karkive", "backup", "app">>.
Resource(c) == c.kind \in Kinds /\ c.name \in Seq(STRING) /\ c.name # <<>>

\* rev stands for what ConfigMap and CronJob are made from;  s3: endpoint and
\* bucket are given, here or to the operator.
SpecOK(s) ==
  /\ s.engine \in {"db", "pvc", "other"} /\ s.rev \in Nat
  /\ s.valid \in BOOLEAN /\ s.persistence \in BOOLEAN /\ s.holder \in BOOLEAN
  /\ s.s3 \in BOOLEAN
  /\ s.valid => (s.holder => s.persistence)

ASSUME ReconcileAssumption ==
  /\ \A c \in CRs : Resource(c)
  /\ Specs # {} /\ \A s \in Specs : SpecOK(s)
  /\ MaxLabel \in Nat /\ MaxLabel >= 3 /\ MaxTurns \in Nat
  /\ Start \in {"absent", "new", "synced"}
  /\ \A c \in CRs : First[c] \subseteq Specs
  /\ Start = "synced" => \A c \in CRs : \A s \in First[c] :
                           s.valid /\ s.engine = "db" /\ s.s3
  /\ Legacy \subseteq CRs
  /\ Faults \subseteq FaultKinds

VARIABLES
  crs,      \* the resources, as the API server has them
  objs,     \* the objects, as the API server has them
  pre,      \* pre[c][n]: the prerequisites of c
  crSeen,   \* the operator's cache of crs
  objSeen,  \* the operator's cache of objs
  preSeen,  \* the operator's cache of pre
  crFresh,  \* resources whose cached version is the current one
  fresh,    \* objects whose cached version is the current one
  queue,    \* resources in the work queue, or about to be queued again
  step,     \* step[c]: where the reconcile of c is
  local,    \* local[c]: the copy of c the reconcile works on
  current,  \* resources whose local copy is still the current version
  todo,     \* todo[c]: the status to be written
  turns     \* steps counted against MaxTurns

api    == <<crs, objs, pre>>
caches == <<crSeen, objSeen, preSeen, crFresh, fresh>>
worker == <<step, local, current, todo>>
vars   == <<api, caches, worker, queue, turns>>

---------------------------------------------------------------------------
(* Names and objects.                                                      *)

OwnedName(c) == <<"karkive", IF c.kind = "Backup" THEN "backup" ELSE "restore">>
                  \o c.name
LegacyOwnedName(c) == <<"karkive">> \o c.name

\* A name that is too long is cut, so two resources may share a holder name.
VolumeHolderName(c) ==
  Append(IF Len(OwnedName(c)) < MaxLabel THEN OwnedName(c)
         ELSE SubSeq(OwnedName(c), 1, MaxLabel - 1), "holder")

Key(c, t) == [type |-> t, name |-> IF t = "Deployment" THEN VolumeHolderName(c)
                                                       ELSE OwnedName(c)]
LegacyKey(c, t) == [type |-> t, name |-> LegacyOwnedName(c)]
Keys == {Key(c, t) : c \in CRs, t \in Types}
          \cup {LegacyKey(c, t) : c \in CRs, t \in {"ConfigMap", "CronJob"}}

\* owner: the controller reference;  made: the content;  pod: a holder's pod,
\* which was never available, is available, is available but of an earlier
\* template, or was and is gone.
Owners == [cr : CRs, uid : Nat]
Pods == {"no", "up", "old", "gone"}
NoObj == [owner |-> [cr |-> [kind |-> "none", name |-> <<>>], uid |-> 0],
          made |-> 0, pod |-> "no"]
Objs == [owner : Owners, made : Nat, pod : Pods] \cup {NoObj}

\* A PVC is not rewritten once it exists.
Content(t, s) == IF t = "PVC" THEN 0 ELSE s.rev
Made(c, t, s, n) == [owner |-> [cr |-> c, uid |-> n], made |-> Content(t, s),
                     pod |-> "no"]

\* What an Update makes of o: the owner is overwritten as well, and a holder's
\* new template leaves its pod to be replaced.
Updated(o, mine) ==
  [owner |-> mine.owner, made |-> mine.made,
   pod |-> IF o.pod = "up" /\ o.made # mine.made THEN "old" ELSE o.pod]

\* volumeHolderAvailable: AvailableReplicas, whatever template they are of.
HasPod(o) == o.pod \in {"up", "old"}

Reasons == {"none", "UnsupportedEngine", "InvalidSpec", "NotFound", "Invalid",
            "OwnedError", "VolumeHolderNotReady", "Synced"}
\* Reasons the reconcile asks to be called again for, by RequeueAfter or by
\* the error it returns.
Requeued == {"NotFound", "OwnedError", "VolumeHolderNotReady"}

CRStates == [there : BOOLEAN, deleting : BOOLEAN, uid : Nat, spec : Specs,
             gen : Nat, reason : Reasons, observed : Nat, holder : BOOLEAN]
Steps == {"idle", "check", "available", "status"} \cup Types
           \cup {"oldConfigMap", "oldCronJob"}

\* EngineImplemented and RestoreEngineImplemented.
Supported(c, s) == s.engine = "db" \/ (s.engine = "pvc" /\ c.kind = "Backup")

\* The job Secret, and the target Secret of a Restore or the source PVC of
\* a Backup of engine pvc.
Needs(c, s) == CASE c.kind = "Restore" -> <<"secret", "other">>
                 [] s.engine = "pvc"   -> <<"secret", "other">>
                 [] OTHER              -> <<"secret">>
Prerequisites == [{"secret", "other"} -> {"missing", "invalid", "ok"}]
MayBe(state) == \/ state = "missing" /\ "secret" \in Faults
                \/ state = "invalid" /\ "invalid" \in Faults

TypeOK ==
  /\ crs \in [CRs -> CRStates] /\ crSeen \in [CRs -> CRStates]
  /\ local \in [CRs -> CRStates]
  /\ objs \in [Keys -> Objs] /\ objSeen \in [Keys -> Objs]
  /\ pre \in [CRs -> Prerequisites] /\ preSeen \in [CRs -> Prerequisites]
  /\ crFresh \subseteq CRs /\ queue \subseteq CRs /\ current \subseteq CRs
  /\ fresh \subseteq Keys
  /\ step \in [CRs -> Steps]
  /\ todo \in [CRs -> [reason : Reasons, holder : BOOLEAN]]
  /\ turns \in 0..MaxTurns

\* The objects a spec asks for.
Wanted(s) == {"ConfigMap", "CronJob"}
               \cup {t \in {"PVC"} : s.persistence}
               \cup {t \in {"Deployment"} : s.holder}

NewCR(s, n) == [there |-> TRUE, deleting |-> FALSE, uid |-> n, spec |-> s,
                gen |-> 1, reason |-> "none", observed |-> 0, holder |-> FALSE]

Synced(c, s) == [NewCR(s, 1) EXCEPT !.reason = "Synced", !.observed = 1,
                                    !.holder = s.holder]

Init ==
  /\ \E s \in {f \in [CRs -> Specs] : \A c \in CRs : f[c] \in First[c]} :
       crs = [c \in CRs |->
                CASE Start = "absent" -> [NewCR(s[c], 0) EXCEPT !.there = FALSE]
                  [] Start = "new"    -> NewCR(s[c], 1)
                  [] OTHER            -> Synced(c, s[c])]
  /\ pre \in [CRs -> Prerequisites]
  /\ \A c \in CRs : \A n \in {"secret", "other"} :
       \/ pre[c][n] = "ok"
       \/ /\ Start # "synced" /\ MayBe(pre[c][n])
          /\ \E i \in DOMAIN Needs(c, crs[c].spec) : Needs(c, crs[c].spec)[i] = n
  /\ objs = [k \in Keys |->
       IF \E c \in CRs : Start = "synced" /\ k.type \in Wanted(crs[c].spec)
                                          /\ k = Key(c, k.type)
       THEN LET c == CHOOSE d \in CRs : k = Key(d, k.type)
            IN [Made(c, k.type, crs[c].spec, 1) EXCEPT !.pod = "up"]
       ELSE IF \E c \in Legacy, t \in {"ConfigMap", "CronJob"} : k = LegacyKey(c, t)
       THEN LET c == CHOOSE d \in Legacy : k = LegacyKey(d, k.type)
            IN Made(c, k.type, crs[c].spec, 1)
       ELSE NoObj]
  /\ crSeen = crs /\ objSeen = objs /\ preSeen = pre
  /\ crFresh = CRs /\ fresh = Keys
  /\ queue = CRs
  /\ step = [c \in CRs |-> "idle"]
  /\ local = crs /\ current = {}
  /\ todo = [c \in CRs |-> [reason |-> "none", holder |-> FALSE]]
  /\ turns = 0

---------------------------------------------------------------------------
(* Steps of a reconcile.                                                   *)

Me(c) == [cr |-> c, uid |-> local[c].uid]
GoTo(c, to) == step' = [step EXCEPT ![c] = to]

\* On to setStatus with this reason.
Report(c, reason, holder) ==
  /\ GoTo(c, "status")
  /\ todo' = [todo EXCEPT ![c] = [reason |-> reason, holder |-> holder]]

\* Mutant: the error has no reason.
Fail_Unnamed(c) == Report(c, "", FALSE) /\ UNCHANGED queue

\* fail() with an error that is not a conflict.
Fail(c) == Report(c, "OwnedError", FALSE) /\ UNCHANGED queue

\* fail() with a conflict, and requeueOnConflict: try again, say nothing.
Conflict(c) == GoTo(c, "idle") /\ queue' = queue \cup {c} /\ UNCHANGED todo

Proceed(c, to) == GoTo(c, to) /\ UNCHANGED <<todo, queue>>

\* One worker per controller takes a resource from the queue and reads it.
Take(c) ==
  /\ c \in queue
  /\ \A d \in CRs : d.kind = c.kind => step[d] = "idle"
  /\ queue' = queue \ {c}
  /\ local' = [local EXCEPT ![c] = crSeen[c]]
  /\ current' = (current \ {c}) \cup (crFresh \cap {c})
  /\ LET s == crSeen[c].spec
     IN IF ~crSeen[c].there \/ crSeen[c].deleting
        THEN GoTo(c, "idle") /\ UNCHANGED todo
        ELSE \/ /\ ~Supported(c, s)
                /\ Report(c, "UnsupportedEngine", FALSE)
             \/ /\ Supported(c, s) /\ ~s.valid
                /\ Report(c, "InvalidSpec", FALSE)
             \/ /\ Supported(c, s) /\ s.valid
                /\ GoTo(c, "check") /\ UNCHANGED todo
  /\ UNCHANGED <<api, caches, turns>>

\* ensureSecret / ensureJobSecret, then checkSourcePVC or ensureTargetSecret.
Check(c) ==
  /\ step[c] = "check"
  /\ LET n == Needs(c, local[c].spec)
         bad == {i \in DOMAIN n : preSeen[c][n[i]] # "ok"}
         first == CHOOSE i \in bad : \A j \in bad : i <= j
     IN IF bad = {} THEN GoTo(c, "ConfigMap") /\ UNCHANGED todo
        ELSE Report(c, IF preSeen[c][n[first]] = "missing" THEN "NotFound"
                                                           ELSE "Invalid", FALSE)
  /\ UNCHANGED <<api, caches, local, current, queue, turns>>

\* An object changes at the API server; the cache is behind.
Put(k, o) == objs' = [objs EXCEPT ![k] = o] /\ fresh' = fresh \ {k}
NoPut == UNCHANGED <<objs, fresh>>

\* Mutant: SetControllerReference is not asked.
CreateOrUpdate_Takes(c, t, next) ==
  LET k == Key(c, t)
      mine == Made(c, t, local[c].spec, local[c].uid)
  IN IF objSeen[k] = NoObj
     THEN IF objs[k] = NoObj THEN Put(k, mine) /\ Proceed(c, next)
                             ELSE NoPut /\ Fail(c)
     ELSE IF k \in fresh THEN Put(k, Updated(objs[k], mine)) /\ Proceed(c, next)
                         ELSE NoPut /\ Conflict(c)

\* Mutant: what exists is left as it is.
CreateOrUpdate_CreateOnly(c, t, next) ==
  LET k == Key(c, t)
      mine == Made(c, t, local[c].spec, local[c].uid)
  IN IF objSeen[k] = NoObj
     THEN IF objs[k] = NoObj THEN Put(k, mine) /\ Proceed(c, next)
                             ELSE NoPut /\ Fail(c)
     ELSE NoPut /\ IF objSeen[k].owner.cr = c THEN Proceed(c, next)
                                              ELSE Fail(c)

\* The builders overwrite the whole spec of these, so that the fields the API
\* server fills in always make a difference.
Defaulted == {"Deployment", "CronJob"}

\* controllerutil.CreateOrUpdate with SetControllerReference: read the cache,
\* then create (which may meet an object the cache does not show), or update
\* if there is a difference (which meets a conflict unless the cached version
\* is the current one).  An object of another resource is refused; one of an
\* earlier resource of the same kind and name is not, since uids are not
\* compared, and changes owner.
CreateOrUpdate(c, t, next) ==
  LET k == Key(c, t)
      seen == objSeen[k]
      mine == Made(c, t, local[c].spec, local[c].uid)
      differs == \/ seen.owner # mine.owner \/ seen.made # mine.made
                 \/ t \in Defaulted
  IN CASE seen = NoObj /\ objs[k] = NoObj -> Put(k, mine) /\ Proceed(c, next)
       [] seen = NoObj /\ objs[k] # NoObj -> NoPut /\ Fail(c)
       [] seen # NoObj /\ seen.owner.cr # c -> NoPut /\ Fail(c)
       [] seen # NoObj /\ seen.owner.cr = c ->
            CASE ~differs -> NoPut /\ Proceed(c, next)
              [] differs /\ k \in fresh ->
                   /\ IF Updated(objs[k], mine) = objs[k]
                      THEN NoPut ELSE Put(k, Updated(objs[k], mine))
                   /\ Proceed(c, next)
              [] differs /\ k \notin fresh ->
                   NoPut /\ IF objs[k] = NoObj THEN Fail(c) ELSE Conflict(c)

\* Mutant: whatever has the name goes.
DeleteIfController_Any(c, k, next) ==
  /\ IF objSeen[k] # NoObj /\ objs[k] # NoObj THEN Put(k, NoObj) ELSE NoPut
  /\ Proceed(c, next)

\* The cached object is asked for its controller, the current one is deleted.
DeleteIfController(c, k, next) ==
  /\ IF objSeen[k] # NoObj /\ objSeen[k].owner = Me(c) /\ objs[k] # NoObj
     THEN Put(k, NoObj) ELSE NoPut
  /\ Proceed(c, next)

Skip(c, next) == NoPut /\ Proceed(c, next)

\* ensureOwned, one call after the other.
Ensure(c) ==
  /\ \/ /\ step[c] = "ConfigMap"
        /\ IF local[c].spec.s3
           THEN CreateOrUpdate(c, "ConfigMap", "PVC") ELSE NoPut /\ Fail(c)
     \/ /\ step[c] = "PVC"
        /\ IF local[c].spec.persistence
           THEN CreateOrUpdate(c, "PVC", "Deployment") ELSE Skip(c, "Deployment")
     \/ /\ step[c] = "Deployment"
        /\ IF local[c].spec.holder
           THEN CreateOrUpdate(c, "Deployment", "CronJob")
           ELSE DeleteIfController(c, Key(c, "Deployment"), "CronJob")
     \/ step[c] = "CronJob" /\ CreateOrUpdate(c, "CronJob", "oldConfigMap")
  /\ UNCHANGED <<crs, pre, crSeen, objSeen, preSeen, crFresh, local, current,
                 turns>>

\* Mutant: the CronJob of the old name is forgotten.
DeleteLegacyOwned_ConfigMap(c) ==
  /\ step[c] = "oldConfigMap"
  /\ DeleteIfController(c, LegacyKey(c, "ConfigMap"), "available")
  /\ UNCHANGED <<crs, pre, crSeen, objSeen, preSeen, crFresh, local, current,
                 turns>>

DeleteLegacyOwned(c) ==
  /\ \/ /\ step[c] = "oldConfigMap"
        /\ DeleteIfController(c, LegacyKey(c, "ConfigMap"), "oldCronJob")
     \/ /\ step[c] = "oldCronJob"
        /\ DeleteIfController(c, LegacyKey(c, "CronJob"), "available")
  /\ UNCHANGED <<crs, pre, crSeen, objSeen, preSeen, crFresh, local, current,
                 turns>>

\* A call to the API server fails, other than by a conflict.
CallFails(c) ==
  /\ "api" \in Faults /\ turns < MaxTurns
  /\ step[c] \in Types \cup {"oldConfigMap", "oldCronJob"}
  /\ Fail(c)
  /\ turns' = turns + 1
  /\ UNCHANGED <<api, caches, local, current>>

\* Mutant: Ready does not wait for the holder.
Available_Unasked(c) ==
  /\ step[c] = "available"
  /\ Report(c, "Synced", local[c].spec.holder)
  /\ UNCHANGED <<api, caches, local, current, queue, turns>>

Available(c) ==
  /\ step[c] = "available"
  /\ LET d == objSeen[Key(c, "Deployment")]
     IN CASE ~local[c].spec.holder -> Report(c, "Synced", FALSE)
          [] local[c].spec.holder /\ d = NoObj -> Report(c, "OwnedError", FALSE)
          [] local[c].spec.holder /\ d # NoObj ->
               Report(c, IF HasPod(d) THEN "Synced" ELSE "VolumeHolderNotReady", TRUE)
  /\ UNCHANGED <<api, caches, local, current, queue, turns>>

\* The end of a reconcile: queued again if it asked for it.
Return(c) ==
  /\ GoTo(c, "idle")
  /\ queue' = IF todo[c].reason \in Requeued THEN queue \cup {c} ELSE queue

NeedsPatch(c) == \/ local[c].gen # local[c].observed
                 \/ local[c].reason # todo[c].reason
                 \/ local[c].holder # todo[c].holder

\* setStatus: nothing to write, a write, or a conflict.
SetStatus(c) ==
  /\ step[c] = "status"
  /\ \/ /\ ~NeedsPatch(c)
        /\ Return(c)
        /\ UNCHANGED <<crs, crFresh, current>>
     \/ /\ NeedsPatch(c) /\ c \in current
        /\ crs' = [crs EXCEPT ![c].reason = todo[c].reason,
                              ![c].holder = todo[c].holder,
                              ![c].observed = local[c].gen]
        /\ crFresh' = crFresh \ {c} /\ current' = current \ {c}
        /\ Return(c)
     \/ /\ NeedsPatch(c) /\ c \notin current
        /\ GoTo(c, "idle") /\ queue' = queue \cup {c}
        /\ UNCHANGED <<crs, crFresh, current>>
  /\ UNCHANGED <<objs, pre, crSeen, objSeen, preSeen, fresh, local, todo, turns>>

Work(c) == \/ Take(c) \/ Check(c) \/ Ensure(c) \/ DeleteLegacyOwned(c)
           \/ Available(c) \/ SetStatus(c)

---------------------------------------------------------------------------
(* Informers and Kubernetes.                                               *)

OwnersOf(o) == {o.owner.cr} \cap CRs

\* The informer of a type catches up; the owners of what changed are queued.
SyncObjs(t) ==
  LET changed == {k \in Keys \ fresh : k.type = t}
  IN /\ changed # {}
     /\ objSeen' = [k \in Keys |-> IF k.type = t THEN objs[k] ELSE objSeen[k]]
     /\ fresh' = fresh \cup changed
     /\ queue' = queue \cup UNION {OwnersOf(objSeen[k]) \cup OwnersOf(objs[k]) :
                                   k \in changed}
     /\ UNCHANGED <<api, crSeen, preSeen, crFresh, worker, turns>>

SyncCR(c) ==
  /\ c \notin crFresh
  /\ crSeen' = [crSeen EXCEPT ![c] = crs[c]]
  /\ crFresh' = crFresh \cup {c} /\ queue' = queue \cup {c}
  /\ UNCHANGED <<api, objSeen, preSeen, fresh, worker, turns>>

\* Secrets and foreign PVCs are cached but nobody is told.
SyncPre ==
  /\ preSeen # pre
  /\ preSeen' = pre
  /\ UNCHANGED <<api, crSeen, objSeen, crFresh, fresh, worker, queue, turns>>

Alive(o) == /\ crs[o.cr].there /\ ~crs[o.cr].deleting
            /\ crs[o.cr].uid = o.uid

\* Objects whose owner is gone, or is being deleted in the foreground, go.
GarbageCollect(k) ==
  /\ objs[k] # NoObj /\ ~Alive(objs[k].owner)
  /\ Put(k, NoObj)
  /\ UNCHANGED <<crs, pre, crSeen, objSeen, preSeen, crFresh, worker, queue,
                 turns>>

\* The holder's pod becomes available.
HolderUp(k) ==
  /\ k.type = "Deployment" /\ objs[k] # NoObj /\ objs[k].pod \in {"no", "gone"}
  /\ Put(k, [objs[k] EXCEPT !.pod = "up"])
  /\ UNCHANGED <<crs, pre, crSeen, objSeen, preSeen, crFresh, worker, queue,
                 turns>>

\* Strategy Recreate: the pod of the earlier template goes before there is one
\* of the new.
HolderRolls(k) ==
  /\ k.type = "Deployment" /\ objs[k].pod = "old"
  /\ Put(k, [objs[k] EXCEPT !.pod = "gone"])
  /\ UNCHANGED <<crs, pre, crSeen, objSeen, preSeen, crFresh, worker, queue,
                 turns>>

Turn(fault) == fault \in Faults /\ turns < MaxTurns /\ turns' = turns + 1

HolderDown(k) ==
  /\ Turn("down") /\ k.type = "Deployment" /\ HasPod(objs[k])
  /\ Put(k, [objs[k] EXCEPT !.pod = "gone"])
  /\ UNCHANGED <<crs, pre, crSeen, objSeen, preSeen, crFresh, worker, queue>>

\* The CronJob controller writes the status of a CronJob: a new version.
CronJobTick(k) ==
  /\ Turn("tick") /\ k.type = "CronJob" /\ objs[k] # NoObj
  /\ Put(k, objs[k])
  /\ UNCHANGED <<crs, pre, crSeen, objSeen, preSeen, crFresh, worker, queue>>

SetCR(c, r) == /\ crs' = [crs EXCEPT ![c] = r]
               /\ crFresh' = crFresh \ {c} /\ current' = current \ {c}
               /\ UNCHANGED <<objs, pre, crSeen, objSeen, preSeen, fresh, step,
                              local, todo, queue>>

Create(c, s) ==
  /\ ~crs[c].there
  /\ \/ crs[c].uid = 0 /\ UNCHANGED turns
     \/ crs[c].uid > 0 /\ Turn("delete")
  /\ SetCR(c, NewCR(s, crs[c].uid + 1))

Edit(c, s) ==
  /\ Turn("edit") /\ crs[c].there /\ ~crs[c].deleting /\ s # crs[c].spec
  /\ s.rev > crs[c].spec.rev \/ "revert" \in Faults
  /\ SetCR(c, [crs[c] EXCEPT !.spec = s, !.gen = @ + 1])

\* In the background, or in the foreground by way of a deletionTimestamp.
Delete(c) ==
  /\ Turn("delete") /\ crs[c].there /\ ~crs[c].deleting
  /\ \/ SetCR(c, [crs[c] EXCEPT !.there = FALSE])
     \/ SetCR(c, [crs[c] EXCEPT !.deleting = TRUE])

Finalize(c) ==
  /\ crs[c].there /\ crs[c].deleting
  /\ SetCR(c, [crs[c] EXCEPT !.there = FALSE, !.deleting = FALSE])
  /\ UNCHANGED turns

\* Somebody breaks a prerequisite, or puts it right.
BreakPre(c, n, to) ==
  /\ Turn(IF to = "missing" THEN "secret" ELSE "invalid")
  /\ pre[c][n] # to
  /\ pre' = [pre EXCEPT ![c][n] = to]
  /\ UNCHANGED <<crs, objs, caches, worker, queue>>
FixPre(c, n) ==
  /\ pre[c][n] # "ok"
  /\ pre' = [pre EXCEPT ![c][n] = "ok"]
  /\ UNCHANGED <<crs, objs, caches, worker, queue, turns>>

\* A new operator process lists everything and reconciles everything.
Crash ==
  /\ Turn("crash")
  /\ crSeen' = crs /\ objSeen' = objs /\ preSeen' = pre
  /\ crFresh' = CRs /\ fresh' = Keys
  /\ queue' = {c \in CRs : crs[c].there}
  /\ step' = [c \in CRs |-> "idle"] /\ current' = {}
  /\ UNCHANGED <<api, local, todo>>

\* The informers hand every object out again, changed or not.  Their period is
\* ten hours, so that the operator has long been idle.
Resync ==
  /\ "resync" \in Faults
  /\ queue = {} /\ \A c \in CRs : step[c] = "idle"
  /\ queue' = queue \cup {c \in CRs : crSeen[c].there}
  /\ UNCHANGED <<api, caches, worker, turns>>

Informers == \/ \E t \in Types : SyncObjs(t)
             \/ \E c \in CRs : SyncCR(c)
             \/ SyncPre \/ Resync
Kubernetes == \/ \E k \in Keys : \/ GarbageCollect(k) \/ HolderUp(k)
                                 \/ HolderRolls(k) \/ HolderDown(k)
                                 \/ CronJobTick(k)
              \/ \E c \in CRs : Finalize(c)
Users == \E c \in CRs : \/ \E s \in Specs : Create(c, s) \/ Edit(c, s)
                        \/ Delete(c)
                        \/ \E n \in {"secret", "other"} :
                             \/ FixPre(c, n)
                             \/ \E to \in {"missing", "invalid"} :
                                  BreakPre(c, n, to)

Next == \/ \E c \in CRs : Work(c) \/ CallFails(c)
        \/ Informers \/ Kubernetes \/ Users \/ Crash

Spec == Init /\ [][Next]_vars

\* The work queue is served, informers deliver, Kubernetes collects garbage
\* and starts and replaces the holder, and users put right what they broke.
FairSpec ==
  /\ Spec
  /\ \A c \in CRs : /\ WF_vars(Work(c)) /\ WF_vars(SyncCR(c))
                     /\ WF_vars(Finalize(c))
                     /\ \A n \in {"secret", "other"} : WF_vars(FixPre(c, n))
  /\ \A t \in Types : WF_vars(SyncObjs(t))
  /\ \A k \in Keys : /\ WF_vars(GarbageCollect(k)) /\ WF_vars(HolderUp(k))
                      /\ WF_vars(HolderRolls(k))
  /\ WF_vars(SyncPre) /\ WF_vars(Resync)

---------------------------------------------------------------------------
(* Properties.                                                             *)

Live(c) == crs[c].there /\ ~crs[c].deleting
Ready(c) == crs[c].reason = "Synced" /\ crs[c].observed = crs[c].gen

\* What c asks for exists, is its own and has the content of its spec.
InPlace(c) ==
  \A t \in Wanted(crs[c].spec) :
    /\ objs[Key(c, t)].owner = [cr |-> c, uid |-> crs[c].uid]
    /\ objs[Key(c, t)].made = Content(t, crs[c].spec)

\* "Ready is True when owned resources are admitted and synced": a Ready that
\* has observed the current generation speaks of objects that are there and
\* that were made from it, stale caches, conflicts and restarts between the
\* calls notwithstanding.
ReadyMeansSynced == \A c \in CRs : Live(c) /\ Ready(c) => InPlace(c)

\* No reconcile takes an object from another resource.  From an earlier
\* resource of its own kind and name it does, and then the earlier one is no
\* more and never gets the object back.
NoTakeover ==
  [][\A k \in Keys :
       objs[k] # NoObj /\ objs'[k] # NoObj /\ objs'[k].owner # objs[k].owner
         => /\ objs'[k].owner.cr = objs[k].owner.cr
            /\ objs'[k].owner.uid > objs[k].owner.uid
            /\ ~Alive(objs[k].owner)]_vars

\* "... when this CR still owns them": an object of a living resource is only
\* deleted by the reconcile of that resource.
DeletesOnlyOwn ==
  [][\A k \in Keys :
       objs[k] # NoObj /\ objs'[k] = NoObj /\ Alive(objs[k].owner)
         => step'[objs[k].owner.cr] # step[objs[k].owner.cr]]_vars

\* Ready is written: for the first time, or for a new generation.
TurnsReady(c) ==
  /\ crs'[c].reason = "Synced" /\ crs'[c] # crs[c]
  /\ crs[c].reason # "Synced" \/ crs'[c].observed # crs[c].observed

\* When Ready is written the holder is there and its pod has been available,
\* although only its cached state was asked.
HolderFirst ==
  [][\A c \in CRs :
       TurnsReady(c) /\ crs[c].spec.holder
         => /\ objs[Key(c, "Deployment")] # NoObj
            /\ objs[Key(c, "Deployment")].pod # "no"]_vars

Expected(c) == CASE ~Supported(c, crs[c].spec) -> "UnsupportedEngine"
                 [] Supported(c, crs[c].spec) /\ ~crs[c].spec.valid -> "InvalidSpec"
                 [] OTHER -> IF crs[c].spec.s3 THEN "Synced" ELSE "OwnedError"

\* A name c needs is held by an object of another resource, which is not
\* admitted and so does not clean up what it has under its old name.
Blocked(c) ==
  \E t \in Wanted(crs[c].spec), d \in CRs \ {c} :
    objs[Key(c, t)].owner.cr = d /\ Live(d) /\ Expected(d) # "Synced"

Settled(c) ==
  IF Live(c)
  THEN LET expected == IF Expected(c) = "Synced" /\ Blocked(c) THEN "OwnedError"
                                                             ELSE Expected(c)
       IN /\ crs[c].reason = expected /\ crs[c].observed = crs[c].gen
          /\ expected = "Synced" =>
               /\ InPlace(c)
               /\ \A t \in Types \ (Wanted(crs[c].spec) \cup {"PVC"}) :
                    objs[Key(c, t)].owner.cr # c
               /\ \A t \in {"ConfigMap", "CronJob"} :
                    objs[LegacyKey(c, t)].owner.cr # c
  ELSE \A k \in Keys : objs[k].owner.cr # c

\* When users, faults and other controllers come to rest, every resource ends
\* up with the status its spec deserves, its objects in place, nothing left
\* of a holder or legacy objects it no longer wants, and nothing at all left
\* of a resource that was deleted.
Converges == <>[](\A c \in CRs : Settled(c))
=============================================================================
