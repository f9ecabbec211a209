-------------------------- MODULE ReconcileProofs --------------------------
(* Theorems about Reconcile, for every value of its constants.             *)
EXTENDS Reconcile, TLAPS

---------------------------------------------------------------------------
(* What a step may do to an object, case by case: every proof below is     *)
(* about these cases and not about the actions they stand for.             *)

\* Nobody touches k.
Kept(k) == objs'[k] = objs[k]

\* c creates k, which neither its cache nor the API server has.
Created(c, t, k) ==
  /\ k = Key(c, t) /\ t \in Wanted(local[c].spec)
  /\ objSeen[k] = NoObj /\ objs[k] = NoObj
  /\ objs'[k] = Made(c, t, local[c].spec, local[c].uid)

\* c rewrites k, which its cache shows to be current and to be of c, or of an
\* earlier resource of that kind and name.
Rewritten(c, t, k) ==
  /\ k = Key(c, t) /\ t \in Wanted(local[c].spec)
  /\ objSeen[k] # NoObj /\ objSeen[k].owner.cr = c /\ k \in fresh
  /\ objs'[k] = Updated(objs[k], Made(c, t, local[c].spec, local[c].uid))

\* c deletes k, which its cache shows to be its own: a holder that is not asked
\* for, or an object of the old name.
Dropped(c, k) ==
  /\ objSeen[k] # NoObj /\ objSeen[k].owner = Me(c)
  /\ objs[k] # NoObj /\ objs'[k] = NoObj
  /\ \/ k = Key(c, "Deployment") /\ ~local[c].spec.holder
     \/ \E t \in {"ConfigMap", "CronJob"} : k = LegacyKey(c, t)
  /\ step[c] # step'[c]

\* The garbage collector deletes k.
Collected(k) == objs[k] # NoObj /\ ~Alive(objs[k].owner) /\ objs'[k] = NoObj

\* Another controller writes the status of k.
Ticked(k) ==
  /\ objs[k] # NoObj
  /\ \E b \in Pods : /\ objs'[k] = [objs[k] EXCEPT !.pod = b]
                     /\ b = "no" => objs[k].pod = "no"

\* One object changes, the cache does not, and the resources stay as they are.
Touched(k) ==
  /\ \/ \E c \in CRs : \/ \E t \in Types : Created(c, t, k) \/ Rewritten(c, t, k)
                       \/ Dropped(c, k)
     \/ Collected(k) \/ Ticked(k)
  /\ \A i \in Keys \ {k} : objs'[i] = objs[i]
  /\ fresh' = fresh \ {k}
  /\ UNCHANGED <<crs, crSeen, objSeen, crFresh, local, current>>

---------------------------------------------------------------------------
(* Types.  An update is written into the object the cache shows, so TypeOK *)
(* needs that what counts as fresh is what the cache shows.                *)

FreshSeen ==
  /\ \A k \in fresh : objSeen[k] = objs[k]
  /\ \A c \in crFresh : crSeen[c] = crs[c]

\* The names a reconciler uses are keys of objects.
LEMMA KeyType ==
  /\ \A c \in CRs, t \in Types : Key(c, t) \in Keys
  /\ \A c \in CRs, t \in {"ConfigMap", "CronJob"} : LegacyKey(c, t) \in Keys
  BY DEF Keys

\* What is written into an object is an object.
LEMMA MadeType ==
  ASSUME NEW c \in CRs, NEW t \in Types, NEW r \in CRStates
  PROVE  /\ Made(c, t, r.spec, r.uid) \in Objs /\ Content(t, r.spec) \in Nat
         /\ Made(c, t, r.spec, r.uid) # NoObj
         /\ \A o \in Objs \ {NoObj} :
              Updated(o, Made(c, t, r.spec, r.uid)) \in Objs \ {NoObj}
<1>1. r.spec \in Specs /\ r.uid \in Nat /\ r.spec.rev \in Nat
  BY ReconcileAssumption DEF CRStates, SpecOK
<1>2. Content(t, r.spec) \in Nat
  BY <1>1 DEF Content
<1>3. c.kind # "none"
  BY ReconcileAssumption DEF Resource, Kinds
<1>4. \A o \in Objs \ {NoObj} : /\ o \in [owner : Owners, made : Nat, pod : Pods]
                               /\ o.owner.cr.kind # "none"
  BY ReconcileAssumption DEF Objs, Owners, Resource, Kinds
<1>5. NoObj.owner.cr.kind = "none"
  BY DEF NoObj
<1>6. Made(c, t, r.spec, r.uid) \in [owner : Owners, made : Nat, pod : Pods]
  BY <1>1, <1>2 DEF Made, Owners, Pods
<1>7. Made(c, t, r.spec, r.uid).owner.cr.kind # "none"
  BY <1>3 DEF Made
<1>8. ASSUME NEW o \in Objs \ {NoObj}
      PROVE  Updated(o, Made(c, t, r.spec, r.uid)) \in Objs \ {NoObj}
  <2> DEFINE m == Made(c, t, r.spec, r.uid)
  <2>0. "old" \in Pods /\ o.pod \in Pods /\ m.owner \in Owners /\ m.made \in Nat
        /\ m.owner.cr.kind # "none"
    BY <1>4, <1>6, <1>7 DEF Pods
  <2> HIDE DEF m
  <2>1. /\ Updated(o, m) \in [owner : Owners, made : Nat, pod : Pods]
        /\ Updated(o, m).owner = m.owner
    BY <2>0 DEF Updated
  <2>2. QED BY <1>5, <2>0, <2>1 DEF Objs, m
<1>9. QED BY <1>2, <1>5, <1>6, <1>7, <1>8 DEF Objs

\* Moving a reconcile on, and deciding what it reports.
LEMMA GoToType ==
  ASSUME TypeOK, NEW c \in CRs, NEW to \in Steps, GoTo(c, to)
  PROVE  step' \in [CRs -> Steps]
  BY DEF TypeOK, GoTo

\* Report only notes the reason that setStatus will write.
LEMMA ReportType ==
  ASSUME TypeOK, NEW c \in CRs, NEW r \in Reasons, NEW h \in BOOLEAN, Report(c, r, h)
  PROVE  /\ step' \in [CRs -> Steps] /\ step' = [step EXCEPT ![c] = "status"]
         /\ todo' \in [CRs -> [reason : Reasons, holder : BOOLEAN]]
         /\ todo'[c].reason = r /\ todo'[c].holder = h
<1>1. "status" \in Steps /\ [reason |-> r, holder |-> h] \in [reason : Reasons, holder : BOOLEAN]
  BY DEF Steps
<1>2. /\ todo' = [todo EXCEPT ![c] = [reason |-> r, holder |-> h]]
      /\ step' = [step EXCEPT ![c] = "status"]
  BY DEF Report, GoTo
<1>3. QED BY <1>1, <1>2 DEF TypeOK

\* The outcomes of CreateOrUpdate.
LEMMA CreateOrUpdateFacts ==
  ASSUME FreshSeen, NEW c \in CRs, NEW t \in Types, NEW next,
         CreateOrUpdate(c, t, next)
  PROVE  LET k == Key(c, t)
         IN \/ NoPut /\ (Fail(c) \/ Conflict(c))
            \/ /\ NoPut /\ Proceed(c, next) /\ objSeen[k] # NoObj
               /\ objSeen[k].owner = Me(c)
               /\ objSeen[k].made = Content(t, local[c].spec)
            \/ /\ Put(k, Made(c, t, local[c].spec, local[c].uid)) /\ Proceed(c, next)
               /\ objSeen[k] = NoObj /\ objs[k] = NoObj
            \/ /\ Put(k, Updated(objs[k], Made(c, t, local[c].spec, local[c].uid)))
               /\ Proceed(c, next) /\ objSeen[k] # NoObj
               /\ objSeen[k].owner.cr = c /\ k \in fresh
<1> DEFINE k == Key(c, t)
           mine == Made(c, t, local[c].spec, local[c].uid)
           differs == \/ objSeen[k].owner # mine.owner \/ objSeen[k].made # mine.made
                      \/ t \in Defaulted
<1>0. mine.made = Content(t, local[c].spec) /\ mine.owner = Me(c)
  BY DEF Made, Me
<1>1. CASE objSeen[k] = NoObj /\ objs[k] = NoObj
  BY <1>1 DEF CreateOrUpdate
<1>2. CASE objSeen[k] = NoObj /\ objs[k] # NoObj
  BY <1>2 DEF CreateOrUpdate
<1>3. CASE objSeen[k] # NoObj /\ objSeen[k].owner.cr # c
  BY <1>3 DEF CreateOrUpdate
<1>4. CASE objSeen[k] # NoObj /\ objSeen[k].owner.cr = c
  <2>1. CASE ~differs
    BY <1>0, <1>4, <2>1 DEF CreateOrUpdate
  <2>2. CASE differs /\ k \in fresh
    <3>1. CASE Updated(objs[k], mine) = objs[k]
      <4>1. NoPut /\ Proceed(c, next)
        BY <1>4, <2>2, <3>1 DEF CreateOrUpdate
      <4>2. objs[k] = objSeen[k]
        BY <2>2 DEF FreshSeen
      <4>3. objs[k].owner = mine.owner /\ objs[k].made = mine.made
        BY <3>1 DEF Updated
      <4>4. QED BY <1>0, <1>4, <4>1, <4>2, <4>3
    <3>2. CASE Updated(objs[k], mine) # objs[k]
      BY <1>4, <2>2, <3>2 DEF CreateOrUpdate
    <3>3. QED BY <3>1, <3>2
  <2>3. CASE differs /\ k \notin fresh
    BY <1>4, <2>3 DEF CreateOrUpdate
  <2>4. QED BY <2>1, <2>2, <2>3
<1>5. QED BY <1>1, <1>2, <1>3, <1>4

\* Where a reconcile goes on to, whether or not the call succeeds.
LEMMA OutcomeType ==
  ASSUME TypeOK, NEW c \in CRs, NEW next \in Steps,
         Proceed(c, next) \/ Fail(c) \/ Conflict(c)
  PROVE  /\ step' \in [CRs -> Steps] /\ queue' \subseteq CRs
         /\ todo' \in [CRs -> [reason : Reasons, holder : BOOLEAN]]
<1>0. "status" \in Steps /\ "idle" \in Steps /\ "OwnedError" \in Reasons
  BY DEF Steps, Reasons
<1>1. CASE Proceed(c, next)
  BY <1>1 DEF Proceed, GoTo, TypeOK
<1>2. CASE Fail(c)
  BY <1>0, <1>2 DEF Fail, GoTo, Report, TypeOK
<1>3. CASE Conflict(c)
  BY <1>0, <1>3 DEF Conflict, GoTo, TypeOK
<1>4. QED BY <1>1, <1>2, <1>3

\* The calls of ensureOwned and deleteLegacyOwned as a choice of outcomes.
Outcome(c, next) ==
  \/ NoPut /\ (Fail(c) \/ Conflict(c) \/ Proceed(c, next))
  \/ /\ Proceed(c, next)
     /\ \E k \in Keys : /\ \/ \E t \in Types : Created(c, t, k) \/ Rewritten(c, t, k)
                           \/ Dropped(c, k)
                        /\ Put(k, objs'[k])

\* deleteIfController deletes an object it controls, or moves on.
LEMMA DeleteFacts ==
  ASSUME TypeOK, NEW c \in CRs, NEW k \in Keys, NEW next, next # step[c],
         DeleteIfController(c, k, next),
         \/ k = Key(c, "Deployment") /\ ~local[c].spec.holder
         \/ \E t \in {"ConfigMap", "CronJob"} : k = LegacyKey(c, t)
  PROVE  Outcome(c, next)
<1>1. CASE NoPut
  BY <1>1 DEF DeleteIfController, Outcome
<1>2. CASE Put(k, NoObj) /\ objSeen[k] # NoObj /\ objSeen[k].owner = Me(c) /\ objs[k] # NoObj
  <2>1. objs'[k] = NoObj /\ step'[c] # step[c] /\ Proceed(c, next)
    BY <1>2 DEF Put, TypeOK, DeleteIfController, Proceed, GoTo
  <2>2. Dropped(c, k) /\ Put(k, objs'[k])
    BY <1>2, <2>1 DEF Dropped
  <2>3. QED BY <2>1, <2>2 DEF Outcome
<1>3. QED BY <1>1, <1>2 DEF DeleteIfController

\* CreateOrUpdate writes one object, fails, conflicts or moves on.
LEMMA CreateOutcome ==
  ASSUME TypeOK, FreshSeen, NEW c \in CRs, NEW t \in Types, NEW next,
         t \in Wanted(local[c].spec), CreateOrUpdate(c, t, next)
  PROVE  Outcome(c, next)
<1> DEFINE k == Key(c, t)
<1>0. k \in Keys
  BY KeyType
<1>1. CASE NoPut /\ (Fail(c) \/ Conflict(c) \/ Proceed(c, next))
  BY <1>1 DEF Outcome
<1>2. CASE /\ Put(k, Made(c, t, local[c].spec, local[c].uid)) /\ Proceed(c, next)
           /\ objSeen[k] = NoObj /\ objs[k] = NoObj
  <2>1. objs'[k] = Made(c, t, local[c].spec, local[c].uid)
    BY <1>0, <1>2 DEF Put, TypeOK
  <2>2. Created(c, t, k)
    BY <1>2, <2>1 DEF Created
  <2>3. QED BY <1>0, <1>2, <2>1, <2>2 DEF Outcome
<1>3. CASE /\ Put(k, Updated(objs[k], Made(c, t, local[c].spec, local[c].uid)))
           /\ Proceed(c, next) /\ objSeen[k] # NoObj
           /\ objSeen[k].owner.cr = c /\ k \in fresh
  <2>1. objs'[k] = Updated(objs[k], Made(c, t, local[c].spec, local[c].uid))
    BY <1>0, <1>3 DEF Put, TypeOK
  <2>2. Rewritten(c, t, k)
    BY <1>3, <2>1 DEF Rewritten
  <2>3. QED BY <1>0, <1>3, <2>1, <2>2 DEF Outcome
<1>4. QED BY <1>1, <1>2, <1>3, CreateOrUpdateFacts

\* The steps of a reconcile that write objects.
Writes(c) == Ensure(c) \/ DeleteLegacyOwned(c)

\* The step after each of them.
Following == [ConfigMap |-> "PVC", PVC |-> "Deployment", Deployment |-> "CronJob",
              CronJob |-> "oldConfigMap", oldConfigMap |-> "oldCronJob",
              oldCronJob |-> "available"]

\* Every writing step of a reconcile has one of those outcomes.
LEMMA WriteFacts ==
  ASSUME TypeOK, FreshSeen, NEW c \in CRs, Writes(c)
  PROVE  /\ step[c] \in Types \cup {"oldConfigMap", "oldCronJob"}
         /\ Following[step[c]] \in Steps /\ Outcome(c, Following[step[c]])
         /\ UNCHANGED <<crs, pre, crSeen, objSeen, preSeen, crFresh, local, current, turns>>
<1>0. \A t \in {"ConfigMap", "CronJob"} : t \in Types /\ t \in Wanted(local[c].spec)
  BY DEF Types, Wanted
<1>1. CASE Ensure(c)
  <2>1. CASE step[c] = "ConfigMap"
    <3>1. CASE local[c].spec.s3
      <4>1. CreateOrUpdate(c, "ConfigMap", "PVC")
        BY <1>1, <2>1, <3>1 DEF Ensure
      <4>2. Outcome(c, "PVC")
        BY <1>0, <4>1, CreateOutcome
      <4>3. QED BY <1>1, <2>1, <4>2 DEF Ensure, Following, Steps, Types
    <3>2. CASE ~local[c].spec.s3
      BY <1>1, <2>1, <3>2 DEF Ensure, Following, Steps, Types, Outcome
    <3>3. QED BY <3>1, <3>2
  <2>2. CASE step[c] = "PVC"
    <3>1. CASE local[c].spec.persistence
      <4>1. CreateOrUpdate(c, "PVC", "Deployment") /\ "PVC" \in Wanted(local[c].spec)
            /\ "PVC" \in Types
        BY <1>1, <2>2, <3>1 DEF Ensure, Wanted, Types
      <4>2. Outcome(c, "Deployment")
        BY <4>1, CreateOutcome
      <4>3. QED BY <1>1, <2>2, <4>2 DEF Ensure, Following, Steps, Types
    <3>2. CASE ~local[c].spec.persistence
      BY <1>1, <2>2, <3>2 DEF Ensure, Following, Steps, Types, Outcome, Skip
    <3>3. QED BY <3>1, <3>2
  <2>3. CASE step[c] = "Deployment"
    <3>1. CASE local[c].spec.holder
      <4>1. CreateOrUpdate(c, "Deployment", "CronJob") /\ "Deployment" \in Wanted(local[c].spec)
            /\ "Deployment" \in Types
        BY <1>1, <2>3, <3>1 DEF Ensure, Wanted, Types
      <4>2. Outcome(c, "CronJob")
        BY <4>1, CreateOutcome
      <4>3. QED BY <1>1, <2>3, <4>2 DEF Ensure, Following, Steps, Types
    <3>2. CASE ~local[c].spec.holder
      <4>1. DeleteIfController(c, Key(c, "Deployment"), "CronJob")
        BY <1>1, <2>3, <3>2 DEF Ensure
      <4>2. Key(c, "Deployment") \in Keys
        BY KeyType DEF Types
      <4>3. Outcome(c, "CronJob")
        BY <2>3, <3>2, <4>1, <4>2, DeleteFacts
      <4>4. QED BY <1>1, <2>3, <4>3 DEF Ensure, Following, Steps, Types
    <3>3. QED BY <3>1, <3>2
  <2>4. CASE step[c] = "CronJob"
    <3>1. CreateOrUpdate(c, "CronJob", "oldConfigMap")
      BY <1>1, <2>4 DEF Ensure
    <3>2. Outcome(c, "oldConfigMap")
      BY <1>0, <3>1, CreateOutcome
    <3>3. QED BY <1>1, <2>4, <3>2 DEF Ensure, Following, Steps, Types
  <2>5. QED BY <1>1, <2>1, <2>2, <2>3, <2>4 DEF Ensure
<1>2. CASE DeleteLegacyOwned(c)
  <2>0. \A t \in {"ConfigMap", "CronJob"} : LegacyKey(c, t) \in Keys
    BY KeyType
  <2>1. CASE step[c] = "oldConfigMap"
    <3>1. DeleteIfController(c, LegacyKey(c, "ConfigMap"), "oldCronJob")
      BY <1>2, <2>1 DEF DeleteLegacyOwned
    <3>2. Outcome(c, "oldCronJob")
      BY <2>0, <2>1, <3>1, DeleteFacts
    <3>3. QED BY <1>2, <2>1, <3>2 DEF DeleteLegacyOwned, Following, Steps, Types
  <2>2. CASE step[c] = "oldCronJob"
    <3>1. DeleteIfController(c, LegacyKey(c, "CronJob"), "available")
      BY <1>2, <2>2 DEF DeleteLegacyOwned
    <3>2. Outcome(c, "available")
      BY <2>0, <2>2, <3>1, DeleteFacts
    <3>3. QED BY <1>2, <2>2, <3>2 DEF DeleteLegacyOwned, Following, Steps, Types
  <2>3. QED BY <1>2, <2>1, <2>2 DEF DeleteLegacyOwned
<1>3. QED BY <1>1, <1>2 DEF Writes

\* Proceed is the only outcome that writes, so a write is one of the cases.
LEMMA OutcomeTouches ==
  ASSUME TypeOK, FreshSeen, NEW c \in CRs, NEW next, Outcome(c, next),
         UNCHANGED <<crs, crSeen, objSeen, crFresh, local, current>>
  PROVE  NoPut \/ \E k \in Keys : Touched(k) /\ Put(k, objs'[k])
<1> SUFFICES ASSUME NEW k \in Keys, Put(k, objs'[k]),
                    \/ \E t \in Types : Created(c, t, k) \/ Rewritten(c, t, k)
                    \/ Dropped(c, k)
             PROVE  Touched(k)
  BY DEF Outcome
<1>1. \A i \in Keys \ {k} : objs'[i] = objs[i]
  BY DEF Put, TypeOK
<1>2. fresh' = fresh \ {k}
  BY DEF Put
<1>3. QED BY <1>1, <1>2 DEF Touched

\* A write leaves the objects in their type and the cache as fresh as it says.
LEMMA TouchedType ==
  ASSUME TypeOK, FreshSeen, NEW k \in Keys, Touched(k), DOMAIN objs' = Keys,
         objs' = [i \in Keys |-> objs'[i]]
  PROVE  objs' \in [Keys -> Objs] /\ fresh' \subseteq Keys /\ FreshSeen'
<1>1. objs'[k] \in Objs
  <2>0. objs[k] \in Objs /\ objSeen[k] \in Objs
    BY DEF TypeOK
  <2>1. ASSUME NEW c \in CRs, NEW t \in Types, Created(c, t, k) PROVE objs'[k] \in Objs
    BY <2>1, MadeType DEF Created, TypeOK
  <2>2. ASSUME NEW c \in CRs, NEW t \in Types, Rewritten(c, t, k) PROVE objs'[k] \in Objs
    <3>1. objs[k] \in Objs \ {NoObj}
      BY <2>0, <2>2 DEF Rewritten, FreshSeen
    <3>2. local[c] \in CRStates
      BY DEF TypeOK
    <3>3. QED BY <2>2, <3>1, <3>2, MadeType DEF Rewritten
  <2>3. CASE (\E c \in CRs : Dropped(c, k)) \/ Collected(k)
    BY <2>3 DEF Dropped, Collected, Objs
  <2>4. CASE Ticked(k)
    BY <2>0, <2>4 DEF Ticked, Objs
  <2>5. QED BY <2>1, <2>2, <2>3, <2>4 DEF Touched
<1>2. \A i \in Keys : objs'[i] \in Objs
  BY <1>1 DEF Touched, TypeOK
<1>3. objs' \in [Keys -> Objs]
  BY <1>2
<1>4. FreshSeen'
  BY DEF Touched, FreshSeen, TypeOK
<1>5. QED BY <1>3, <1>4 DEF Touched, TypeOK

\* The steps of Kubernetes that write an object.
ClusterWrites(k) == \/ GarbageCollect(k) \/ HolderUp(k) \/ HolderRolls(k)
                    \/ HolderDown(k) \/ CronJobTick(k)

\* The cluster's own writes touch one object.
LEMMA ClusterTouches ==
  ASSUME TypeOK, NEW k \in Keys, ClusterWrites(k)
  PROVE  /\ Touched(k) /\ Put(k, objs'[k])
         /\ UNCHANGED <<pre, preSeen, worker, queue>>
         /\ turns' \in 0..MaxTurns
<1>0. /\ objs[k] \in Objs /\ turns \in 0..MaxTurns
      /\ objs[k] # NoObj => objs[k] \in [owner : Owners, made : Nat, pod : Pods]
  BY DEF TypeOK, Objs
<1>1. CASE GarbageCollect(k)
  <2>1. objs'[k] = NoObj /\ Collected(k)
    BY <1>1 DEF GarbageCollect, Put, TypeOK, Collected
  <2>2. QED BY <1>0, <1>1, <2>1 DEF GarbageCollect, Put, Touched, TypeOK, worker
<1>2. CASE HolderUp(k)
  <2>1. objs'[k] = [objs[k] EXCEPT !.pod = "up"] /\ Ticked(k)
    BY <1>2 DEF HolderUp, Put, TypeOK, Ticked, Pods
  <2>2. QED BY <1>0, <1>2, <2>1 DEF HolderUp, Put, Touched, TypeOK, worker
<1>3. CASE HolderDown(k) \/ HolderRolls(k)
  <2>0. NoObj.pod = "no" /\ objs[k].pod # "no" /\ Put(k, [objs[k] EXCEPT !.pod = "gone"])
    BY <1>3 DEF HolderDown, HolderRolls, NoObj, HasPod
  <2>1. objs'[k] = [objs[k] EXCEPT !.pod = "gone"] /\ objs[k] # NoObj /\ Ticked(k)
    BY <2>0 DEF Put, TypeOK, Ticked, Pods
  <2>2. turns' \in 0..MaxTurns
    BY <1>0, <1>3, ReconcileAssumption DEF HolderDown, HolderRolls, Turn
  <2>3. QED BY <1>3, <2>0, <2>1, <2>2 DEF HolderDown, HolderRolls, Put, Touched, TypeOK, worker
<1>4. CASE CronJobTick(k)
  <2>1. objs'[k] = objs[k] /\ objs[k] # NoObj
    BY <1>4 DEF CronJobTick, Put, TypeOK
  <2>2. objs'[k] = [objs[k] EXCEPT !.pod = objs[k].pod] /\ objs[k].pod \in Pods
    BY <1>0, <2>1
  <2>3. Ticked(k)
    BY <2>1, <2>2 DEF Ticked
  <2>4. turns' \in 0..MaxTurns
    BY <1>0, <1>4, ReconcileAssumption DEF CronJobTick, Turn
  <2>5. QED BY <1>4, <2>1, <2>3, <2>4 DEF CronJobTick, Put, Touched, TypeOK, worker
<1>5. QED BY <1>1, <1>2, <1>3, <1>4 DEF ClusterWrites

\* The steps that change a resource: its users and the garbage collector.
UserWrites(c) == \/ \E s \in Specs : Create(c, s) \/ Edit(c, s)
                 \/ Delete(c) \/ Finalize(c)

\* What users do to a resource: create, edit or delete it.
LEMMA UserFacts ==
  ASSUME TypeOK, NEW c \in CRs, UserWrites(c)
  PROVE  /\ turns' \in 0..MaxTurns
         /\ \E r \in CRStates :
              /\ SetCR(c, r)
              /\ \/ /\ ~crs[c].there /\ r.uid = crs[c].uid + 1
                    /\ r.gen = 1 /\ r.observed = 0 /\ r.reason = "none"
                 \/ /\ crs[c].there /\ ~crs[c].deleting /\ r.uid = crs[c].uid
                    /\ r.spec.rev > crs[c].spec.rev \/ "revert" \in Faults
                    /\ r.gen = crs[c].gen + 1 /\ r.observed = crs[c].observed
                 \/ /\ r.uid = crs[c].uid /\ r.spec = crs[c].spec
                    /\ r.gen = crs[c].gen /\ r.observed = crs[c].observed
                    /\ ~r.there \/ r.deleting
<1>0. crs[c] \in CRStates /\ turns \in 0..MaxTurns
  BY DEF TypeOK
<1>1. ASSUME NEW f, Turn(f) PROVE turns' \in 0..MaxTurns
  BY <1>0, <1>1, ReconcileAssumption DEF Turn
<1> DEFINE Changes(r) ==
      \/ /\ ~crs[c].there /\ r.uid = crs[c].uid + 1
         /\ r.gen = 1 /\ r.observed = 0 /\ r.reason = "none"
      \/ /\ crs[c].there /\ ~crs[c].deleting /\ r.uid = crs[c].uid
         /\ r.spec.rev > crs[c].spec.rev \/ "revert" \in Faults
         /\ r.gen = crs[c].gen + 1 /\ r.observed = crs[c].observed
      \/ /\ r.uid = crs[c].uid /\ r.spec = crs[c].spec
         /\ r.gen = crs[c].gen /\ r.observed = crs[c].observed
         /\ ~r.there \/ r.deleting
<1>2. ASSUME NEW s \in Specs, Create(c, s)
      PROVE  /\ turns' \in 0..MaxTurns
             /\ \E r \in CRStates : SetCR(c, r) /\ Changes(r)
  <2>1. NewCR(s, crs[c].uid + 1) \in CRStates /\ Changes(NewCR(s, crs[c].uid + 1))
    BY <1>0, <1>2 DEF Create, NewCR, CRStates, Reasons
  <2>2. turns' \in 0..MaxTurns
    BY <1>0, <1>1, <1>2 DEF Create
  <2>3. QED BY <1>2, <2>1, <2>2 DEF Create
<1>3. ASSUME NEW s \in Specs, Edit(c, s)
      PROVE  /\ turns' \in 0..MaxTurns
             /\ \E r \in CRStates : SetCR(c, r) /\ Changes(r)
  <2> DEFINE r == [crs[c] EXCEPT !.spec = s, !.gen = @ + 1]
  <2>0. /\ crs[c].there /\ ~crs[c].deleting
        /\ s.rev > crs[c].spec.rev \/ "revert" \in Faults
    BY <1>3 DEF Edit
  <2>1. r \in CRStates
    <3>1. crs[c].gen \in Nat /\ crs[c].gen + 1 \in Nat
      BY <1>0 DEF CRStates
    <3>2. [crs[c] EXCEPT !.spec = s] \in CRStates
      BY <1>0 DEF CRStates
    <3>3. r = [[crs[c] EXCEPT !.spec = s] EXCEPT !.gen = crs[c].gen + 1]
      BY <1>0 DEF CRStates
    <3> HIDE DEF r
    <3>4. QED BY <3>1, <3>2, <3>3 DEF CRStates
  <2>2. /\ r.uid = crs[c].uid /\ r.spec = s /\ r.gen = crs[c].gen + 1
        /\ r.observed = crs[c].observed
    BY <1>0 DEF CRStates
  <2>3. SetCR(c, r) /\ turns' \in 0..MaxTurns
    BY <1>1, <1>3 DEF Edit
  <2> HIDE DEF r
  <2>4. Changes(r)
    BY <2>0, <2>2
  <2>5. QED BY <2>1, <2>3, <2>4
<1>4. ASSUME Delete(c)
      PROVE  /\ turns' \in 0..MaxTurns
             /\ \E r \in CRStates : SetCR(c, r) /\ Changes(r)
  <2> DEFINE r1 == [crs[c] EXCEPT !.there = FALSE]
             r2 == [crs[c] EXCEPT !.deleting = TRUE]
  <2>1. r1 \in CRStates /\ Changes(r1)
    BY <1>0 DEF CRStates
  <2>2. r2 \in CRStates /\ Changes(r2)
    BY <1>0 DEF CRStates
  <2>3. SetCR(c, r1) \/ SetCR(c, r2)
    BY <1>4 DEF Delete
  <2>4. turns' \in 0..MaxTurns
    BY <1>1, <1>4 DEF Delete
  <2> HIDE DEF r1, r2, Changes
  <2>5. QED BY <2>1, <2>2, <2>3, <2>4
<1>5. ASSUME Finalize(c)
      PROVE  /\ turns' \in 0..MaxTurns
             /\ \E r \in CRStates : SetCR(c, r) /\ Changes(r)
  <2> DEFINE r == [crs[c] EXCEPT !.there = FALSE, !.deleting = FALSE]
  <2>1. r \in CRStates /\ Changes(r)
    BY <1>0 DEF CRStates
  <2>2. SetCR(c, r) /\ turns' \in 0..MaxTurns
    BY <1>0, <1>5 DEF Finalize
  <2>3. QED BY <2>1, <2>2
<1>6. QED BY <1>2, <1>3, <1>4, <1>5 DEF UserWrites

\* The bookkeeping, the cache of the prerequisites aside, of the other steps of
\* a reconcile.
LEMMA TakeType ==
  ASSUME TypeOK, FreshSeen, NEW c \in CRs, Take(c)
  PROVE  TypeOK' /\ FreshSeen'
<1>0. /\ "status" \in Steps /\ "idle" \in Steps /\ "check" \in Steps
      /\ "UnsupportedEngine" \in Reasons /\ "InvalidSpec" \in Reasons
  BY DEF Steps, Reasons
<1>1. /\ step' \in [CRs -> Steps]
      /\ todo' \in [CRs -> [reason : Reasons, holder : BOOLEAN]]
  <2>1. \/ Report(c, "UnsupportedEngine", FALSE) \/ Report(c, "InvalidSpec", FALSE)
        \/ GoTo(c, "idle") /\ UNCHANGED todo
        \/ GoTo(c, "check") /\ UNCHANGED todo
    BY DEF Take
  <2>2. QED BY <1>0, <2>1, GoToType, ReportType DEF TypeOK
<1>2. local' \in [CRs -> CRStates] /\ current' \subseteq CRs /\ queue' \subseteq CRs
  BY DEF Take, TypeOK
<1>3. UNCHANGED <<api, caches, turns>>
  BY DEF Take
<1>4. QED BY <1>1, <1>2, <1>3 DEF TypeOK, FreshSeen, api, caches

\* Admission and prerequisites lead to the first write, or to a refusal.
LEMMA CheckType ==
  ASSUME TypeOK, FreshSeen, NEW c \in CRs, Check(c)
  PROVE  /\ TypeOK' /\ FreshSeen'
         /\ \/ step' = [step EXCEPT ![c] = "ConfigMap"]
            \/ /\ step' = [step EXCEPT ![c] = "status"]
               /\ todo'[c].reason # "Synced"
<1>0. /\ "status" \in Steps /\ "ConfigMap" \in Steps
      /\ "NotFound" \in Reasons /\ "Invalid" \in Reasons
  BY DEF Steps, Reasons, Types
<1>1. \/ GoTo(c, "ConfigMap") /\ UNCHANGED todo
      \/ Report(c, "NotFound", FALSE) \/ Report(c, "Invalid", FALSE)
  BY DEF Check
<1>2. /\ step' \in [CRs -> Steps]
      /\ todo' \in [CRs -> [reason : Reasons, holder : BOOLEAN]]
  BY <1>0, <1>1, GoToType, ReportType DEF TypeOK
<1>3. \/ step' = [step EXCEPT ![c] = "ConfigMap"]
      \/ /\ step' = [step EXCEPT ![c] = "status"]
         /\ todo'[c].reason # "Synced"
  BY <1>0, <1>1, ReportType DEF GoTo
<1>4. UNCHANGED <<api, caches, local, current, queue, turns>>
  BY DEF Check
<1>5. QED BY <1>2, <1>3, <1>4 DEF TypeOK, FreshSeen, api, caches

\* Synced is reported of a holder only when the cache shows it up.
LEMMA AvailableType ==
  ASSUME TypeOK, FreshSeen, NEW c \in CRs, Available(c)
  PROVE  /\ TypeOK' /\ FreshSeen'
         /\ step' = [step EXCEPT ![c] = "status"]
         /\ todo'[c].reason = "Synced" /\ local[c].spec.holder =>
              /\ objSeen[Key(c, "Deployment")] # NoObj
              /\ HasPod(objSeen[Key(c, "Deployment")])
<1> DEFINE d == objSeen[Key(c, "Deployment")]
<1>0. /\ "status" \in Steps /\ "Synced" \in Reasons /\ "OwnedError" \in Reasons
      /\ "VolumeHolderNotReady" \in Reasons
  BY DEF Steps, Reasons
<1>1. \/ Report(c, "Synced", FALSE) /\ ~local[c].spec.holder
      \/ Report(c, "OwnedError", FALSE)
      \/ Report(c, "Synced", TRUE) /\ d # NoObj /\ HasPod(d)
      \/ Report(c, "VolumeHolderNotReady", TRUE)
  <2>1. CASE ~local[c].spec.holder
    BY <2>1 DEF Available
  <2>2. CASE local[c].spec.holder /\ d = NoObj
    BY <2>2 DEF Available
  <2>3. CASE local[c].spec.holder /\ d # NoObj
    BY <2>3 DEF Available
  <2>4. QED BY <2>1, <2>2, <2>3
<1> HIDE DEF d
<1>2. /\ step' = [step EXCEPT ![c] = "status"] /\ step' \in [CRs -> Steps]
      /\ todo' \in [CRs -> [reason : Reasons, holder : BOOLEAN]]
  BY <1>0, <1>1, ReportType
<1>3. todo'[c].reason = "Synced" /\ local[c].spec.holder => d # NoObj /\ HasPod(d)
  <2>1. ASSUME Report(c, "OwnedError", FALSE) PROVE todo'[c].reason = "OwnedError"
    BY <1>0, <2>1, ReportType
  <2>2. ASSUME Report(c, "VolumeHolderNotReady", TRUE)
        PROVE  todo'[c].reason = "VolumeHolderNotReady"
    BY <1>0, <2>2, ReportType
  <2>3. QED BY <1>1, <2>1, <2>2
<1>4. UNCHANGED <<api, caches, local, current, queue, turns>>
  BY DEF Available
<1>5. QED BY <1>2, <1>3, <1>4 DEF TypeOK, FreshSeen, api, caches, d

\* The status is written whole and over the version that was read, or not at all.
LEMMA SetStatusType ==
  ASSUME TypeOK, FreshSeen, NEW c \in CRs, SetStatus(c)
  PROVE  /\ TypeOK' /\ FreshSeen'
         /\ step[c] = "status" /\ step' = [step EXCEPT ![c] = "idle"]
         /\ UNCHANGED <<objs, crSeen, objSeen, fresh, local, todo>>
         /\ \/ UNCHANGED <<crs, crFresh, current>>
            \/ /\ c \in current
               /\ crs' = [crs EXCEPT ![c].reason = todo[c].reason,
                                     ![c].holder = todo[c].holder,
                                     ![c].observed = local[c].gen]
               /\ crFresh' = crFresh \ {c} /\ current' = current \ {c}
<1>1. step[c] = "status" /\ step' = [step EXCEPT ![c] = "idle"] /\ "idle" \in Steps
  BY DEF SetStatus, Return, GoTo, Steps
<1>2. queue' \subseteq CRs
  BY DEF SetStatus, Return, TypeOK
<1>3. UNCHANGED <<objs, pre, crSeen, objSeen, preSeen, fresh, local, todo, turns>>
  BY DEF SetStatus
<1>4. CASE UNCHANGED <<crs, crFresh, current>>
  BY <1>1, <1>2, <1>3, <1>4 DEF TypeOK, FreshSeen
<1>5. CASE /\ c \in current
           /\ crs' = [crs EXCEPT ![c].reason = todo[c].reason,
                                 ![c].holder = todo[c].holder,
                                 ![c].observed = local[c].gen]
           /\ crFresh' = crFresh \ {c} /\ current' = current \ {c}
  <2>1. crs' \in [CRs -> CRStates]
    <3>1. todo[c].reason \in Reasons /\ todo[c].holder \in BOOLEAN /\ local[c].gen \in Nat
      BY DEF TypeOK, CRStates
    <3>2. crs' = [crs EXCEPT ![c] = [crs[c] EXCEPT !.reason = todo[c].reason,
                                                   !.holder = todo[c].holder,
                                                   !.observed = local[c].gen]]
      BY <1>5 DEF TypeOK
    <3>3. [crs[c] EXCEPT !.reason = todo[c].reason, !.holder = todo[c].holder,
                         !.observed = local[c].gen] \in CRStates
      <4>1. crs[c] \in CRStates
        BY DEF TypeOK
      <4>2. [crs[c] EXCEPT !.reason = todo[c].reason] \in CRStates
        BY <3>1, <4>1 DEF CRStates
      <4>3. [crs[c] EXCEPT !.reason = todo[c].reason, !.holder = todo[c].holder] \in CRStates
        BY <3>1, <4>1 DEF CRStates
      <4>4. QED BY <3>1, <4>1, <4>3 DEF CRStates
    <3>4. QED BY <3>2, <3>3 DEF TypeOK
  <2>2. TypeOK'
    BY <1>1, <1>2, <1>3, <1>5, <2>1 DEF TypeOK
  <2>3. FreshSeen'
    BY <1>3, <1>5 DEF FreshSeen, TypeOK
  <2>4. QED BY <1>1, <1>3, <1>5, <2>2, <2>3
<1>6. QED BY <1>4, <1>5 DEF SetStatus

\* The remaining steps: informers, prerequisites, a failing call, a restart.
PreSteps == \E c \in CRs, n \in {"secret", "other"} :
              \/ FixPre(c, n) \/ \E to \in {"missing", "invalid"} : BreakPre(c, n, to)

\* The writing steps keep the types.
LEMMA WritesType ==
  ASSUME TypeOK, FreshSeen, NEW c \in CRs, Writes(c)
  PROVE  TypeOK' /\ FreshSeen' /\ (NoPut \/ \E k \in Keys : Touched(k))
<1>1. /\ Following[step[c]] \in Steps /\ Outcome(c, Following[step[c]])
      /\ UNCHANGED <<crs, pre, crSeen, objSeen, preSeen, crFresh, local, current, turns>>
  BY WriteFacts
<1>2. Proceed(c, Following[step[c]]) \/ Fail(c) \/ Conflict(c)
  BY <1>1 DEF Outcome
<1>3. /\ step' \in [CRs -> Steps] /\ queue' \subseteq CRs
      /\ todo' \in [CRs -> [reason : Reasons, holder : BOOLEAN]]
  BY <1>1, <1>2, OutcomeType
<1>4. CASE NoPut
  BY <1>1, <1>3, <1>4 DEF NoPut, TypeOK, FreshSeen
<1>5. CASE \E k \in Keys : Touched(k) /\ Put(k, objs'[k])
  <2>1. PICK k \in Keys : Touched(k) /\ Put(k, objs'[k])
    BY <1>5
  <2>2. DOMAIN objs' = Keys /\ objs' = [i \in Keys |-> objs'[i]]
    BY <2>1 DEF Put, TypeOK
  <2>3. objs' \in [Keys -> Objs] /\ fresh' \subseteq Keys /\ FreshSeen'
    BY <2>1, <2>2, TouchedType
  <2>4. QED BY <1>1, <1>3, <2>1, <2>3 DEF TypeOK
<1>6. QED BY <1>1, <1>4, <1>5, OutcomeTouches

\* The cluster's own writes keep the types.
LEMMA ClusterType ==
  ASSUME TypeOK, FreshSeen, NEW k \in Keys, ClusterWrites(k)
  PROVE  TypeOK' /\ FreshSeen' /\ Touched(k) /\ UNCHANGED worker
<1>1. /\ Touched(k) /\ Put(k, objs'[k])
      /\ UNCHANGED <<pre, preSeen, worker, queue>> /\ turns' \in 0..MaxTurns
  BY ClusterTouches
<1>2. DOMAIN objs' = Keys /\ objs' = [i \in Keys |-> objs'[i]]
  BY <1>1 DEF Put, TypeOK
<1>3. objs' \in [Keys -> Objs] /\ fresh' \subseteq Keys /\ FreshSeen'
  BY <1>1, <1>2, TouchedType
<1>4. QED BY <1>1, <1>3 DEF TypeOK, Touched, worker

\* Users' writes keep the types.
LEMMA UserType ==
  ASSUME TypeOK, FreshSeen, NEW c \in CRs, UserWrites(c)
  PROVE  TypeOK' /\ FreshSeen'
<1>1. PICK r \in CRStates : SetCR(c, r) /\ turns' \in 0..MaxTurns
  BY UserFacts
<1>2. crs' \in [CRs -> CRStates]
  BY <1>1 DEF SetCR, TypeOK
<1>3. TypeOK'
  BY <1>1, <1>2 DEF SetCR, TypeOK
<1>4. FreshSeen'
  BY <1>1 DEF SetCR, TypeOK, FreshSeen
<1>5. QED BY <1>3, <1>4

\* Prerequisites that come and go keep the types.
LEMMA PreType ==
  ASSUME TypeOK, FreshSeen, PreSteps
  PROVE  TypeOK' /\ FreshSeen' /\ UNCHANGED <<crs, objs, caches, worker>>
<1>1. PICK c \in CRs, n \in {"secret", "other"} :
        \/ FixPre(c, n) \/ \E to \in {"missing", "invalid"} : BreakPre(c, n, to)
  BY DEF PreSteps
<1>2. pre' \in [CRs -> Prerequisites]
  <2>1. PICK to \in {"missing", "invalid", "ok"} : pre' = [pre EXCEPT ![c][n] = to]
    BY <1>1 DEF FixPre, BreakPre
  <2>2. pre[c] \in [{"secret", "other"} -> {"missing", "invalid", "ok"}]
    BY DEF TypeOK, Prerequisites
  <2>3. [pre[c] EXCEPT ![n] = to] \in Prerequisites
    BY <2>2 DEF Prerequisites
  <2>4. pre' = [pre EXCEPT ![c] = [pre[c] EXCEPT ![n] = to]]
    BY <2>1 DEF TypeOK
  <2>5. QED BY <2>3, <2>4 DEF TypeOK
<1>3. turns' \in 0..MaxTurns
  BY <1>1, ReconcileAssumption DEF FixPre, BreakPre, Turn, TypeOK
<1>4. UNCHANGED <<crs, objs, caches, worker, queue>>
  BY <1>1 DEF FixPre, BreakPre
<1>5. QED BY <1>2, <1>3, <1>4 DEF TypeOK, FreshSeen, caches, worker

\* An informer delivers what is at the API server, and nothing else.
LEMMA SyncType ==
  ASSUME TypeOK, FreshSeen, Informers
  PROVE  /\ TypeOK' /\ FreshSeen' /\ UNCHANGED <<api, worker>>
         /\ \A k \in Keys : objSeen'[k] = objSeen[k] \/ objSeen'[k] = objs[k]
         /\ \A c \in CRs : crSeen'[c] = crSeen[c] \/ crSeen'[c] = crs[c]
<1>1. ASSUME NEW t \in Types, SyncObjs(t)
      PROVE  /\ TypeOK' /\ FreshSeen' /\ UNCHANGED <<api, worker>>
             /\ \A k \in Keys : objSeen'[k] = objSeen[k] \/ objSeen'[k] = objs[k]
             /\ \A c \in CRs : crSeen'[c] = crSeen[c] \/ crSeen'[c] = crs[c]
  <2>1. objSeen' \in [Keys -> Objs] /\ fresh' \subseteq Keys
    BY <1>1 DEF SyncObjs, TypeOK
  <2>2. queue' \subseteq CRs
    BY <1>1 DEF SyncObjs, TypeOK, OwnersOf
  <2>3. UNCHANGED <<api, crSeen, preSeen, crFresh, worker, turns>>
    BY <1>1 DEF SyncObjs
  <2>4. \A k \in Keys : objSeen'[k] = IF k.type = t THEN objs[k] ELSE objSeen[k]
    BY <1>1 DEF SyncObjs
  <2>5. \A k \in fresh' : k \in Keys /\ (k \in fresh \/ k.type = t)
    BY <1>1 DEF SyncObjs, TypeOK
  <2>6. FreshSeen'
    BY <2>3, <2>4, <2>5 DEF FreshSeen, api
  <2>7. TypeOK'
    BY <2>1, <2>2, <2>3 DEF TypeOK, api, worker
  <2>8. QED BY <2>3, <2>4, <2>6, <2>7
<1>2. ASSUME NEW c \in CRs, SyncCR(c)
      PROVE  /\ TypeOK' /\ FreshSeen' /\ UNCHANGED <<api, worker>>
             /\ \A k \in Keys : objSeen'[k] = objSeen[k] \/ objSeen'[k] = objs[k]
             /\ \A d \in CRs : crSeen'[d] = crSeen[d] \/ crSeen'[d] = crs[d]
  <2>1. crSeen' \in [CRs -> CRStates] /\ crFresh' \subseteq CRs /\ queue' \subseteq CRs
    BY <1>2 DEF SyncCR, TypeOK
  <2>2. UNCHANGED <<api, objSeen, preSeen, fresh, worker, turns>>
    BY <1>2 DEF SyncCR
  <2>3. TypeOK'
    BY <2>1, <2>2 DEF TypeOK, api, worker
  <2>4. FreshSeen' /\ \A d \in CRs : crSeen'[d] = crSeen[d] \/ crSeen'[d] = crs[d]
    BY <1>2, <2>2 DEF SyncCR, TypeOK, FreshSeen, api
  <2>5. QED BY <2>2, <2>3, <2>4
<1>3. CASE SyncPre \/ Resync
  BY <1>3 DEF SyncPre, Resync, TypeOK, FreshSeen, api, worker, caches
<1>4. QED BY <1>1, <1>2, <1>3 DEF Informers

\* A failing call ends the reconcile and changes nothing.
LEMMA CallFailsType ==
  ASSUME TypeOK, FreshSeen, NEW c \in CRs, CallFails(c)
  PROVE  /\ TypeOK' /\ FreshSeen' /\ UNCHANGED <<api, caches, local, current>>
         /\ Fail(c)
<1>1. Fail(c) /\ UNCHANGED <<api, caches, local, current>> /\ turns' \in 0..MaxTurns
  BY ReconcileAssumption DEF CallFails, TypeOK
<1>2. /\ step' \in [CRs -> Steps] /\ queue' \subseteq CRs
      /\ todo' \in [CRs -> [reason : Reasons, holder : BOOLEAN]]
  <2>1. "idle" \in Steps
    BY DEF Steps
  <2>2. QED BY <1>1, <2>1, OutcomeType
<1>3. QED BY <1>1, <1>2 DEF TypeOK, FreshSeen, api, caches

\* A restart of the operator keeps the types.
LEMMA CrashType ==
  ASSUME TypeOK, FreshSeen, Crash
  PROVE  TypeOK' /\ FreshSeen'
<1>1. turns' \in 0..MaxTurns /\ "idle" \in Steps
  BY ReconcileAssumption DEF Crash, Turn, TypeOK, Steps
<1>2. TypeOK'
  BY <1>1 DEF Crash, TypeOK, api
<1>3. QED BY <1>2 DEF Crash, FreshSeen, api

\* Next by the kind of thing a step does.
LEMMA NextCases ==
  ASSUME [Next]_vars
  PROVE  \/ \E c \in CRs : \/ Take(c) \/ Check(c) \/ Writes(c) \/ Available(c)
                           \/ SetStatus(c) \/ CallFails(c) \/ UserWrites(c)
         \/ \E k \in Keys : ClusterWrites(k)
         \/ Informers \/ PreSteps \/ Crash \/ UNCHANGED vars
  BY DEF Next, Work, Kubernetes, Users, Writes, ClusterWrites, UserWrites, PreSteps

TypeInv == TypeOK /\ FreshSeen

\* The initial states are of the right types.
LEMMA InitType == Init => TypeInv
<1> SUFFICES ASSUME Init PROVE TypeInv
  OBVIOUS
<1>1. PICK s \in [CRs -> Specs] :
        crs = [c \in CRs |->
                 CASE Start = "absent" -> [NewCR(s[c], 0) EXCEPT !.there = FALSE]
                   [] Start = "new"    -> NewCR(s[c], 1)
                   [] OTHER            -> Synced(c, s[c])]
  BY DEF Init
<1>2. ASSUME NEW c \in CRs PROVE crs[c] \in CRStates
  <2>0. s[c] \in Specs
    OBVIOUS
  <2>1. \A n \in Nat : NewCR(s[c], n) \in CRStates
    BY <2>0 DEF NewCR, CRStates, Reasons
  <2>2. [NewCR(s[c], 0) EXCEPT !.there = FALSE] \in CRStates
    BY <2>0 DEF NewCR, CRStates, Reasons
  <2>3. s[c].holder \in BOOLEAN
    BY <2>0, ReconcileAssumption DEF SpecOK
  <2>4. Synced(c, s[c]) \in CRStates
    <3>1. [NewCR(s[c], 1) EXCEPT !.reason = "Synced"] \in CRStates
      BY <2>1 DEF CRStates, Reasons
    <3>2. [NewCR(s[c], 1) EXCEPT !.reason = "Synced", !.observed = 1] \in CRStates
      BY <3>1 DEF CRStates, Reasons
    <3>3. QED BY <2>3, <3>2 DEF CRStates, Synced
  <2>5. CASE Start = "absent"
    BY <1>1, <2>2, <2>5
  <2>6. CASE Start = "new"
    BY <1>1, <2>1, <2>6
  <2>7. CASE Start = "synced"
    BY <1>1, <2>4, <2>7
  <2>8. QED BY <2>5, <2>6, <2>7, ReconcileAssumption
<1>3. crs \in [CRs -> CRStates]
  BY <1>1, <1>2
<1>4. ASSUME NEW k \in Keys PROVE objs[k] \in Objs
  <2>1. k.type \in Types
    BY DEF Keys, Key, LegacyKey, Types
  <2>2. \A c \in CRs, n \in Nat : Made(c, k.type, crs[c].spec, n) \in [owner : Owners, made : Nat, pod : Pods]
    <3>1. \A c \in CRs : crs[c].spec \in Specs /\ crs[c].spec.rev \in Nat
      BY <1>2, ReconcileAssumption DEF CRStates, SpecOK
    <3>2. QED BY <2>1, <3>1 DEF Made, Owners, Content, Pods
  <2>3. CASE \E c \in CRs : Start = "synced" /\ k.type \in Wanted(crs[c].spec) /\ k = Key(c, k.type)
    <3> DEFINE d == CHOOSE d \in CRs : k = Key(d, k.type)
    <3>1. d \in CRs
      BY <2>3
    <3>2. objs[k] = [Made(d, k.type, crs[d].spec, 1) EXCEPT !.pod = "up"]
      BY <2>3 DEF Init
    <3> HIDE DEF d
    <3>3. Made(d, k.type, crs[d].spec, 1) \in [owner : Owners, made : Nat, pod : Pods]
      BY <2>2, <3>1
    <3>4. objs[k] \in [owner : Owners, made : Nat, pod : Pods]
      BY <3>2, <3>3 DEF Pods
    <3>5. QED BY <3>4 DEF Objs
  <2>4. CASE /\ ~\E c \in CRs : Start = "synced" /\ k.type \in Wanted(crs[c].spec) /\ k = Key(c, k.type)
             /\ \E c \in Legacy, t \in {"ConfigMap", "CronJob"} : k = LegacyKey(c, t)
    <3> DEFINE d == CHOOSE d \in Legacy : k = LegacyKey(d, k.type)
    <3>1. d \in CRs
      BY <2>4, ReconcileAssumption DEF LegacyKey
    <3>2. objs[k] = Made(d, k.type, crs[d].spec, 1)
      BY <2>4 DEF Init
    <3> HIDE DEF d
    <3>3. QED BY <2>2, <3>1, <3>2 DEF Objs
  <2>5. CASE /\ ~\E c \in CRs : Start = "synced" /\ k.type \in Wanted(crs[c].spec) /\ k = Key(c, k.type)
             /\ ~\E c \in Legacy, t \in {"ConfigMap", "CronJob"} : k = LegacyKey(c, t)
    BY <2>5 DEF Init, Objs
  <2>6. QED BY <2>3, <2>4, <2>5
<1>5. objs \in [Keys -> Objs]
  BY <1>4 DEF Init
<1>6. /\ step \in [CRs -> Steps] /\ turns \in 0..MaxTurns
      /\ todo \in [CRs -> [reason : Reasons, holder : BOOLEAN]]
  <2>1. "idle" \in Steps /\ "none" \in Reasons
    BY DEF Steps, Reasons
  <2>2. /\ step = [c \in CRs |-> "idle"] /\ step \in [CRs -> Steps]
        /\ turns = 0 /\ turns \in 0..MaxTurns
    <3>1. step = [c \in CRs |-> "idle"] /\ turns = 0
      BY DEF Init
    <3>2. 0 \in 0..MaxTurns
      BY ReconcileAssumption
    <3>3. QED BY <2>1, <3>1, <3>2
  <2>3. [reason |-> "none", holder |-> FALSE] \in [reason : Reasons, holder : BOOLEAN]
    BY <2>1
  <2>4. todo = [c \in CRs |-> [reason |-> "none", holder |-> FALSE]]
    BY DEF Init
  <2>5. QED BY <2>2, <2>3, <2>4
<1>7. TypeOK
  BY <1>3, <1>5, <1>6 DEF Init, TypeOK
<1>8. FreshSeen
  BY DEF Init, FreshSeen
<1>9. QED BY <1>7, <1>8 DEF TypeInv

\* TypeInv is inductive.
LEMMA TypeStep == TypeInv /\ [Next]_vars => TypeInv'
<1> SUFFICES ASSUME TypeOK, FreshSeen, [Next]_vars PROVE TypeOK' /\ FreshSeen'
  BY DEF TypeInv
<1>1. CASE UNCHANGED vars
  BY <1>1 DEF vars, api, caches, worker, TypeOK, FreshSeen
<1>2. QED
  BY <1>1, NextCases, TakeType, CheckType, WritesType, AvailableType, SetStatusType,
     CallFailsType, UserType, ClusterType, SyncType, PreType, CrashType

\* Resources, objects, caches and the reconciles at work on them stay in their
\* types; in particular an update never makes half an object of one that is gone.
THEOREM ReconcileTypeInvariance == Spec => []TypeOK
<1>1. TypeInv => TypeOK
  BY DEF TypeInv
<1>2. QED BY <1>1, InitType, TypeStep, PTL DEF Spec

---------------------------------------------------------------------------
(* Ownership.  A reconcile asks the cached object for its controller and   *)
(* then writes to, or deletes, the current one.  That is safe because an    *)
(* object of another resource cannot have come in between: nothing is       *)
(* created under a name that the cache still shows, and what is updated     *)
(* stays with resources of the same kind and name.                         *)

SeenOwner ==
  \A k \in Keys : objSeen[k] # NoObj /\ objs[k] # NoObj
                    => objSeen[k].owner.cr = objs[k].owner.cr

\* A step touches one object, or only delivers objects to a cache.
LEMMA ObjCases ==
  ASSUME TypeInv, [Next]_vars
  PROVE  \/ \E k \in Keys : Touched(k)
         \/ /\ UNCHANGED objs
            /\ \A k \in Keys : objSeen'[k] = objSeen[k] \/ objSeen'[k] = objs[k]
<1> USE DEF TypeInv
<1>1. ASSUME NEW c \in CRs, Take(c) \/ Check(c) \/ Available(c) \/ CallFails(c)
      PROVE  UNCHANGED <<objs, objSeen>>
  BY <1>1 DEF Take, Check, Available, CallFails, api, caches
<1>2. ASSUME NEW c \in CRs, Writes(c)
      PROVE  (\E k \in Keys : Touched(k)) \/ UNCHANGED <<objs, objSeen>>
  BY <1>2, WritesType, WriteFacts DEF NoPut
<1>3. ASSUME NEW c \in CRs, SetStatus(c) PROVE UNCHANGED <<objs, objSeen>>
  BY <1>3, SetStatusType
<1>4. ASSUME NEW c \in CRs, UserWrites(c) PROVE UNCHANGED <<objs, objSeen>>
  BY <1>4, UserFacts DEF SetCR
<1>5. ASSUME NEW k \in Keys, ClusterWrites(k) PROVE Touched(k)
  BY <1>5, ClusterType
<1>6. CASE Informers
  BY <1>6, SyncType DEF api
<1>7. CASE PreSteps
  BY <1>7, PreType DEF caches
<1>8. CASE Crash
  BY <1>8 DEF Crash, api
<1>9. CASE UNCHANGED vars
  BY <1>9 DEF vars, api, caches
<1>10. QED
  BY <1>1, <1>2, <1>3, <1>4, <1>5, <1>6, <1>7, <1>8, <1>9, NextCases

\* What each case makes of the owner.
LEMMA TouchedOwner ==
  ASSUME TypeInv, NEW k \in Keys, Touched(k)
  PROVE  \/ objs'[k] = NoObj
         \/ /\ objSeen[k] = NoObj /\ objs[k] = NoObj
            /\ \E c \in CRs : objs'[k].owner = [cr |-> c, uid |-> local[c].uid]
         \/ objs[k] # NoObj /\ objs'[k].owner = objs[k].owner
         \/ /\ objs[k] # NoObj
            /\ \E c \in CRs, t \in Types :
                 /\ k = Key(c, t) /\ objs[k].owner.cr = c
                 /\ objs'[k].owner = [cr |-> c, uid |-> local[c].uid]
<1>0. /\ objs[k] \in Objs
      /\ objs[k] # NoObj => objs[k] \in [owner : Owners, made : Nat, pod : Pods]
  BY DEF TypeInv, TypeOK, Objs
<1>1. ASSUME NEW c \in CRs, NEW t \in Types, Rewritten(c, t, k)
      PROVE  /\ objs[k] # NoObj /\ k = Key(c, t) /\ objs[k].owner.cr = c
             /\ objs'[k].owner = [cr |-> c, uid |-> local[c].uid]
  <2>1. objs[k] = objSeen[k]
    BY <1>1 DEF Rewritten, TypeInv, FreshSeen
  <2>2. objs'[k] = Updated(objs[k], Made(c, t, local[c].spec, local[c].uid))
    BY <1>1 DEF Rewritten
  <2>3. QED BY <1>1, <2>1, <2>2 DEF Rewritten, Updated, Made
<1>2. ASSUME Ticked(k) PROVE objs[k] # NoObj /\ objs'[k].owner = objs[k].owner
  BY <1>0, <1>2 DEF Ticked
<1>3. ASSUME NEW c \in CRs, NEW t \in Types, Created(c, t, k)
      PROVE  /\ objSeen[k] = NoObj /\ objs[k] = NoObj
             /\ objs'[k].owner = [cr |-> c, uid |-> local[c].uid]
  BY <1>3 DEF Created, Made
<1>4. QED BY <1>1, <1>2, <1>3 DEF Touched, Dropped, Collected

\* What a cache shows of an object's owner, its uid aside, stays true while the
\* object lives.
LEMMA OwnerStep == TypeInv /\ SeenOwner /\ [Next]_vars => SeenOwner'
<1> SUFFICES ASSUME TypeInv, SeenOwner, [Next]_vars, NEW i \in Keys,
                    objSeen'[i] # NoObj, objs'[i] # NoObj
             PROVE  objSeen'[i].owner.cr = objs'[i].owner.cr
  BY DEF SeenOwner
<1>1. ASSUME NEW k \in Keys, Touched(k) PROVE objSeen'[i].owner.cr = objs'[i].owner.cr
  <2>0. objSeen' = objSeen
    BY <1>1 DEF Touched
  <2>1. CASE i = k
    <3>1. objs[k] # NoObj /\ objs'[k].owner.cr = objs[k].owner.cr
      <4>1. objs'[k] # NoObj /\ objSeen[k] # NoObj
        BY <2>0, <2>1
      <4>2. \/ objs[k] # NoObj /\ objs'[k].owner = objs[k].owner
            \/ /\ objs[k] # NoObj
               /\ \E c \in CRs : /\ objs[k].owner.cr = c
                                 /\ objs'[k].owner = [cr |-> c, uid |-> local[c].uid]
        BY <1>1, <4>1, TouchedOwner
      <4>3. ASSUME NEW c \in CRs, objs[k].owner.cr = c,
                   objs'[k].owner = [cr |-> c, uid |-> local[c].uid]
            PROVE  objs'[k].owner.cr = objs[k].owner.cr
        BY <4>3
      <4>4. QED BY <4>2, <4>3
    <3>2. QED BY <2>0, <2>1, <3>1 DEF SeenOwner
  <2>2. CASE i # k
    BY <1>1, <2>0, <2>2 DEF Touched, SeenOwner
  <2>3. QED BY <2>1, <2>2
<1>2. CASE /\ UNCHANGED objs
           /\ \A k \in Keys : objSeen'[k] = objSeen[k] \/ objSeen'[k] = objs[k]
  BY <1>2 DEF SeenOwner
<1>3. QED BY <1>1, <1>2, ObjCases

\* The keys of a resource differ from each other and from its old ones, which
\* are one name part shorter.
LEMMA KeysApart ==
  ASSUME NEW c \in CRs, NEW d \in CRs, NEW t \in Types
  PROVE  /\ \A u \in Types : Key(c, t) = Key(d, u) => t = u
         /\ \A u \in {"ConfigMap", "CronJob"} : Key(c, t) # LegacyKey(c, u)
<1>1. \A u \in Types : Key(c, t) = Key(d, u) => t = u
  BY DEF Key
<1>2. ASSUME NEW u \in {"ConfigMap", "CronJob"}, Key(c, t) = LegacyKey(c, u) PROVE FALSE
  <2>1. t = u /\ OwnedName(c) = LegacyOwnedName(c)
    BY <1>2 DEF Key, LegacyKey
  <2>2. c.name \in Seq(STRING)
    BY ReconcileAssumption DEF Resource
  <2> DEFINE kind == IF c.kind = "Backup" THEN "backup" ELSE "restore"
  <2>3. Len(<<"karkive", kind>> \o c.name) = 2 + Len(c.name)
    BY <2>2
  <2>4. Len(<<"karkive">> \o c.name) = 1 + Len(c.name)
    BY <2>2
  <2>5. Len(c.name) \in Nat
    BY <2>2
  <2>6. QED BY <2>1, <2>3, <2>4, <2>5 DEF OwnedName, LegacyOwnedName
<1>3. QED BY <1>1, <1>2

\* Objects that are not there belong to no resource.
LEMMA ObjFacts ==
  ASSUME TypeInv, NEW k \in Keys
  PROVE  /\ \A c \in CRs : NoObj.owner.cr # c
         /\ objs[k] # NoObj => objs[k] \in [owner : Owners, made : Nat, pod : Pods]
         /\ objSeen[k] # NoObj => objSeen[k] \in [owner : Owners, made : Nat, pod : Pods]
         /\ objs[k].made \in Nat /\ objSeen[k].made \in Nat
<1>1. \A c \in CRs : c.kind # "none"
  BY ReconcileAssumption DEF Resource, Kinds
<1>2. NoObj.owner.cr.kind = "none" /\ NoObj.made = 0
  BY DEF NoObj
<1>3. /\ objs[k] # NoObj => objs[k] \in [owner : Owners, made : Nat, pod : Pods]
      /\ objSeen[k] # NoObj => objSeen[k] \in [owner : Owners, made : Nat, pod : Pods]
  BY DEF TypeInv, TypeOK, Objs
<1>4. QED BY <1>1, <1>2, <1>3

\* The uids of a resource grow, and no object of its own names has one that
\* its reconcile has not seen yet.
UidInv ==
  \A c \in CRs :
    /\ local[c].uid <= crSeen[c].uid /\ crSeen[c].uid <= crs[c].uid
    /\ \A t \in Types : objs[Key(c, t)].owner.cr = c
                           => objs[Key(c, t)].owner.uid <= local[c].uid

\* The reconcile's copy comes from the cache, the cached state from the API
\* server, and there uids only grow.
LEMMA VersionCases ==
  ASSUME TypeInv, [Next]_vars, NEW c \in CRs
  PROVE  /\ crs[c].uid <= crs'[c].uid
         /\ crSeen'[c] = crSeen[c] \/ crSeen'[c] = crs[c]
         /\ \/ local'[c] = local[c]
            \/ local'[c] = crSeen[c] /\ UNCHANGED <<crs, objs, crSeen>>
<1> USE DEF TypeInv
<1>0. crs[c] \in CRStates /\ crs[c].uid \in Nat
  BY DEF TypeOK, CRStates
<1> DEFINE P == /\ crs[c].uid <= crs'[c].uid
                /\ crSeen'[c] = crSeen[c] \/ crSeen'[c] = crs[c]
                /\ local'[c] = local[c]
<1>1. ASSUME NEW d \in CRs, Take(d)
      PROVE  /\ UNCHANGED <<crs, objs, crSeen>>
             /\ local'[c] = local[c] \/ local'[c] = crSeen[c]
  BY <1>1 DEF Take, api, caches, TypeOK
<1>2. ASSUME NEW d \in CRs, Check(d) \/ Available(d) \/ CallFails(d) \/ Writes(d)
      PROVE  UNCHANGED <<crs, crSeen, local>>
  BY <1>2, WriteFacts DEF Check, Available, CallFails, api, caches
<1>3. ASSUME NEW d \in CRs, SetStatus(d) PROVE P
  <2>1. UNCHANGED <<crSeen, local>>
    BY <1>3, SetStatusType
  <2>2. crs'[c].uid = crs[c].uid
    <3>1. \/ UNCHANGED crs
          \/ crs' = [crs EXCEPT ![d].reason = todo[d].reason,
                                ![d].holder = todo[d].holder,
                                ![d].observed = local[d].gen]
      BY <1>3, SetStatusType
    <3>2. CASE crs'[c] # crs[c]
      <4>1. d = c /\ crs'[c] = [crs[c] EXCEPT !.reason = todo[c].reason,
                                              !.holder = todo[c].holder,
                                              !.observed = local[c].gen]
        BY <3>1, <3>2 DEF TypeOK
      <4>2. QED BY <1>0, <4>1 DEF CRStates
    <3>3. QED BY <3>2
  <2>3. QED BY <1>0, <2>1, <2>2
<1>4. ASSUME NEW d \in CRs, UserWrites(d) PROVE P
  <2>1. PICK r \in CRStates : /\ SetCR(d, r)
                              /\ r.uid = crs[d].uid + 1 \/ r.uid = crs[d].uid
    BY <1>4, UserFacts
  <2>2. UNCHANGED <<crSeen, local>> /\ crs'[d] = r /\ (d # c => crs'[c] = crs[c])
    BY <2>1 DEF SetCR, TypeOK
  <2>3. QED BY <1>0, <2>1, <2>2
<1>5. ASSUME NEW k \in Keys, ClusterWrites(k) PROVE UNCHANGED <<crs, crSeen, local>>
  BY <1>5, ClusterType DEF Touched
<1>6. CASE Informers
  BY <1>0, <1>6, SyncType DEF api, worker
<1>7. CASE PreSteps
  BY <1>0, <1>7, PreType DEF caches, worker
<1>8. CASE Crash
  BY <1>0, <1>8 DEF Crash, api
<1>9. CASE UNCHANGED vars
  BY <1>0, <1>9 DEF vars, api, caches, worker
<1>10. QED
  BY <1>0, <1>1, <1>2, <1>3, <1>4, <1>5, <1>6, <1>7, <1>8, <1>9, NextCases

\* UidInv is inductive.
LEMMA UidStep == TypeInv /\ UidInv /\ [Next]_vars => UidInv'
<1> SUFFICES ASSUME TypeInv, UidInv, [Next]_vars, NEW c \in CRs
             PROVE  /\ local'[c].uid <= crSeen'[c].uid /\ crSeen'[c].uid <= crs'[c].uid
                    /\ \A t \in Types : objs'[Key(c, t)].owner.cr = c
                                          => objs'[Key(c, t)].owner.uid <= local'[c].uid
  BY DEF UidInv
<1>0. /\ local[c].uid \in Nat /\ crSeen[c].uid \in Nat /\ crs[c].uid \in Nat
      /\ crs'[c].uid \in Nat /\ local[c].uid <= crSeen[c].uid /\ crSeen[c].uid <= crs[c].uid
  BY TypeStep DEF TypeInv, TypeOK, CRStates, UidInv
<1>1. local'[c].uid <= crSeen'[c].uid /\ crSeen'[c].uid <= crs'[c].uid
      /\ local[c].uid <= local'[c].uid
  BY <1>0, VersionCases
<1>2. ASSUME NEW t \in Types, objs'[Key(c, t)].owner.cr = c
      PROVE  objs'[Key(c, t)].owner.uid <= local'[c].uid
  <2> DEFINE i == Key(c, t)
  <2>0. i \in Keys
    BY KeyType
  <2>1. CASE objs'[i] = objs[i]
    <3>1. objs[i].owner.uid <= local[c].uid /\ objs[i].owner.uid \in Nat
      BY <1>2, <2>0, <2>1, ObjFacts DEF UidInv, Owners
    <3>2. local'[c].uid \in Nat
      BY TypeStep DEF TypeInv, TypeOK, CRStates
    <3>3. QED BY <1>0, <1>1, <2>1, <3>1, <3>2
  <2>2. CASE objs'[i] # objs[i]
    <3>1. Touched(i) /\ UNCHANGED local
      BY <2>0, <2>2, ObjCases DEF Touched
    <3>2. objs'[i] # NoObj
      BY <1>2, <2>0, ObjFacts
    <3>3. \/ objs'[i].owner = objs[i].owner
          \/ \E d \in CRs : objs'[i].owner = [cr |-> d, uid |-> local[d].uid]
      BY <2>0, <3>1, <3>2, TouchedOwner
    <3>4. CASE objs'[i].owner = objs[i].owner
      BY <1>2, <3>1, <3>4 DEF UidInv
    <3>5. CASE objs'[i].owner # objs[i].owner
      <4>1. PICK d \in CRs : objs'[i].owner = [cr |-> d, uid |-> local[d].uid]
        BY <3>3, <3>5
      <4>2. d = c
        BY <1>2, <4>1
      <4>3. QED BY <1>0, <3>1, <4>1, <4>2
    <3>6. QED BY <3>4, <3>5
  <2>3. QED BY <2>1, <2>2
<1>3. QED BY <1>1, <1>2

\* In the beginning a resource has objects under its own names only if it
\* begins synced.
LEMMA InitUid == Init => UidInv
<1> SUFFICES ASSUME Init, NEW c \in CRs
             PROVE  /\ local[c].uid <= crSeen[c].uid /\ crSeen[c].uid <= crs[c].uid
                    /\ \A t \in Types : objs[Key(c, t)].owner.cr = c
                                          => objs[Key(c, t)].owner.uid <= local[c].uid
  BY DEF UidInv
<1>0. TypeInv /\ local = crs /\ crSeen = crs /\ crs[c].uid \in Nat
  BY InitType DEF Init, TypeInv, TypeOK, CRStates
<1>1. ASSUME NEW t \in Types, objs[Key(c, t)].owner.cr = c
      PROVE  objs[Key(c, t)].owner.uid <= crs[c].uid
  <2> DEFINE k == Key(c, t)
             asked == \E e \in CRs : Start = "synced" /\ k.type \in Wanted(crs[e].spec)
                                                      /\ k = Key(e, k.type)
             old == \E e \in Legacy, u \in {"ConfigMap", "CronJob"} : k = LegacyKey(e, u)
  <2>0. k \in Keys /\ k.type = t
    BY KeyType DEF Key
  <2>1. CASE asked
    <3> DEFINE d == CHOOSE d \in CRs : k = Key(d, k.type)
    <3>1. objs[k] = [Made(d, k.type, crs[d].spec, 1) EXCEPT !.pod = "up"]
      BY <2>0, <2>1 DEF Init
    <3> HIDE DEF d
    <3>2. objs[k].owner.uid = 1
      BY <3>1 DEF Made
    <3>3. crs[c].uid = 1
      <4>1. PICK s \in [CRs -> Specs] :
              crs = [e \in CRs |->
                       CASE Start = "absent" -> [NewCR(s[e], 0) EXCEPT !.there = FALSE]
                         [] Start = "new"    -> NewCR(s[e], 1)
                         [] OTHER            -> Synced(e, s[e])]
        BY DEF Init
      <4>2. crs[c] = Synced(c, s[c])
        BY <2>1, <4>1
      <4> DEFINE n == NewCR(s[c], 1)
      <4>3. n \in CRStates /\ n.uid = 1
        BY DEF NewCR, CRStates, Reasons
      <4>4. crs[c] = [n EXCEPT !.reason = "Synced", !.observed = 1, !.holder = s[c].holder]
        BY <4>2 DEF Synced
      <4> HIDE DEF n
      <4>5. QED BY <4>3, <4>4 DEF CRStates
    <3>4. QED BY <3>2, <3>3
  <2>2. CASE ~asked /\ old
    <3> DEFINE d == CHOOSE d \in Legacy : k = LegacyKey(d, k.type)
    <3>1. PICK e \in Legacy, u \in {"ConfigMap", "CronJob"} : k = LegacyKey(e, u)
      BY <2>2
    <3>2. u = k.type
      BY <3>1 DEF LegacyKey
    <3>3. d \in Legacy /\ k = LegacyKey(d, u) /\ d \in CRs
      BY <3>1, <3>2, ReconcileAssumption
    <3>4. objs[k] = Made(d, k.type, crs[d].spec, 1)
      BY <2>0, <2>2 DEF Init
    <3> HIDE DEF d
    <3>5. d # c
      BY <3>3, KeysApart
    <3>6. QED BY <1>1, <3>4, <3>5 DEF Made
  <2>3. CASE ~asked /\ ~old
    BY <1>0, <1>1, <2>0, <2>3, ObjFacts DEF Init
  <2>4. QED BY <2>1, <2>2, <2>3
<1>2. QED BY <1>0, <1>1

\* SetControllerReference is asked about a cached object and does not compare
\* uids, and still an object changes hands only from a resource that is no more
\* to a later one of the same kind and name.
THEOREM NothingTakenOver == Spec => NoTakeover
<1>1. TypeInv /\ UidInv /\ [Next]_vars =>
        \A k \in Keys :
          objs[k] # NoObj /\ objs'[k] # NoObj /\ objs'[k].owner # objs[k].owner
            => /\ objs'[k].owner.cr = objs[k].owner.cr
               /\ objs'[k].owner.uid > objs[k].owner.uid
               /\ ~Alive(objs[k].owner)
  <2> SUFFICES ASSUME TypeInv, UidInv, [Next]_vars, NEW k \in Keys,
                      objs[k] # NoObj, objs'[k] # NoObj, objs'[k].owner # objs[k].owner
               PROVE  /\ objs'[k].owner.cr = objs[k].owner.cr
                      /\ objs'[k].owner.uid > objs[k].owner.uid
                      /\ ~Alive(objs[k].owner)
    OBVIOUS
  <2>1. Touched(k)
    BY ObjCases DEF Touched
  <2>2. PICK c \in CRs, t \in Types :
               /\ k = Key(c, t) /\ objs[k].owner.cr = c
               /\ objs'[k].owner = [cr |-> c, uid |-> local[c].uid]
    BY <2>1, TouchedOwner
  <2>3. objs[k].owner \in Owners /\ objs[k].owner.uid \in Nat
    BY ObjFacts DEF Owners
  <2>4. objs[k].owner.uid <= local[c].uid /\ local[c].uid <= crs[c].uid
    <3>1. local[c].uid \in Nat /\ crSeen[c].uid \in Nat /\ crs[c].uid \in Nat
      BY DEF TypeInv, TypeOK, CRStates
    <3>2. QED BY <2>2, <3>1 DEF UidInv
  <2>5. objs[k].owner = [cr |-> c, uid |-> objs[k].owner.uid]
    BY <2>2, <2>3 DEF Owners
  <2>6. objs[k].owner.uid # local[c].uid
    BY <2>2, <2>5
  <2>7. local[c].uid \in Nat /\ crs[c].uid \in Nat
    BY DEF TypeInv, TypeOK, CRStates
  <2>8. objs[k].owner.uid < local[c].uid /\ crs[c].uid # objs[k].owner.uid
    BY <2>3, <2>4, <2>6, <2>7
  <2>9. QED BY <2>2, <2>8 DEF Alive
<1>2. QED BY <1>1, InitType, InitUid, TypeStep, UidStep, PTL DEF Spec, NoTakeover

\* The cached object is asked for its controller and the current one deleted,
\* and still a living resource loses an object only to its own reconcile.
THEOREM OnlyOwnDeleted == Spec => DeletesOnlyOwn
<1>1. Init => SeenOwner
  BY DEF Init, SeenOwner
<1>2. TypeInv /\ SeenOwner /\ [Next]_vars =>
        \A k \in Keys :
          objs[k] # NoObj /\ objs'[k] = NoObj /\ Alive(objs[k].owner)
            => step'[objs[k].owner.cr] # step[objs[k].owner.cr]
  <2> SUFFICES ASSUME TypeInv, SeenOwner, [Next]_vars, NEW i \in Keys,
                      objs[i] # NoObj, objs'[i] = NoObj, Alive(objs[i].owner)
               PROVE  step'[objs[i].owner.cr] # step[objs[i].owner.cr]
    OBVIOUS
  <2>1. PICK k \in Keys : Touched(k)
    BY ObjCases
  <2>2. i = k
    BY <2>1 DEF Touched
  <2>3. PICK c \in CRs : Dropped(c, k)
    <3>1. objs[k] \in Objs
      BY DEF TypeInv, TypeOK
    <3>2. ASSUME NEW c \in CRs, NEW t \in Types, Created(c, t, k) PROVE FALSE
      BY <2>2, <3>2 DEF Created
    <3>3. ASSUME NEW c \in CRs, NEW t \in Types, Rewritten(c, t, k) PROVE FALSE
      <4>1. local[c] \in CRStates /\ objs[k] \in Objs \ {NoObj}
        BY <2>2, <3>1 DEF TypeInv, TypeOK
      <4>2. QED BY <2>2, <3>3, <4>1, MadeType DEF Rewritten
    <3>4. ~Collected(k)
      BY <2>2 DEF Collected
    <3>5. ASSUME Ticked(k) PROVE FALSE
      <4>1. /\ objs[k] \in [owner : Owners, made : Nat, pod : Pods]
            /\ objs[k].owner.cr \in CRs
        BY <2>2, <3>1 DEF Objs, Owners
      <4>2. objs'[k].owner = objs[k].owner
        BY <3>5, <4>1 DEF Ticked
      <4>3. objs[k].owner.cr.kind # "none" /\ NoObj.owner.cr.kind = "none"
        BY <4>1, ReconcileAssumption DEF Resource, Kinds, NoObj
      <4>4. QED BY <2>2, <4>2, <4>3
    <3>6. QED BY <2>1, <3>2, <3>3, <3>4, <3>5 DEF Touched
  <2>4. objs[k].owner.cr = c
    BY <2>3 DEF Dropped, SeenOwner, Me
  <2>5. QED BY <2>2, <2>3, <2>4 DEF Dropped, Me
<1>3. QED BY <1>1, <1>2, InitType, TypeStep, OwnerStep, PTL DEF Spec, DeletesOnlyOwn

---------------------------------------------------------------------------
(* Ready means synced.  The reconcile works on a copy of the resource that  *)
(* may be stale, compares it with objects that may be stale, and reports on *)
(* the lot.  The argument orders the versions of a resource by uid and      *)
(* revision: the copy is no newer than the cache, the cache no newer than   *)
(* the resource, and no object has content newer than the copy.  A cached   *)
(* object that agrees with a current copy is then itself current, unless    *)
(* it is a holder that a revision in between asked to delete.               *)

\* The version a is one of b, or an earlier one.
Older(a, b) == \/ a.uid < b.uid
               \/ a.uid = b.uid /\ (a.spec = b.spec \/ a.spec.rev < b.spec.rev)
Same(a, b) == a.uid = b.uid /\ a.spec = b.spec

VersionInv(c) ==
  /\ Older(local[c], crSeen[c]) /\ Older(crSeen[c], crs[c])
  /\ c \in current => local[c] = crs[c]
  /\ step[c] # "idle" => local[c].there /\ ~local[c].deleting
  /\ crs[c].observed <= crs[c].gen

\* An object of c was made from the copy c works on, or from an earlier one.
MadeBy(o, c, t) ==
  o.owner.cr = c =>
    /\ o.owner.uid <= local[c].uid
    /\ o.owner.uid = local[c].uid => o.made <= Content(t, local[c].spec)

ContentInv(c, t) ==
  LET now == objs[Key(c, t)]
      seen == objSeen[Key(c, t)]
  IN /\ MadeBy(now, c, t) /\ MadeBy(seen, c, t)
     /\ seen.owner.cr = c /\ now # NoObj =>
          /\ seen.owner.uid <= now.owner.uid
          /\ seen.owner.uid = now.owner.uid => seen.made <= now.made
     /\ seen.owner = Me(c) /\ Live(c) /\ crs[c].uid = local[c].uid /\ now = NoObj =>
          t = "Deployment" /\ (~local[c].spec.holder \/ seen.made < local[c].spec.rev)

\* The object of type t is what the copy c works on asks for.
Placed(c, t) == /\ objs[Key(c, t)].owner = Me(c)
                /\ objs[Key(c, t)].made = Content(t, local[c].spec)

\* The steps of a reconcile after the one that places t.
Later == [ConfigMap  |-> {"PVC", "Deployment", "CronJob"},
          PVC        |-> {"Deployment", "CronJob"},
          Deployment |-> {"CronJob"},
          CronJob    |-> {}]
Past(c, t) ==
  \/ step[c] \in Later[t] \cup {"oldConfigMap", "oldCronJob", "available"}
  \/ step[c] = "status" /\ todo[c].reason = "Synced"

\* A reconcile of the current version leaves what it has placed in place.
ProgressInv(c) ==
  c \in current => \A t \in Wanted(local[c].spec) : Past(c, t) => Placed(c, t)

ReadyInv(c) ==
  Live(c) /\ Ready(c) => /\ Same(local[c], crs[c])
                         /\ \A t \in Wanted(local[c].spec) : Placed(c, t)

SyncInv == \A c \in CRs : /\ VersionInv(c) /\ ProgressInv(c) /\ ReadyInv(c)
                          /\ \A t \in Types : ContentInv(c, t)

\* A holder has been available if the cache shows it so, or Ready is reported.
SeenUp == \A k \in Keys : objSeen[k].pod # "no" /\ objs[k] # NoObj
                             => objs[k].pod # "no"
HolderInv(c) ==
  c \in current /\ step[c] = "status" /\ todo[c].reason = "Synced"
                /\ local[c].spec.holder => objs[Key(c, "Deployment")].pod # "no"

\* Older is a partial order on the states of a resource.
LEMMA OlderFacts ==
  ASSUME NEW a \in CRStates, NEW b \in CRStates, NEW d \in CRStates
  PROVE  /\ Older(a, a)
         /\ Older(a, b) /\ Older(b, d) => Older(a, d)
         /\ Older(a, b) /\ Older(b, d) /\ Same(a, d) => Same(a, b) /\ Same(b, d)
<1>1. \A x \in {a, b, d} : x.uid \in Nat /\ x.spec.rev \in Nat
  BY ReconcileAssumption DEF CRStates, SpecOK
<1>2. QED BY <1>1 DEF Older, Same

\* A later version never asks for older content.
LEMMA OlderContent ==
  ASSUME NEW a \in CRStates, NEW b \in CRStates, NEW t \in Types,
         Older(a, b), a.uid = b.uid
  PROVE  Content(t, a.spec) <= Content(t, b.spec)
<1>1. a.spec.rev \in Nat /\ b.spec.rev \in Nat /\ a.uid \in Nat
  BY ReconcileAssumption DEF CRStates, SpecOK
<1>2. a.spec.rev <= b.spec.rev
  BY <1>1 DEF Older
<1>3. QED BY <1>1, <1>2 DEF Content

\* What a resource that lives asks for and has stays in place, whoever writes.
LEMMA PlacedKept ==
  ASSUME TypeInv, SeenOwner, NEW c \in CRs, NEW t \in Types,
         t \in Wanted(local[c].spec), Live(c), crs[c].uid = local[c].uid,
         Placed(c, t), NEW k \in Keys, Touched(k)
  PROVE  /\ Placed(c, t)'
         /\ objs[Key(c, t)].pod # "no" => objs'[Key(c, t)].pod # "no"
<1> DEFINE i == Key(c, t)
<1>0. /\ i \in Keys /\ objs[i].owner = Me(c) /\ objs[i] # NoObj /\ Me(c).cr = c
      /\ objs[i].made = Content(t, local[c].spec) /\ UNCHANGED local
      /\ Me(c)' = Me(c)
  BY KeyType, ObjFacts DEF Placed, Me, Touched
<1>1. CASE i # k
  BY <1>0, <1>1 DEF Touched, Placed
<1>2. CASE i = k
  <2>0. objs[k] \in [owner : Owners, made : Nat, pod : Pods]
    BY <1>0, <1>2, ObjFacts
  <2>1. ASSUME NEW d \in CRs, NEW u \in Types, Created(d, u, k) PROVE FALSE
    BY <1>0, <1>2, <2>1 DEF Created
  <2>2. ASSUME NEW d \in CRs, NEW u \in Types, Rewritten(d, u, k)
        PROVE  /\ objs'[k].owner = objs[k].owner
               /\ objs[k].pod # "no" => objs'[k].pod # "no"
               /\ objs'[k].made = Content(t, local[c].spec)
    <3>1. d = c
      BY <1>0, <1>2, <2>2 DEF Rewritten, SeenOwner
    <3>2. t = u
      BY <1>2, <2>2, <3>1, KeysApart DEF Rewritten
    <3>3. objs'[k] = Updated(objs[k], Made(c, t, local[c].spec, local[c].uid))
      BY <2>2, <3>1, <3>2 DEF Rewritten
    <3>4. QED BY <1>0, <1>2, <3>3 DEF Updated, Made, Me
  <2>3. ASSUME NEW d \in CRs, Dropped(d, k) PROVE FALSE
    <3>1. Me(d).cr = c
      BY <1>0, <1>2, <2>3 DEF Dropped, SeenOwner
    <3>2. d = c
      BY <3>1 DEF Me
    <3>3. t = "Deployment" /\ ~local[c].spec.holder
      BY <1>2, <2>3, <3>2, KeysApart DEF Dropped, Types
    <3>4. QED BY <3>3 DEF Wanted
  <2>4. ASSUME Collected(k) PROVE FALSE
    BY <1>0, <1>2, <2>4 DEF Collected, Alive, Live, Me
  <2>5. ASSUME Ticked(k)
        PROVE  /\ objs'[k].owner = objs[k].owner /\ objs'[k].made = objs[k].made
               /\ objs[k].pod # "no" => objs'[k].pod # "no"
    BY <2>0, <2>5 DEF Ticked
  <2>6. \/ \E d \in CRs, u \in Types : Rewritten(d, u, k)
        \/ Ticked(k)
    BY <2>1, <2>3, <2>4 DEF Touched
  <2>7. QED BY <1>0, <1>2, <2>2, <2>5, <2>6 DEF Placed
<1>3. QED BY <1>1, <1>2

\* Whoever touches an object leaves it at most as new as its resource.
LEMMA TouchedContent ==
  ASSUME TypeInv, SeenOwner, NEW c \in CRs, NEW t \in Types, ContentInv(c, t),
         NEW k \in Keys, Touched(k)
  PROVE  ContentInv(c, t)'
<1> DEFINE i == Key(c, t)
<1>0. /\ i \in Keys /\ UNCHANGED <<crs, local, objSeen>> /\ Me(c).cr = c
      /\ Me(c)' = Me(c) /\ (Live(c) <=> Live(c)') /\ local[c] \in CRStates
      /\ Content(t, local[c].spec) \in Nat /\ local[c].uid \in Nat
  <2>1. local[c] \in CRStates
    BY DEF TypeInv, TypeOK
  <2>2. local[c].uid \in Nat /\ Content(t, local[c].spec) \in Nat
    BY <2>1, MadeType DEF CRStates
  <2>3. QED BY <2>1, <2>2, KeyType DEF Touched, Me, Live
<1>1. CASE i # k
  <2>1. objs'[i] = objs[i] /\ objSeen'[i] = objSeen[i]
    BY <1>0, <1>1 DEF Touched
  <2>2. QED BY <1>0, <2>1 DEF ContentInv, MadeBy, Live
<1>2. CASE i = k
  <2>0. /\ objs[k] # NoObj => objs[k] \in [owner : Owners, made : Nat, pod : Pods]
        /\ \A d \in CRs : NoObj.owner.cr # d
        /\ objs[k].made \in Nat /\ objSeen[k].made \in Nat
    BY ObjFacts
  <2>1. ASSUME NEW d \in CRs, NEW u \in Types, Created(d, u, k) PROVE ContentInv(c, t)'
    <3>1. u = t
      BY <1>2, <2>1, KeysApart DEF Created
    <3>2. /\ objs'[k].owner = Me(d) /\ objs'[k].made = Content(t, local[d].spec)
          /\ Me(d).cr = d /\ objSeen'[k] = NoObj /\ Me(d).uid = local[d].uid
      BY <1>0, <2>1, <3>1 DEF Created, Made, Me
    <3>3. MadeBy(objs[k], c, t)'
      BY <1>0, <3>2 DEF MadeBy, Me
    <3>4. MadeBy(objSeen[k], c, t)' /\ objSeen'[k].owner.cr # c
      BY <2>0, <3>2 DEF MadeBy
    <3>5. objSeen'[k].owner # Me(c)'
      BY <1>0, <3>4
    <3>6. QED BY <1>2, <3>3, <3>4, <3>5 DEF ContentInv
  <2>2. ASSUME NEW d \in CRs, NEW u \in Types, Rewritten(d, u, k) PROVE ContentInv(c, t)'
    <3>1. u = t
      BY <1>2, <2>2, KeysApart DEF Rewritten
    <3>2. /\ objSeen[k] = objs[k] /\ objs[k] # NoObj /\ objSeen'[k] = objSeen[k]
          /\ objSeen[k].owner.cr = d /\ objSeen[k].owner.uid \in Nat
      BY <1>0, <2>0, <2>2 DEF Rewritten, TypeInv, FreshSeen, Owners
    <3>3. /\ objs'[k].owner = Me(d) /\ objs'[k].made = Content(t, local[d].spec)
          /\ Me(d).cr = d /\ Me(d).uid = local[d].uid
      BY <2>2, <3>1 DEF Rewritten, Me, Updated, Made
    <3>4. objs'[k] # NoObj
      BY <2>0, <3>3
    <3>5. CASE d = c
      <4>1. /\ objSeen[k].owner.uid <= local[c].uid
            /\ objSeen[k].owner.uid = local[c].uid =>
                 objSeen[k].made <= Content(t, local[c].spec)
        BY <1>2, <3>2, <3>3, <3>5 DEF ContentInv, MadeBy
      <4>2. MadeBy(objs[k], c, t)'
        BY <1>0, <3>3, <3>5 DEF MadeBy
      <4>3. MadeBy(objSeen[k], c, t)'
        BY <1>0, <1>2, <3>2 DEF ContentInv, MadeBy
      <4>4. QED BY <1>0, <1>2, <3>2, <3>3, <3>4, <3>5, <4>1, <4>2, <4>3 DEF ContentInv
    <3>6. CASE d # c
      <4>1. objs'[k].owner.cr # c /\ objSeen'[k].owner.cr # c
        BY <3>2, <3>3, <3>6
      <4>2. QED BY <1>0, <1>2, <4>1 DEF ContentInv, MadeBy
    <3>7. QED BY <3>5, <3>6
  <2>3. ASSUME NEW d \in CRs, Dropped(d, k) PROVE ContentInv(c, t)'
    <3>1. /\ objs'[k] = NoObj /\ objSeen'[k] = objSeen[k] /\ objSeen[k].owner = Me(d)
      BY <1>0, <2>3 DEF Dropped
    <3>2. ASSUME Me(d) = Me(c) PROVE t = "Deployment" /\ ~local[c].spec.holder
      <4>1. d = c
        BY <3>2 DEF Me
      <4>2. QED BY <1>2, <2>3, <4>1, KeysApart DEF Dropped, Types
    <3>3. MadeBy(objs[k], c, t)' /\ MadeBy(objSeen[k], c, t)'
      BY <1>0, <1>2, <2>0, <3>1 DEF MadeBy, ContentInv
    <3>4. QED BY <1>0, <1>2, <3>1, <3>2, <3>3 DEF ContentInv
  <2>4. ASSUME Collected(k) PROVE ContentInv(c, t)'
    <3>1. /\ objs'[k] = NoObj /\ objSeen'[k] = objSeen[k] /\ objs[k] # NoObj
      BY <1>0, <2>4 DEF Collected
    <3>2. objSeen[k].owner = Me(c) /\ Live(c) /\ crs[c].uid = local[c].uid => FALSE
      <4> SUFFICES ASSUME objSeen[k].owner = Me(c), Live(c), crs[c].uid = local[c].uid
                   PROVE  FALSE
        OBVIOUS
      <4>1. objs[k].owner.cr = c /\ objSeen[k].owner.uid = local[c].uid
        BY <1>0, <2>0, <3>1 DEF SeenOwner, Me
      <4>2. local[c].uid <= objs[k].owner.uid /\ objs[k].owner.uid <= local[c].uid
        BY <1>0, <1>2, <3>1, <4>1 DEF ContentInv, MadeBy
      <4>3. objs[k].owner.uid \in Nat
        BY <2>0, <3>1 DEF Owners
      <4>4. objs[k].owner.uid = crs[c].uid
        BY <1>0, <4>2, <4>3
      <4>5. QED BY <2>4, <4>1, <4>4 DEF Collected, Alive, Live
    <3>3. MadeBy(objs[k], c, t)' /\ MadeBy(objSeen[k], c, t)'
      BY <1>0, <1>2, <2>0, <3>1 DEF MadeBy, ContentInv
    <3>4. QED BY <1>0, <1>2, <3>1, <3>2, <3>3 DEF ContentInv
  <2>5. ASSUME Ticked(k) PROVE ContentInv(c, t)'
    <3>1. /\ objs[k] # NoObj /\ objs'[k].owner = objs[k].owner
          /\ objs'[k].made = objs[k].made /\ objSeen'[k] = objSeen[k]
      BY <1>0, <2>0, <2>5 DEF Ticked
    <3>2. objs'[k] # NoObj
      BY <2>0, <3>1 DEF Owners
    <3>3. QED BY <1>0, <1>2, <3>1, <3>2 DEF ContentInv, MadeBy
  <2>6. QED BY <2>1, <2>2, <2>3, <2>4, <2>5 DEF Touched
<1>3. QED BY <1>1, <1>2

\* The object the reconcile of the current version has just dealt with is in
\* place, even if only the cache said so.
LEMMA CreatePlaces ==
  ASSUME TypeInv, SeenOwner, NEW c \in CRs, NEW t \in Types, NEW next,
         t \in Wanted(local[c].spec), Live(c), crs[c].uid = local[c].uid,
         ContentInv(c, t), UNCHANGED local, CreateOrUpdate(c, t, next)
  PROVE  Placed(c, t)' \/ Fail(c) \/ Conflict(c)
<1> DEFINE k == Key(c, t)
<1>0. k \in Keys /\ Me(c)' = Me(c) /\ Me(c).cr = c /\ Me(c).uid = local[c].uid
  BY KeyType DEF Me
<1>1. CASE /\ NoPut /\ objSeen[k] # NoObj /\ objSeen[k].owner = Me(c)
           /\ objSeen[k].made = Content(t, local[c].spec)
  <2>1. objs[k] # NoObj
    <3>1. local[c].spec.rev \in Nat
      BY ReconcileAssumption DEF TypeInv, TypeOK, CRStates, SpecOK
    <3>2. SUFFICES ASSUME objs[k] = NoObj PROVE FALSE
      OBVIOUS
    <3>3. t = "Deployment" /\ (~local[c].spec.holder \/ objSeen[k].made < local[c].spec.rev)
      BY <1>1, <3>2 DEF ContentInv
    <3>4. QED BY <1>1, <3>1, <3>3 DEF Wanted, Content
  <2>2. objs[k].owner = Me(c)
    <3>1. objs[k].owner.cr = c /\ objs[k].owner \in Owners /\ local[c].uid \in Nat
      BY <1>0, <1>1, <2>1, ObjFacts DEF SeenOwner, TypeInv, TypeOK, CRStates
    <3>2. /\ local[c].uid <= objs[k].owner.uid /\ objs[k].owner.uid <= local[c].uid
          /\ objs[k].owner.uid \in Nat
      BY <1>0, <1>1, <2>1, <3>1 DEF ContentInv, MadeBy, Owners
    <3>3. objs[k].owner.uid = local[c].uid
      BY <3>1, <3>2
    <3>4. QED BY <3>1, <3>3 DEF Owners, Me
  <2>3. /\ objSeen[k].made <= objs[k].made /\ objs[k].made <= Content(t, local[c].spec)
        /\ objs[k].made \in Nat /\ objSeen[k].made \in Nat
    BY <1>0, <1>1, <2>1, <2>2, ObjFacts DEF ContentInv, MadeBy
  <2>4. objs[k].made = Content(t, local[c].spec)
    BY <1>1, <2>3
  <2>5. QED BY <1>0, <1>1, <2>2, <2>4 DEF NoPut, Placed
<1>2. CASE Put(k, Made(c, t, local[c].spec, local[c].uid))
  BY <1>0, <1>2 DEF Put, Placed, Made, Me, TypeInv, TypeOK
<1>3. CASE Put(k, Updated(objs[k], Made(c, t, local[c].spec, local[c].uid)))
  <2>1. objs'[k] = Updated(objs[k], Made(c, t, local[c].spec, local[c].uid))
    BY <1>0, <1>3 DEF Put, TypeInv, TypeOK
  <2>2. QED BY <1>0, <2>1 DEF Placed, Updated, Made, Me
<1>4. QED BY <1>1, <1>2, <1>3, CreateOrUpdateFacts DEF TypeInv

\* A write that moves on has placed its object.
LEMMA EnsurePlaces ==
  ASSUME TypeInv, SeenOwner, NEW c \in CRs, NEW t \in Types, Writes(c), step[c] = t,
         t \in Wanted(local[c].spec), Live(c), crs[c].uid = local[c].uid,
         ContentInv(c, t)
  PROVE  Placed(c, t)' \/ Fail(c) \/ Conflict(c)
<1>0. UNCHANGED local
  BY WriteFacts DEF TypeInv
<1>1. (\E next : CreateOrUpdate(c, t, next)) \/ Fail(c)
  <2>1. Ensure(c)
    BY DEF Writes, DeleteLegacyOwned, Types
  <2>2. t = "PVC" => local[c].spec.persistence
    BY DEF Wanted
  <2>3. t = "Deployment" => local[c].spec.holder
    BY DEF Wanted
  <2>4. QED BY <2>1, <2>2, <2>3 DEF Ensure
<1>2. QED BY <1>0, <1>1, CreatePlaces

\* What a reconcile of the current version works on lives.
LEMMA CurrentLives ==
  ASSUME NEW c \in CRs, VersionInv(c), c \in current, step[c] # "idle"
  PROVE  Live(c) /\ crs[c].uid = local[c].uid
  BY DEF VersionInv, Live

\* A reconcile that is past a write is still under way.
LEMMA PastIsBusy ==
  ASSUME NEW c \in CRs, NEW t \in Types, Past(c, t)
  PROVE  step[c] # "idle" /\ step[c] # "check" /\ step[c] # "ConfigMap"
  BY DEF Past, Later, Types

\* Steps that write neither objects nor resources, and take no reconcile past
\* an object.
LEMMA QuietStep ==
  ASSUME TypeInv, SyncInv, UNCHANGED <<crs, objs, local>>,
         \A k \in Keys : objSeen'[k] = objSeen[k] \/ objSeen'[k] = objs[k],
         \A c \in CRs : crSeen'[c] = crSeen[c] \/ crSeen'[c] = crs[c],
         current' \subseteq current,
         \A c \in CRs : step'[c] # "idle" => step[c] # "idle",
         \A c \in CRs, t \in Types : c \in current' /\ Past(c, t)' => Past(c, t)
  PROVE  SyncInv'
<1> SUFFICES ASSUME NEW c \in CRs
             PROVE  /\ VersionInv(c)' /\ ProgressInv(c)' /\ ReadyInv(c)'
                    /\ \A t \in Types : ContentInv(c, t)'
  BY DEF SyncInv
<1>0. /\ VersionInv(c) /\ ProgressInv(c) /\ ReadyInv(c)
      /\ \A t \in Types : ContentInv(c, t)
      /\ local[c] \in CRStates /\ crSeen[c] \in CRStates /\ crs[c] \in CRStates
  BY DEF SyncInv, TypeInv, TypeOK
<1>1. VersionInv(c)'
  BY <1>0, OlderFacts DEF VersionInv
<1>2. \A t \in Types : Placed(c, t) => Placed(c, t)'
  BY DEF Placed, Me
<1>3. \A t \in Wanted(local[c].spec) : t \in Types
  BY DEF Wanted, Types
<1>4. ProgressInv(c)'
  BY <1>0, <1>2, <1>3 DEF ProgressInv
<1>5. ReadyInv(c)'
  BY <1>0, <1>2, <1>3 DEF ReadyInv, Live, Ready, Same
<1>6. ASSUME NEW t \in Types PROVE ContentInv(c, t)'
  <2> DEFINE k == Key(c, t)
  <2>0. /\ k \in Keys /\ objs'[k] = objs[k] /\ Me(c)' = Me(c) /\ Me(c).cr = c
        /\ local' = local /\ crs' = crs /\ (Live(c)' <=> Live(c))
    BY KeyType DEF Me, Live
  <2>1. CASE objSeen'[k] = objSeen[k]
    BY <1>0, <2>0, <2>1 DEF ContentInv, MadeBy, Live
  <2>2. CASE objSeen'[k] = objs[k]
    <3>1. objs[k].made \in Nat /\ NoObj.owner.cr # c
      BY <2>0, ObjFacts
    <3>2. MadeBy(objs[k], c, t)' /\ MadeBy(objSeen[k], c, t)'
      BY <1>0, <2>0, <2>2 DEF ContentInv, MadeBy
    <3>3. /\ objSeen'[k].made <= objs'[k].made
          /\ objs'[k] # NoObj => objSeen'[k].owner.uid <= objs'[k].owner.uid
      <4>1. objs[k] # NoObj => objs[k].owner.uid \in Nat
        BY <2>0, ObjFacts DEF Owners
      <4>2. QED BY <2>0, <2>2, <3>1, <4>1
    <3>4. objSeen'[k].owner = Me(c)' => objs'[k] # NoObj
      BY <2>0, <2>2, <3>1
    <3>5. QED BY <2>0, <3>2, <3>3, <3>4 DEF ContentInv
  <2>3. QED BY <2>0, <2>1, <2>2
<1>7. QED BY <1>1, <1>4, <1>5, <1>6

\* What a write does to the resources whose reconciles stay where they are.
LEMMA TouchedElsewhere ==
  ASSUME TypeInv, SeenOwner, SyncInv, NEW k \in Keys, Touched(k), NEW c \in CRs
  PROVE  /\ ReadyInv(c)' /\ \A t \in Types : ContentInv(c, t)'
         /\ step'[c] = step[c] /\ todo'[c] = todo[c] =>
              VersionInv(c)' /\ ProgressInv(c)'
         /\ \A t \in Wanted(local[c].spec) :
              c \in current /\ Past(c, t) => Placed(c, t)'
<1>0. /\ VersionInv(c) /\ ProgressInv(c) /\ ReadyInv(c)
      /\ \A t \in Types : ContentInv(c, t)
      /\ UNCHANGED <<crs, crSeen, local, current>>
      /\ \A t \in Wanted(local[c].spec) : t \in Types
  BY DEF SyncInv, Touched, Wanted, Types
<1>1. \A t \in Types : ContentInv(c, t)'
  BY <1>0, TouchedContent
<1>2. ReadyInv(c)'
  BY <1>0, PlacedKept DEF ReadyInv, Live, Ready, Same
<1>3. ASSUME NEW t \in Wanted(local[c].spec), c \in current, Past(c, t)
      PROVE  Placed(c, t)'
  <2>1. Placed(c, t) /\ t \in Types
    BY <1>0, <1>3 DEF ProgressInv
  <2>2. Live(c) /\ crs[c].uid = local[c].uid
    BY <1>0, <1>3, <2>1, PastIsBusy, CurrentLives
  <2>3. QED BY <2>1, <2>2, PlacedKept
<1>4. ASSUME step'[c] = step[c], todo'[c] = todo[c]
      PROVE  VersionInv(c)' /\ ProgressInv(c)'
  <2>1. VersionInv(c)'
    BY <1>0, <1>4 DEF VersionInv
  <2>2. \A t \in Types : Past(c, t)' => Past(c, t)
    BY <1>4 DEF Past
  <2>3. QED BY <1>0, <1>3, <2>1, <2>2 DEF ProgressInv
<1>5. QED BY <1>1, <1>2, <1>3, <1>4

\* Where Writes takes the reconcile of c, and that nobody else moves.
LEMMA WritesMoves ==
  ASSUME TypeInv, NEW c \in CRs, Writes(c)
  PROVE  /\ \A d \in CRs \ {c} : step'[d] = step[d] /\ todo'[d] = todo[d]
         /\ step[c] # "idle"
         /\ \A t \in Types : Past(c, t)' =>
              ~Fail(c) /\ ~Conflict(c) /\ (Past(c, t) \/ step[c] = t)
<1> DEFINE next == Following[step[c]]
<1>1. /\ step[c] \in Types \cup {"oldConfigMap", "oldCronJob"}
      /\ Proceed(c, next) \/ Fail(c) \/ Conflict(c)
      /\ step \in [CRs -> Steps] /\ todo \in [CRs -> [reason : Reasons, holder : BOOLEAN]]
  BY WriteFacts DEF TypeInv, TypeOK, Outcome
<1>2. \A d \in CRs \ {c} : step'[d] = step[d] /\ todo'[d] = todo[d]
  BY <1>1 DEF Proceed, Fail, Conflict, GoTo, Report
<1>3. ASSUME NEW t \in Types, Fail(c) PROVE ~Past(c, t)'
  <2>1. step'[c] = "status" /\ todo'[c].reason = "OwnedError"
    BY <1>1, <1>3 DEF Fail, Report, GoTo
  <2>2. QED BY <2>1 DEF Past, Later, Types
<1>4. ASSUME NEW t \in Types, Conflict(c) PROVE ~Past(c, t)'
  <2>1. step'[c] = "idle"
    BY <1>1, <1>4 DEF Conflict, GoTo
  <2>2. QED BY <2>1 DEF Past, Later, Types
<1>5. ASSUME NEW t \in Types, Proceed(c, next), Past(c, t)' PROVE Past(c, t) \/ step[c] = t
  <2>1. step'[c] = next
    BY <1>1, <1>5 DEF Proceed, GoTo
  <2>2. QED BY <1>1, <1>5, <2>1 DEF Past, Later, Types, Following
<1>6. step[c] # "idle"
  BY <1>1 DEF Types
<1>7. QED BY <1>1, <1>2, <1>3, <1>4, <1>5, <1>6

\* A writing step keeps SyncInv.
LEMMA WritesStep ==
  ASSUME TypeInv, SeenOwner, SyncInv, NEW c \in CRs, Writes(c)
  PROVE  SyncInv'
<1>0. UNCHANGED <<crs, crSeen, objSeen, local, current>>
  BY WriteFacts DEF TypeInv
<1>1. ASSUME NEW t \in Wanted(local[c].spec), c \in current, Past(c, t)', ~Past(c, t)
      PROVE  Placed(c, t)'
  <2>1. t \in Types /\ VersionInv(c) /\ ContentInv(c, t)
    BY DEF SyncInv, Wanted, Types
  <2>2. step[c] = t /\ ~Fail(c) /\ ~Conflict(c) /\ step[c] # "idle"
    BY <1>1, <2>1, WritesMoves
  <2>3. Live(c) /\ crs[c].uid = local[c].uid
    BY <1>1, <2>1, <2>2, CurrentLives
  <2>4. QED BY <2>1, <2>2, <2>3, EnsurePlaces
<1>2. VersionInv(c)'
  BY <1>0, WritesMoves DEF SyncInv, VersionInv
<1>3. CASE NoPut
  <2>1. ASSUME NEW d \in CRs PROVE ProgressInv(d)'
    <3>1. \A t \in Types : Placed(d, t) => Placed(d, t)'
      BY <1>0, <1>3 DEF NoPut, Placed, Me
    <3>2. \A t \in Wanted(local[d].spec) : t \in Types
      BY DEF Wanted, Types
    <3>3. CASE d = c
      BY <1>0, <1>1, <3>1, <3>2, <3>3 DEF ProgressInv, SyncInv
    <3>4. CASE d # c
      <4>1. \A t \in Types : Past(d, t)' => Past(d, t)
        BY <3>4, WritesMoves DEF Past
      <4>2. QED BY <1>0, <3>1, <3>2, <4>1 DEF ProgressInv, SyncInv
    <3>5. QED BY <3>3, <3>4
  <2>2. ASSUME NEW d \in CRs PROVE VersionInv(d)'
    BY <1>0, <1>2, WritesMoves DEF SyncInv, VersionInv
  <2>3. ASSUME NEW d \in CRs PROVE ReadyInv(d)' /\ \A t \in Types : ContentInv(d, t)'
    <3>1. UNCHANGED <<crs, objs, local, objSeen>> /\ ReadyInv(d) /\ \A t \in Types : ContentInv(d, t)
      BY <1>0, <1>3 DEF NoPut, SyncInv
    <3>2. QED BY <3>1 DEF ReadyInv, ContentInv, MadeBy, Live, Ready, Same, Placed, Me
  <2>4. QED BY <2>1, <2>2, <2>3 DEF SyncInv
<1>4. ASSUME NEW k \in Keys, Touched(k) PROVE SyncInv'
  <2>1. ProgressInv(c)'
    BY <1>0, <1>1, <1>4, TouchedElsewhere DEF ProgressInv
  <2>2. \A d \in CRs \ {c} : VersionInv(d)' /\ ProgressInv(d)'
    BY <1>4, WritesMoves, TouchedElsewhere
  <2>3. \A d \in CRs : ReadyInv(d)' /\ \A t \in Types : ContentInv(d, t)'
    BY <1>4, TouchedElsewhere
  <2>4. QED BY <1>2, <2>1, <2>2, <2>3 DEF SyncInv
<1>5. QED BY <1>3, <1>4, WritesType DEF TypeInv

\* Nothing changes for a resource that a step is not about.
LEMMA Untouched ==
  ASSUME SyncInv, NEW d \in CRs, UNCHANGED <<objs, objSeen>>,
         crs'[d] = crs[d], crSeen'[d] = crSeen[d], local'[d] = local[d],
         step'[d] = step[d], todo'[d] = todo[d], d \in current' => d \in current
  PROVE  /\ VersionInv(d)' /\ ProgressInv(d)' /\ ReadyInv(d)'
         /\ \A t \in Types : ContentInv(d, t)'
<1>0. /\ VersionInv(d) /\ ProgressInv(d) /\ ReadyInv(d)
      /\ \A t \in Types : ContentInv(d, t)
      /\ \A t \in Wanted(local[d].spec) : t \in Types
  BY DEF SyncInv, Wanted, Types
<1>1. VersionInv(d)'
  BY <1>0 DEF VersionInv
<1>2. \A t \in Types : (Placed(d, t)' <=> Placed(d, t)) /\ (Past(d, t)' => Past(d, t))
  BY DEF Placed, Me, Past
<1>3. ProgressInv(d)' /\ ReadyInv(d)'
  BY <1>0, <1>2 DEF ProgressInv, ReadyInv, Live, Ready, Same
<1>4. \A t \in Types : ContentInv(d, t)'
  BY <1>0 DEF ContentInv, MadeBy, Live, Me
<1>5. QED BY <1>1, <1>3, <1>4

\* A reconcile that begins keeps SyncInv.
LEMMA TakeStep ==
  ASSUME TypeInv, SyncInv, NEW c \in CRs, Take(c)
  PROVE  SyncInv'
<1>0. /\ VersionInv(c) /\ ReadyInv(c) /\ \A t \in Types : ContentInv(c, t)
      /\ local[c] \in CRStates /\ crSeen[c] \in CRStates /\ crs[c] \in CRStates
  BY DEF SyncInv, TypeInv, TypeOK
<1>1. /\ UNCHANGED <<crs, objs, crSeen, objSeen>> /\ local'[c] = crSeen[c]
      /\ \A d \in CRs \ {c} : local'[d] = local[d]
      /\ \A d \in CRs \ {c} : d \in current' <=> d \in current
      /\ c \in current' => crSeen[c] = crs[c]
  BY DEF Take, TypeInv, TypeOK, FreshSeen, api, caches
<1>2. /\ \A d \in CRs \ {c} : step'[d] = step[d] /\ todo'[d] = todo[d]
      /\ step'[c] \in {"idle", "check", "status"}
      /\ step'[c] = "status" => todo'[c].reason # "Synced"
      /\ step'[c] # "idle" => crSeen[c].there /\ ~crSeen[c].deleting
  <2>1. \/ GoTo(c, "idle") /\ UNCHANGED todo
        \/ /\ crSeen[c].there /\ ~crSeen[c].deleting
           /\ \/ Report(c, "UnsupportedEngine", FALSE)
              \/ Report(c, "InvalidSpec", FALSE)
              \/ GoTo(c, "check") /\ UNCHANGED todo
    BY DEF Take
  <2>2. QED BY <2>1 DEF GoTo, Report, TypeInv, TypeOK
<1>3. VersionInv(c)'
  BY <1>0, <1>1, <1>2, OlderFacts DEF VersionInv
<1>4. ProgressInv(c)'
  <2>1. \A t \in Types : ~Past(c, t)'
    BY <1>2 DEF Past, Later, Types
  <2>2. \A t \in Wanted(local'[c].spec) : t \in Types
    BY DEF Wanted, Types
  <2>3. QED BY <2>1, <2>2 DEF ProgressInv
<1>5. ReadyInv(c)'
  <2> SUFFICES ASSUME Live(c), Ready(c)
               PROVE  /\ Same(local[c], crs[c])'
                      /\ \A t \in Wanted(local'[c].spec) : Placed(c, t)'
    BY <1>1 DEF ReadyInv, Live, Ready
  <2>1. Same(local[c], crSeen[c]) /\ Same(crSeen[c], crs[c])
    BY <1>0, OlderFacts DEF ReadyInv, VersionInv
  <2>2. \A t \in Wanted(local[c].spec) : Placed(c, t)
    BY <1>0 DEF ReadyInv
  <2>3. QED BY <1>1, <2>1, <2>2 DEF Same, Placed, Me
<1>6. ASSUME NEW t \in Types PROVE ContentInv(c, t)'
  <2> DEFINE k == Key(c, t)
  <2>0. /\ k \in Keys /\ ContentInv(c, t) /\ Older(local[c], crSeen[c])
        /\ objs[k].made \in Nat /\ objSeen[k].made \in Nat
        /\ local[c].uid \in Nat /\ crSeen[c].uid \in Nat
        /\ local[c].spec.rev \in Nat /\ crSeen[c].spec.rev \in Nat
        /\ Content(t, local[c].spec) \in Nat /\ Content(t, crSeen[c].spec) \in Nat
    BY <1>0, KeyType, ObjFacts, MadeType, ReconcileAssumption DEF VersionInv, CRStates, SpecOK
  <2>1. /\ local[c].uid <= crSeen[c].uid
        /\ local[c].uid = crSeen[c].uid => Content(t, local[c].spec) <= Content(t, crSeen[c].spec)
    BY <1>0, <2>0, OlderContent DEF Older
  <2>2. ASSUME NEW o, o.made \in Nat, o.owner.cr = c => o.owner.uid \in Nat, MadeBy(o, c, t)
        PROVE  o.owner.cr = c =>
                 /\ o.owner.uid <= crSeen[c].uid
                 /\ o.owner.uid = crSeen[c].uid => o.made <= Content(t, crSeen[c].spec)
    BY <2>0, <2>1, <2>2 DEF MadeBy
  <2>3. /\ objs[k].owner.cr = c => objs[k].owner.uid \in Nat
        /\ objSeen[k].owner.cr = c => objSeen[k].owner.uid \in Nat
    <3>1. /\ NoObj.owner.cr # c
          /\ objs[k] # NoObj => objs[k].owner \in Owners
          /\ objSeen[k] # NoObj => objSeen[k].owner \in Owners
      BY <2>0, ObjFacts
    <3>2. QED BY <3>1 DEF Owners
  <2>4. MadeBy(objs[k], c, t)' /\ MadeBy(objSeen[k], c, t)'
    BY <1>1, <2>0, <2>2, <2>3 DEF ContentInv, MadeBy
  <2>5. ASSUME objSeen[k].owner = Me(c)', Live(c), crs[c].uid = crSeen[c].uid, objs[k] = NoObj
        PROVE  t = "Deployment" /\ (~crSeen[c].spec.holder \/ objSeen[k].made < crSeen[c].spec.rev)
    <3>1. objSeen[k].owner.cr = c /\ objSeen[k].owner.uid = crSeen[c].uid
      BY <1>1, <2>5 DEF Me
    <3>2. local[c].uid = crSeen[c].uid
      BY <2>0, <2>1, <2>3, <3>1 DEF ContentInv, MadeBy
    <3>3. objSeen[k].owner = Me(c)
      BY <1>1, <2>5, <3>2 DEF Me
    <3>4. t = "Deployment" /\ (~local[c].spec.holder \/ objSeen[k].made < local[c].spec.rev)
      BY <2>0, <2>5, <3>2, <3>3 DEF ContentInv
    <3>5. objSeen[k].made <= local[c].spec.rev
      BY <2>0, <3>1, <3>2, <3>4 DEF ContentInv, MadeBy, Content
    <3>6. QED BY <2>0, <3>2, <3>4, <3>5 DEF Older
  <2>6. Live(c)' <=> Live(c)
    BY <1>1 DEF Live
  <2>7. QED BY <1>1, <2>0, <2>4, <2>5, <2>6 DEF ContentInv
<1>7. \A d \in CRs \ {c} : /\ VersionInv(d)' /\ ProgressInv(d)' /\ ReadyInv(d)'
                           /\ \A t \in Types : ContentInv(d, t)'
  BY <1>1, <1>2, Untouched
<1>8. QED BY <1>3, <1>4, <1>5, <1>6, <1>7 DEF SyncInv

\* A status that is written keeps SyncInv: Ready is written over the very
\* generation that was placed.
LEMMA SetStatusStep ==
  ASSUME TypeInv, SyncInv, NEW c \in CRs, SetStatus(c)
  PROVE  SyncInv'
<1>0. /\ step[c] = "status" /\ step' = [step EXCEPT ![c] = "idle"]
      /\ UNCHANGED <<objs, crSeen, objSeen, local, todo>>
      /\ step \in [CRs -> Steps] /\ crs \in [CRs -> CRStates]
      /\ \/ UNCHANGED <<crs, current>>
         \/ /\ c \in current
            /\ crs' = [crs EXCEPT ![c].reason = todo[c].reason,
                                  ![c].holder = todo[c].holder,
                                  ![c].observed = local[c].gen]
            /\ current' = current \ {c}
  BY SetStatusType DEF TypeInv, TypeOK
<1>1. \A t \in Types : ~Past(c, t)'
  BY <1>0 DEF Past, Later, Types
<1>2. CASE UNCHANGED <<crs, current>>
  <2>1. \A d \in CRs : step'[d] # "idle" => step[d] # "idle"
    BY <1>0
  <2>2. \A d \in CRs, t \in Types : Past(d, t)' => Past(d, t)
    BY <1>0, <1>1 DEF Past
  <2>3. QED BY <1>0, <1>2, <2>1, <2>2, QuietStep
<1>3. CASE /\ c \in current
           /\ crs' = [crs EXCEPT ![c].reason = todo[c].reason,
                                 ![c].holder = todo[c].holder,
                                 ![c].observed = local[c].gen]
           /\ current' = current \ {c}
  <2>1. /\ crs'[c].uid = crs[c].uid /\ crs'[c].spec = crs[c].spec
        /\ crs'[c].gen = crs[c].gen /\ crs'[c].reason = todo[c].reason
        /\ crs'[c].observed = local[c].gen
        /\ crs'[c].there = crs[c].there /\ crs'[c].deleting = crs[c].deleting
        /\ \A d \in CRs \ {c} : crs'[d] = crs[d]
    BY <1>0, <1>3 DEF CRStates
  <2>2. /\ VersionInv(c) /\ ProgressInv(c) /\ local[c] = crs[c]
        /\ \A t \in Types : ContentInv(c, t)
        /\ crs[c] \in CRStates
    BY <1>3 DEF SyncInv, VersionInv, TypeInv, TypeOK
  <2>3. VersionInv(c)'
    <3>1. c \notin current' /\ step'[c] = "idle" /\ UNCHANGED <<local, crSeen>>
      BY <1>0, <1>3
    <3>2. crs'[c].observed <= crs'[c].gen
      BY <2>1, <2>2 DEF CRStates
    <3>3. QED BY <2>1, <2>2, <3>1, <3>2 DEF VersionInv, Older
  <2>4. ProgressInv(c)'
    BY <1>3 DEF ProgressInv
  <2>5. ReadyInv(c)'
    <3> SUFFICES ASSUME Ready(c)'
                 PROVE  /\ Same(local[c], crs[c])'
                        /\ \A t \in Wanted(local'[c].spec) : Placed(c, t)'
      BY DEF ReadyInv
    <3>1. todo[c].reason = "Synced"
      BY <2>1 DEF Ready
    <3>2. \A t \in Wanted(local[c].spec) : Placed(c, t)
      BY <1>0, <1>3, <2>2, <3>1 DEF ProgressInv, Past
    <3>3. QED BY <1>0, <2>1, <2>2, <3>2 DEF Same, Placed, Me
  <2>6. ASSUME NEW t \in Types PROVE ContentInv(c, t)'
    <3>1. Live(c)' <=> Live(c)
      BY <2>1 DEF Live
    <3>2. Me(c)' = Me(c) /\ UNCHANGED <<objs, objSeen, local>>
      BY <1>0 DEF Me
    <3>3. QED BY <2>1, <2>2, <3>1, <3>2 DEF ContentInv, MadeBy
  <2>7. \A d \in CRs \ {c} : /\ VersionInv(d)' /\ ProgressInv(d)' /\ ReadyInv(d)'
                             /\ \A t \in Types : ContentInv(d, t)'
    BY <1>0, <1>3, <2>1, Untouched
  <2>8. QED BY <2>3, <2>4, <2>5, <2>6, <2>7 DEF SyncInv
<1>4. QED BY <1>0, <1>2, <1>3

\* A user's edit, which always makes a new revision, keeps SyncInv.
LEMMA UserStep ==
  ASSUME "revert" \notin Faults, TypeInv, SyncInv, NEW c \in CRs, UserWrites(c)
  PROVE  SyncInv'
<1>1. PICK r \in CRStates :
        /\ SetCR(c, r)
        /\ \/ /\ ~crs[c].there /\ r.uid = crs[c].uid + 1
              /\ r.gen = 1 /\ r.observed = 0 /\ r.reason = "none"
           \/ /\ crs[c].there /\ ~crs[c].deleting /\ r.uid = crs[c].uid
              /\ r.spec.rev > crs[c].spec.rev
              /\ r.gen = crs[c].gen + 1 /\ r.observed = crs[c].observed
           \/ /\ r.uid = crs[c].uid /\ r.spec = crs[c].spec
              /\ r.gen = crs[c].gen /\ r.observed = crs[c].observed
              /\ ~r.there \/ r.deleting
  BY UserFacts DEF TypeInv
<1>2. /\ crs'[c] = r /\ \A d \in CRs \ {c} : crs'[d] = crs[d]
      /\ current' = current \ {c}
      /\ UNCHANGED <<objs, crSeen, objSeen, step, local, todo>>
  BY <1>1 DEF SetCR, TypeInv, TypeOK
<1>3. /\ VersionInv(c) /\ \A t \in Types : ContentInv(c, t)
      /\ local[c] \in CRStates /\ crSeen[c] \in CRStates /\ crs[c] \in CRStates
  BY DEF SyncInv, TypeInv, TypeOK
<1>4. /\ crs[c].uid \in Nat /\ crs[c].gen \in Nat /\ crs[c].observed \in Nat
      /\ crSeen[c].uid \in Nat /\ local[c].uid \in Nat /\ local[c].uid <= crs[c].uid
      /\ crs[c].spec.rev \in Nat /\ r.spec.rev \in Nat
  <2>1. /\ crs[c].uid \in Nat /\ crs[c].gen \in Nat /\ crs[c].observed \in Nat
        /\ crSeen[c].uid \in Nat /\ local[c].uid \in Nat
        /\ crs[c].spec.rev \in Nat /\ r.spec.rev \in Nat
    BY <1>3, ReconcileAssumption DEF CRStates, SpecOK
  <2>2. QED BY <1>3, <2>1 DEF VersionInv, Older
<1>5. VersionInv(c)'
  <2>1. Older(crs[c], r) /\ r.observed <= r.gen
    BY <1>1, <1>3, <1>4 DEF Older, VersionInv
  <2>2. Older(crSeen[c], r)
    BY <1>3, <2>1, OlderFacts DEF VersionInv
  <2>3. QED BY <1>2, <1>3, <2>1, <2>2 DEF VersionInv
<1>6. ProgressInv(c)'
  BY <1>2 DEF ProgressInv
<1>7. ReadyInv(c)'
  BY <1>1, <1>2, <1>3, <1>4 DEF ReadyInv, Live, Ready, VersionInv
<1>8. ASSUME NEW t \in Types PROVE ContentInv(c, t)'
  <2>1. Live(c)' /\ crs'[c].uid = local'[c].uid => Live(c) /\ crs[c].uid = local[c].uid
    BY <1>1, <1>2, <1>4 DEF Live
  <2>2. QED BY <1>2, <1>3, <2>1 DEF ContentInv, MadeBy, Me
<1>9. \A d \in CRs \ {c} : /\ VersionInv(d)' /\ ProgressInv(d)' /\ ReadyInv(d)'
                           /\ \A t \in Types : ContentInv(d, t)'
  BY <1>2, Untouched
<1>10. QED BY <1>5, <1>6, <1>7, <1>8, <1>9 DEF SyncInv

\* SyncInv is inductive.
LEMMA SyncStep ==
  ASSUME "revert" \notin Faults
  PROVE  TypeInv /\ SeenOwner /\ SyncInv /\ [Next]_vars => SyncInv'
<1> SUFFICES ASSUME TypeInv, SeenOwner, SyncInv, [Next]_vars PROVE SyncInv'
  OBVIOUS
<1>1. ASSUME NEW k \in Keys, ClusterWrites(k) PROVE SyncInv'
  <2>1. Touched(k) /\ UNCHANGED <<step, todo>>
    BY <1>1, ClusterType DEF TypeInv, worker
  <2>2. QED BY <2>1, TouchedElsewhere DEF SyncInv
<1>2. ASSUME NEW c \in CRs, Check(c) PROVE SyncInv'
  <2>1. /\ UNCHANGED <<crs, objs, local, objSeen, crSeen, current>> /\ step[c] = "check"
        /\ \A d \in CRs \ {c} : todo'[d] = todo[d]
    BY <1>2 DEF Check, api, caches, Report, TypeInv, TypeOK
  <2>2. \/ step' = [step EXCEPT ![c] = "ConfigMap"]
        \/ step' = [step EXCEPT ![c] = "status"] /\ todo'[c].reason # "Synced"
    BY <1>2, CheckType DEF TypeInv
  <2>3. \A d \in CRs : step'[d] # "idle" => step[d] # "idle"
    BY <2>1, <2>2 DEF TypeInv, TypeOK
  <2>4. \A t \in Types : ~Past(c, t)'
    <3>1. \/ step'[c] = "ConfigMap"
          \/ step'[c] = "status" /\ todo'[c].reason # "Synced"
      BY <2>2 DEF TypeInv, TypeOK
    <3>2. QED BY <3>1 DEF Past, Later, Types
  <2>5. \A d \in CRs \ {c}, t \in Types : Past(d, t)' => Past(d, t)
    BY <2>1, <2>2 DEF Past, TypeInv, TypeOK
  <2>6. QED BY <2>1, <2>3, <2>4, <2>5, QuietStep
<1>3. ASSUME NEW c \in CRs, Available(c) PROVE SyncInv'
  <2>1. /\ UNCHANGED <<crs, objs, local, objSeen, crSeen, current>>
        /\ step[c] = "available" /\ step' = [step EXCEPT ![c] = "status"]
    BY <1>3, AvailableType DEF Available, api, caches, TypeInv
  <2>2. \A d \in CRs \ {c} : todo'[d] = todo[d]
    BY <1>3 DEF Available, Report, TypeInv, TypeOK
  <2>3. \A d \in CRs : step'[d] # "idle" => step[d] # "idle"
    BY <2>1 DEF TypeInv, TypeOK
  <2>4. \A d \in CRs, t \in Types : Past(d, t)' => Past(d, t)
    BY <2>1, <2>2 DEF Past, TypeInv, TypeOK
  <2>5. QED BY <2>1, <2>3, <2>4, QuietStep
<1>4. ASSUME NEW c \in CRs, CallFails(c) PROVE SyncInv'
  <2>1. UNCHANGED <<crs, objs, local, objSeen, crSeen, current>> /\ Fail(c) /\ step[c] # "idle"
    BY <1>4, CallFailsType DEF CallFails, Types, api, caches, TypeInv
  <2>2. /\ step' = [step EXCEPT ![c] = "status"] /\ todo'[c].reason = "OwnedError"
        /\ \A d \in CRs \ {c} : todo'[d] = todo[d]
    BY <2>1 DEF Fail, Report, GoTo, TypeInv, TypeOK
  <2>3. \A d \in CRs : step'[d] # "idle" => step[d] # "idle"
    BY <2>1, <2>2 DEF TypeInv, TypeOK
  <2>4. \A d \in CRs, t \in Types : Past(d, t)' => Past(d, t)
    <3>1. step'[c] = "status" /\ \A d \in CRs \ {c} : step'[d] = step[d]
      BY <2>2 DEF TypeInv, TypeOK
    <3>2. \A t \in Types : ~Past(c, t)'
      BY <2>2, <3>1 DEF Past, Later, Types
    <3>3. \A d \in CRs \ {c}, t \in Types : Past(d, t)' => Past(d, t)
      BY <2>2, <3>1 DEF Past
    <3>4. QED BY <3>2, <3>3
  <2>5. QED BY <2>1, <2>3, <2>4, QuietStep
<1>5. CASE Informers
  <2>1. /\ UNCHANGED <<crs, objs, local, step, todo, current>>
        /\ \A k \in Keys : objSeen'[k] = objSeen[k] \/ objSeen'[k] = objs[k]
        /\ \A c \in CRs : crSeen'[c] = crSeen[c] \/ crSeen'[c] = crs[c]
    BY <1>5, SyncType DEF api, worker, TypeInv
  <2>2. \A d \in CRs, t \in Types : Past(d, t)' => Past(d, t)
    BY <2>1 DEF Past
  <2>3. QED BY <2>1, <2>2, QuietStep
<1>6. CASE PreSteps \/ UNCHANGED vars
  <2>1. UNCHANGED <<crs, objs, local, objSeen, crSeen, step, todo, current>>
    BY <1>6, PreType DEF TypeInv, caches, worker, vars, api
  <2>2. \A d \in CRs, t \in Types : Past(d, t)' => Past(d, t)
    BY <2>1 DEF Past
  <2>3. QED BY <2>1, <2>2, QuietStep
<1>7. CASE Crash
  <2>1. /\ UNCHANGED <<crs, objs, local>> /\ objSeen' = objs /\ crSeen' = crs
        /\ current' = {} /\ step' = [c \in CRs |-> "idle"]
    BY <1>7 DEF Crash, api
  <2>2. \A d \in CRs : step'[d] = "idle"
    BY <2>1
  <2>3. QED BY <2>1, <2>2, QuietStep
<1>8. QED
  BY <1>1, <1>2, <1>3, <1>4, <1>5, <1>6, <1>7, NextCases,
     TakeStep, WritesStep, SetStatusStep, UserStep

\* No two resources share the name of an object.
OwnNames == \A c \in CRs, d \in CRs : \A t \in Types : Key(c, t) = Key(d, t) => c = d

\* In the beginning a resource has what it asks for, if it begins synced, and
\* otherwise nothing: what carries the name of an object of its, if anything,
\* is an object of the old name of another resource.
LEMMA InitSync ==
  ASSUME Start = "synced" => OwnNames
  PROVE  Init => SyncInv
<1> SUFFICES ASSUME Init PROVE SyncInv
  OBVIOUS
<1>0. TypeInv
  BY InitType
<1>1. PICK s \in [CRs -> Specs] :
        crs = [c \in CRs |->
                 CASE Start = "absent" -> [NewCR(s[c], 0) EXCEPT !.there = FALSE]
                   [] Start = "new"    -> NewCR(s[c], 1)
                   [] OTHER            -> Synced(c, s[c])]
  BY DEF Init
<1>2. ASSUME NEW c \in CRs
      PROVE  /\ crs[c].observed <= crs[c].gen
             /\ Start # "synced" => crs[c].reason = "none"
             /\ Start = "synced" => crs[c].uid = 1
  <2>1. CASE Start = "absent"
    BY <1>1, <2>1 DEF NewCR
  <2>2. CASE Start = "new"
    BY <1>1, <2>2 DEF NewCR
  <2>3. CASE Start = "synced"
    <3>1. crs[c] = Synced(c, s[c])
      BY <1>1, <2>3
    <3> DEFINE n == NewCR(s[c], 1)
    <3>2. n \in CRStates /\ n.uid = 1 /\ n.gen = 1
      BY DEF NewCR, CRStates, Reasons
    <3>3. crs[c] = [n EXCEPT !.reason = "Synced", !.observed = 1, !.holder = s[c].holder]
      BY <3>1 DEF Synced
    <3> HIDE DEF n
    <3>4. crs[c].uid = 1 /\ crs[c].gen = 1 /\ crs[c].observed = 1
      BY <3>2, <3>3 DEF CRStates
    <3>5. QED BY <2>3, <3>4
  <2>4. QED BY <2>1, <2>2, <2>3, ReconcileAssumption
<1>3. ASSUME NEW c \in CRs, NEW t \in Types
      PROVE  \/ objs[Key(c, t)].owner.cr # c /\ (Start # "synced" \/ t \notin Wanted(crs[c].spec))
             \/ /\ Start = "synced" /\ objs[Key(c, t)] # NoObj
                /\ objs[Key(c, t)].owner = [cr |-> c, uid |-> 1]
                /\ objs[Key(c, t)].made = Content(t, crs[c].spec)
  <2> DEFINE k == Key(c, t)
             asked == \E e \in CRs : Start = "synced" /\ k.type \in Wanted(crs[e].spec)
                                                      /\ k = Key(e, k.type)
             old == \E e \in Legacy, u \in {"ConfigMap", "CronJob"} : k = LegacyKey(e, u)
  <2>0. k \in Keys /\ k.type = t
    BY KeyType DEF Key
  <2>1. CASE asked
    <3> DEFINE d == CHOOSE d \in CRs : k = Key(d, k.type)
    <3>1. d \in CRs /\ k = Key(d, t)
      BY <2>0
    <3>2. objs[k] = [Made(d, k.type, crs[d].spec, 1) EXCEPT !.pod = "up"]
      BY <2>0, <2>1 DEF Init
    <3> HIDE DEF d
    <3>3. d = c
      BY <2>1, <3>1 DEF OwnNames
    <3>4. /\ objs[k].owner = [cr |-> c, uid |-> 1]
          /\ objs[k].made = Content(t, crs[c].spec)
      BY <2>0, <3>2, <3>3 DEF Made
    <3>5. objs[k] # NoObj
      BY <1>0, <2>0, <3>4, ObjFacts
    <3>6. QED BY <2>1, <3>4, <3>5
  <2>2. CASE ~asked /\ old
    <3> DEFINE d == CHOOSE d \in Legacy : k = LegacyKey(d, k.type)
    <3>1. PICK e \in Legacy, u \in {"ConfigMap", "CronJob"} : k = LegacyKey(e, u)
      BY <2>2
    <3>2. u = k.type
      BY <3>1 DEF LegacyKey
    <3>3. d \in Legacy /\ k = LegacyKey(d, u) /\ d \in CRs
      BY <3>1, <3>2, ReconcileAssumption
    <3>4. objs[k] = Made(d, k.type, crs[d].spec, 1)
      BY <2>0, <2>2 DEF Init
    <3> HIDE DEF d
    <3>5. d # c
      BY <3>3, KeysApart
    <3>6. QED BY <2>0, <2>2, <3>4, <3>5 DEF Made
  <2>3. CASE ~asked /\ ~old
    <3>1. objs[k] = NoObj
      BY <2>0, <2>3 DEF Init
    <3>2. QED BY <1>0, <2>0, <2>3, <3>1, ObjFacts
  <2>4. QED BY <2>1, <2>2, <2>3
<1>4. crSeen = crs /\ local = crs /\ objSeen = objs /\ current = {} /\ step = [c \in CRs |-> "idle"]
  BY DEF Init
<1>5. ASSUME NEW c \in CRs
      PROVE  /\ VersionInv(c) /\ ProgressInv(c) /\ ReadyInv(c)
             /\ \A t \in Types : ContentInv(c, t)
  <2>0. crs[c] \in CRStates /\ crs[c].spec.rev \in Nat /\ crs[c].uid \in Nat
    BY <1>0, ReconcileAssumption DEF TypeInv, TypeOK, CRStates, SpecOK
  <2>1. VersionInv(c)
    BY <1>2, <1>4, <2>0, OlderFacts DEF VersionInv
  <2>2. ProgressInv(c) /\ ReadyInv(c)
    <3>1. ASSUME Ready(c), NEW t \in Wanted(local[c].spec) PROVE Placed(c, t)
      <4>1. Start = "synced" /\ t \in Types /\ crs[c].uid = 1
        BY <1>2, <3>1 DEF Ready, Wanted, Types
      <4>2. QED BY <1>3, <1>4, <4>1 DEF Placed, Me
    <3>2. QED BY <1>4, <3>1 DEF ProgressInv, ReadyInv, Same
  <2>3. ASSUME NEW t \in Types PROVE ContentInv(c, t)
    <3> DEFINE o == objs[Key(c, t)]
    <3>1. CASE o.owner.cr # c
      BY <1>4, <3>1 DEF ContentInv, MadeBy, Me
    <3>2. CASE /\ Start = "synced" /\ o # NoObj /\ o.owner = [cr |-> c, uid |-> 1]
               /\ o.made = Content(t, crs[c].spec)
      <4>1. o.made \in Nat /\ crs[c].uid = 1
        BY <1>2, <2>0, <3>2 DEF Content
      <4>2. QED BY <1>4, <3>2, <4>1 DEF ContentInv, MadeBy
    <3>3. QED BY <1>3, <3>1, <3>2
  <2>4. QED BY <2>1, <2>2, <2>3
<1>6. QED BY <1>5 DEF SyncInv

\* A Ready that observed the current generation speaks of objects that are
\* there, are the resource's own and have the content of its spec.  An edit
\* that brings an earlier revision back is left out: a cached object of that
\* revision then passes for current.  Resources that share a name cannot both
\* begin synced.
THEOREM ReadyIsTrue ==
  ASSUME "revert" \notin Faults, Start = "synced" => OwnNames
  PROVE  Spec => []ReadyMeansSynced
<1>1. Init => SeenOwner
  BY DEF Init, SeenOwner
<1>2. SyncInv => ReadyMeansSynced
  BY DEF SyncInv, ReadyInv, ReadyMeansSynced, InPlace, Same, Placed, Me
<1>3. QED
  BY <1>1, <1>2, InitType, InitSync, TypeStep, OwnerStep, SyncStep, PTL DEF Spec

---------------------------------------------------------------------------
(* Ready waits for the holder.  It is the cached holder that is asked.     *)

\* A reconcile of the current version is about to report Ready with a holder.
Reporting(c) == /\ c \in current /\ local[c].spec.holder
                /\ step[c] = "status" /\ todo[c].reason = "Synced"
HolderAll == \A c \in CRs : HolderInv(c)

\* Only Available makes a reconcile report Ready.
LEMMA ReportingCases ==
  ASSUME TypeInv, [Next]_vars, NEW c \in CRs, Reporting(c)', ~Available(c)
  PROVE  Reporting(c)
<1> USE DEF Reporting
<1>0. step \in [CRs -> Steps] /\ todo \in [CRs -> [reason : Reasons, holder : BOOLEAN]]
  BY DEF TypeInv, TypeOK
<1>1. ASSUME NEW d \in CRs, Take(d) PROVE Reporting(c)
  <2>1. /\ \A e \in CRs \ {d} : local'[e] = local[e] /\ (e \in current' <=> e \in current)
        /\ \A e \in CRs \ {d} : step'[e] = step[e] /\ todo'[e] = todo[e]
        /\ step'[d] = "status" => todo'[d].reason # "Synced"
    BY <1>0, <1>1 DEF Take, GoTo, Report, TypeInv, TypeOK
  <2>2. QED BY <2>1
<1>2. ASSUME NEW d \in CRs, Check(d) PROVE Reporting(c)
  <2>1. UNCHANGED <<local, current>> /\ \A e \in CRs \ {d} : step'[e] = step[e] /\ todo'[e] = todo[e]
    BY <1>0, <1>2 DEF Check, GoTo, Report
  <2>2. step'[d] = "status" => todo'[d].reason # "Synced"
    BY <1>0, <1>2, CheckType DEF TypeInv
  <2>3. QED BY <2>1, <2>2
<1>3. ASSUME NEW d \in CRs, Writes(d) PROVE Reporting(c)
  <2>1. UNCHANGED <<local, current>> /\ \A e \in CRs \ {d} : step'[e] = step[e] /\ todo'[e] = todo[e]
    BY <1>3, WriteFacts, WritesMoves DEF TypeInv
  <2>2. \/ step'[d] = Following[step[d]] \/ step'[d] = "idle"
        \/ step'[d] = "status" /\ todo'[d].reason = "OwnedError"
    BY <1>0, <1>3, WriteFacts DEF TypeInv, Outcome, Proceed, Fail, Conflict, GoTo, Report
  <2>3. Following[step[d]] # "status"
    BY <1>3, WriteFacts DEF TypeInv, Following, Types
  <2>4. QED BY <2>1, <2>2, <2>3
<1>4. ASSUME NEW d \in CRs, d # c, Available(d) PROVE Reporting(c)
  BY <1>0, <1>4 DEF Available, GoTo, Report
<1>5. ASSUME NEW d \in CRs, SetStatus(d) PROVE Reporting(c)
  BY <1>0, <1>5, SetStatusType DEF TypeInv
<1>6. ASSUME NEW d \in CRs, CallFails(d) PROVE Reporting(c)
  BY <1>0, <1>6 DEF CallFails, Fail, Report, GoTo
<1>7. ASSUME NEW d \in CRs, UserWrites(d) PROVE Reporting(c)
  <2>1. PICK r \in CRStates : SetCR(d, r)
    BY <1>7, UserFacts DEF TypeInv
  <2>2. QED BY <2>1 DEF SetCR
<1>8. ASSUME NEW k \in Keys, ClusterWrites(k) PROVE Reporting(c)
  BY <1>8, ClusterType DEF TypeInv, worker
<1>9. CASE Informers \/ PreSteps
  BY <1>9, SyncType, PreType DEF TypeInv, worker
<1>10. CASE Crash
  BY <1>10 DEF Crash
<1>11. CASE UNCHANGED vars
  BY <1>11 DEF vars, worker
<1>12. QED
  BY <1>1, <1>2, <1>3, <1>4, <1>5, <1>6, <1>7, <1>8, <1>9, <1>10, <1>11, NextCases

\* A holder the cache shows to have been available has been.
LEMMA SeenUpStep == TypeInv /\ SeenUp /\ [Next]_vars => SeenUp'
<1> SUFFICES ASSUME TypeInv, SeenUp, [Next]_vars, NEW i \in Keys,
                    objSeen'[i].pod # "no", objs'[i] # NoObj
             PROVE  objs'[i].pod # "no"
  BY DEF SeenUp
<1>1. ASSUME NEW k \in Keys, Touched(k) PROVE objs'[i].pod # "no"
  <2>0. objSeen'[i] = objSeen[i]
    BY <1>1 DEF Touched
  <2>1. CASE i # k
    BY <1>1, <2>0, <2>1 DEF Touched, SeenUp
  <2>2. CASE i = k
    <3>0. objs[k] # NoObj => objs[k] \in [owner : Owners, made : Nat, pod : Pods] /\ objs[k].pod # "no"
      BY <2>0, <2>2, ObjFacts DEF SeenUp
    <3>1. ASSUME NEW c \in CRs, NEW t \in Types, Created(c, t, k) PROVE FALSE
      BY <2>0, <2>2, <3>1 DEF Created, NoObj
    <3>2. ASSUME NEW c \in CRs, NEW t \in Types, Rewritten(c, t, k) PROVE objs'[k].pod # "no"
      <4>1. objs[k] # NoObj
        BY <3>2 DEF Rewritten, TypeInv, FreshSeen
      <4>2. QED BY <3>0, <3>2, <4>1 DEF Rewritten, Updated
    <3>3. ASSUME Ticked(k) PROVE objs'[k].pod # "no"
      <4>1. objs[k] \in [owner : Owners, made : Nat, pod : Pods] /\ objs[k].pod # "no"
        BY <3>0, <3>3 DEF Ticked
      <4>2. PICK b \in Pods : /\ objs'[k] = [objs[k] EXCEPT !.pod = b]
                              /\ b = "no" => objs[k].pod = "no"
        BY <3>3 DEF Ticked
      <4>3. objs'[k].pod = b
        BY <4>1, <4>2
      <4>4. QED BY <4>1, <4>2, <4>3
    <3>4. QED BY <1>1, <2>2, <3>1, <3>2, <3>3 DEF Touched, Dropped, Collected
  <2>3. QED BY <2>1, <2>2
<1>2. CASE /\ UNCHANGED objs
           /\ \A k \in Keys : objSeen'[k] = objSeen[k] \/ objSeen'[k] = objs[k]
  BY <1>2 DEF SeenUp
<1>3. QED BY <1>1, <1>2, ObjCases

\* HolderAll is inductive.
LEMMA HolderStep ==
  TypeInv /\ SeenOwner /\ SyncInv /\ SeenUp /\ HolderAll /\ [Next]_vars => HolderAll'
<1> SUFFICES ASSUME TypeInv, SeenOwner, SyncInv, SeenUp, HolderAll, [Next]_vars,
                    NEW c \in CRs, Reporting(c)'
             PROVE  objs'[Key(c, "Deployment")].pod # "no"
  BY DEF HolderAll, HolderInv, Reporting
<1> DEFINE k == Key(c, "Deployment")
<1>0. k \in Keys /\ "Deployment" \in Types
  BY KeyType DEF Types
<1>1. CASE Available(c)
  <2>1. /\ UNCHANGED <<objs, local, current>> /\ step[c] = "available"
        /\ objSeen[k].pod # "no"
    BY <1>1, AvailableType DEF Available, api, TypeInv, Reporting, HasPod
  <2>2. "Deployment" \in Wanted(local[c].spec) /\ Past(c, "Deployment") /\ c \in current
    BY <2>1 DEF Wanted, Reporting, Past
  <2>3. Placed(c, "Deployment")
    BY <2>2 DEF SyncInv, ProgressInv
  <2>4. objs[k] # NoObj
    BY <1>0, <2>3, ObjFacts DEF Placed, Me
  <2>5. QED BY <1>0, <2>1, <2>4 DEF SeenUp
<1>2. CASE ~Available(c)
  <2>1. Reporting(c)
    BY <1>2, ReportingCases
  <2>2. objs[k].pod # "no"
    BY <2>1 DEF HolderAll, HolderInv, Reporting
  <2>3. /\ "Deployment" \in Wanted(local[c].spec) /\ Past(c, "Deployment")
        /\ VersionInv(c) /\ c \in current /\ step[c] # "idle"
    BY <2>1 DEF Wanted, Reporting, Past, SyncInv
  <2>4. Placed(c, "Deployment") /\ Live(c) /\ crs[c].uid = local[c].uid
    BY <2>3, CurrentLives DEF SyncInv, ProgressInv
  <2>5. ASSUME NEW i \in Keys, Touched(i) PROVE objs'[k].pod # "no"
    BY <1>0, <2>2, <2>3, <2>4, <2>5, PlacedKept
  <2>6. QED BY <2>2, <2>5, ObjCases
<1>3. QED BY <1>1, <1>2

\* When Ready is written for a resource that asks for a holder, the holder is
\* there and has been available.
THEOREM HolderIsFirst ==
  ASSUME "revert" \notin Faults, Start = "synced" => OwnNames
  PROVE  Spec => HolderFirst
<1>1. Init => SeenOwner /\ SeenUp /\ HolderAll
  BY DEF Init, SeenOwner, SeenUp, HolderAll, HolderInv
<1>2. TypeInv /\ SyncInv /\ HolderAll /\ [Next]_vars =>
        \A c \in CRs :
          TurnsReady(c) /\ crs[c].spec.holder
            => /\ objs[Key(c, "Deployment")] # NoObj
               /\ objs[Key(c, "Deployment")].pod # "no"
  <2> SUFFICES ASSUME TypeInv, SyncInv, HolderAll, [Next]_vars, NEW c \in CRs,
                      TurnsReady(c), crs[c].spec.holder
               PROVE  objs[Key(c, "Deployment")].pod # "no"
    BY DEF NoObj
  <2>0. crs \in [CRs -> CRStates] /\ crs[c] \in CRStates /\ crs'[c] # crs[c]
    BY DEF TypeInv, TypeOK, TurnsReady
  <2>1. ASSUME NEW d \in CRs, SetStatus(d) PROVE objs[Key(c, "Deployment")].pod # "no"
    <3>1. /\ d \in current /\ step[d] = "status"
          /\ crs' = [crs EXCEPT ![d].reason = todo[d].reason,
                                ![d].holder = todo[d].holder,
                                ![d].observed = local[d].gen]
      BY <2>0, <2>1, SetStatusType DEF TypeInv
    <3>2. d = c /\ todo[c].reason = "Synced"
      <4>1. d = c
        BY <2>0, <3>1
      <4>2. crs'[c].reason = todo[c].reason
        BY <2>0, <3>1, <4>1 DEF CRStates
      <4>3. QED BY <4>1, <4>2 DEF TurnsReady
    <3>3. local[c] = crs[c]
      BY <3>1, <3>2 DEF SyncInv, VersionInv
    <3>4. QED BY <3>1, <3>2, <3>3 DEF HolderAll, HolderInv
  <2>2. ASSUME NEW d \in CRs, UserWrites(d) PROVE FALSE
    <3>1. ASSUME NEW r, SetCR(d, r) PROVE crs'[d] = r /\ \A e \in CRs \ {d} : crs'[e] = crs[e]
      BY <2>0, <3>1 DEF SetCR
    <3>2. d = c
      BY <2>0, <2>2, <3>1, UserFacts DEF TypeInv
    <3>3. ASSUME NEW s \in Specs, Create(d, s) PROVE crs'[d].reason = "none"
      BY <3>1, <3>3 DEF Create, NewCR
    <3>4. ASSUME NEW s \in Specs, Edit(d, s)
          PROVE  crs'[d].reason = crs[d].reason /\ crs'[d].observed = crs[d].observed
      <4>1. crs'[d] = [crs[d] EXCEPT !.spec = s, !.gen = @ + 1]
        BY <3>1, <3>4 DEF Edit
      <4>2. QED BY <2>0, <3>2, <4>1 DEF CRStates
    <3>5. ASSUME Delete(d)
          PROVE  crs'[d].reason = crs[d].reason /\ crs'[d].observed = crs[d].observed
      <4>1. \/ crs'[d] = [crs[d] EXCEPT !.there = FALSE]
            \/ crs'[d] = [crs[d] EXCEPT !.deleting = TRUE]
        BY <3>1, <3>5 DEF Delete
      <4>2. QED BY <2>0, <3>2, <4>1 DEF CRStates
    <3>6. ASSUME Finalize(d)
          PROVE  crs'[d].reason = crs[d].reason /\ crs'[d].observed = crs[d].observed
      <4>1. crs'[d] = [crs[d] EXCEPT !.there = FALSE, !.deleting = FALSE]
        BY <3>1, <3>6 DEF Finalize
      <4>2. QED BY <2>0, <3>2, <4>1 DEF CRStates
    <3>7. QED
      BY <2>2, <3>2, <3>3, <3>4, <3>5, <3>6 DEF UserWrites, TurnsReady
  <2>3. ASSUME NEW d \in CRs,
               Take(d) \/ Check(d) \/ Writes(d) \/ Available(d) \/ CallFails(d)
        PROVE  FALSE
    BY <2>0, <2>3, WriteFacts DEF Take, Check, Available, CallFails, api, TypeInv
  <2>4. ASSUME NEW k \in Keys, ClusterWrites(k) PROVE FALSE
    BY <2>0, <2>4, ClusterType DEF TypeInv, Touched
  <2>5. ~(Informers \/ PreSteps \/ Crash \/ UNCHANGED vars)
    BY <2>0, SyncType, PreType DEF TypeInv, Crash, api, vars
  <2>6. QED BY <2>1, <2>2, <2>3, <2>4, <2>5, NextCases
<1>3. QED
  BY <1>1, <1>2, InitType, InitSync, TypeStep, OwnerStep, SyncStep, SeenUpStep,
     HolderStep, PTL DEF Spec, HolderFirst
=============================================================================
