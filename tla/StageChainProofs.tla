------------------------- MODULE StageChainProofs -------------------------
(* Lemmas about StageChain that the proofs about both pipelines use.  PCs   *)
(* is the set of program counters of a pipeline.                           *)
EXTENDS StageChain, TLAPS

\* The markers of the stages are markers, and a pod has a cleanup stage.
LEMMA AfterType ==
  /\ "cleanup" \in Stages
  /\ \A s \in Stages : After(s) \in Markers /\ AfterTouch(s) \in ChainPCs
  BY ChainAssumption DEF After, Markers, AfterTouch, ChainPCs

\* Go writes one program counter.
LEMMA GoType ==
  ASSUME NEW PCs, ChainTypeOK(PCs), NEW p \in Pods, NEW s \in Stages,
         NEW to \in PCs, Go(p, s, to)
  PROVE  pc' \in [Pods -> [Stages -> PCs]]
  BY DEF ChainTypeOK, Go

\* What Go does to the program counters, pod by pod.
LEMMA GoFacts ==
  ASSUME NEW PCs, ChainTypeOK(PCs), NEW p \in Pods, NEW s \in Stages,
         NEW to, Go(p, s, to)
  PROVE  /\ pc'[p][s] = to
         /\ \A r \in Stages \ {s} : pc'[p][r] = pc[p][r]
         /\ \A r \in Pods \ {p} : pc'[r] = pc[r]
  BY DEF ChainTypeOK, Go

\* Exit1, which ends every failing action, keeps the types of what it writes.
LEMMA ExitType ==
  ASSUME NEW PCs, "err" \in PCs, ChainTypeOK(PCs), NEW p \in Pods,
         NEW s \in Stages, Exit1(p, s)
  PROVE  pc' \in [Pods -> [Stages -> PCs]] /\ markers' \in [Pods -> SUBSET Markers]
  BY DEF ChainTypeOK, Exit1, Go, Markers

\* touch of a marker, whether or not the scratch directory is there.
LEMMA TouchType ==
  ASSUME NEW PCs, "err" \in PCs, ChainTypeOK(PCs), NEW p \in Pods,
         NEW s \in Stages, NEW m \in Markers, NEW to \in PCs,
         TouchThen(p, s, m, to)
  PROVE  pc' \in [Pods -> [Stages -> PCs]] /\ markers' \in [Pods -> SUBSET Markers]
<1>1. CASE p \in dir
  BY <1>1 DEF TouchThen, Go, ChainTypeOK
<1>2. CASE p \notin dir
  BY <1>2, ExitType DEF TouchThen
<1>3. QED BY <1>1, <1>2

\* Everything StageChain itself does keeps its variables in their types.
LEMMA ChainStepType ==
  ASSUME NEW PCs, ChainPCs \subseteq PCs, ChainTypeOK(PCs), NEW p \in Pods,
         \/ StartPod(p) \/ BackoffExceeded(p) \/ Evict(p)
         \/ \E s \in Stages : Poll(p, s) \/ TimesOut(p, s) \/ Kill(p, s)
                                \/ Restart(p, s)
  PROVE  ChainTypeOK(PCs)'
<1> USE AfterType DEF ChainPCs
<1>1. CASE StartPod(p)
  BY <1>1 DEF StartPod, ChainTypeOK
<1>2. CASE BackoffExceeded(p) \/ Evict(p)
  BY <1>2, SMTT(30) DEF BackoffExceeded, Evict, AllStopped, ChainTypeOK
<1>3. ASSUME NEW s \in Stages,
             Poll(p, s) \/ TimesOut(p, s) \/ Kill(p, s) \/ Restart(p, s)
      PROVE  ChainTypeOK(PCs)'
  <2>1. CASE StartContainer(p, s)
    BY <2>1, GoType DEF StartContainer, ChainTypeOK
  <2>2. CASE Begin(p, s)
    BY <2>2, GoType, ZenonT(60) DEF Begin, ChainTypeOK
  <2>3. CASE HoldEnds(p, s)
    BY <2>3, GoType DEF HoldEnds, ChainTypeOK
  <2>4. CASE PeerFailed(p, s) \/ TimesOut(p, s)
    BY <2>4, ExitType DEF PeerFailed, TimesOut, ChainTypeOK
  <2>5. CASE TouchDone(p, s)
    BY <2>5, TouchType DEF TouchDone, ChainTypeOK
  <2>6. CASE Kill(p, s)
    BY <2>6 DEF Kill, Go, ChainTypeOK
  <2>7. CASE Restart(p, s)
    BY <2>7 DEF Restart, Go, ChainTypeOK
  <2>8. QED BY <1>3, <2>1, <2>2, <2>3, <2>4, <2>5, <2>6, <2>7 DEF Poll
<1>4. QED BY <1>1, <1>2, <1>3

---------------------------------------------------------------------------
(* The relay.  Under restartPolicy Never everything that happens to a pod  *)
(* is a Move of one of its stages, or ends the pod.                        *)

Quiet == Idle \cup Through \cup {"err"}

\* No done marker appears.
NoNewMarks == \A q \in Pods : markers'[q] \subseteq markers[q] \cup {"failed"}

\* Only this marker appears, in the directory of this pod.
Marks(p, m) ==
  /\ markers'[p] \subseteq markers[p] \cup {m}
  /\ \A q \in Pods \ {p} : markers'[q] = markers[q]

Fails(p, s) == pc[p][s] # "ok" /\ Go(p, s, "err") /\ NoNewMarks
Wakes(p, s) == pc[p][s] = "off" /\ Go(p, s, "wait") /\ NoNewMarks
Works(p, s) == \E to : /\ pc[p][s] \notin Quiet /\ to \notin Quiet
                       /\ Go(p, s, to) /\ NoNewMarks
Touches(p, s) ==
  /\ pc[p][s] = "finish" /\ Go(p, s, AfterTouch(s)) /\ Marks(p, After(s))
Releases(p, s) ==
  /\ pc[p][s] = "release" /\ Go(p, s, "ok") /\ Marks(p, "job-done")
Removes(p, s) == pc[p][s] = "linger" /\ Go(p, s, "ok") /\ NoNewMarks

Move(p, s) ==
  \/ Fails(p, s) \/ Wakes(p, s) \/ Begin(p, s) \/ Works(p, s) \/ Touches(p, s)
  \/ HoldEnds(p, s) \/ Releases(p, s) \/ Removes(p, s)

\* The pod begins, or is evicted.
PodMove(p) ==
  \/ StartPod(p)
  \/ /\ AllStopped(p) /\ ~Succeeded(p) /\ NoNewMarks

\* What the order of the stages must be like.
InOrder ==
  /\ \A r \in Stages, s \in Stages : Rank[r] \in Nat /\ (Rank[r] = Rank[s] => r = s)
  /\ \A s \in Stages \ {"cleanup"} : \E r \in Stages :
       /\ After(r) = Before(s) /\ Rank[r] < Rank[s]
       /\ \A q \in Stages : Rank[q] < Rank[s] => q = r \/ Rank[q] < Rank[r]
  /\ \A s \in Stages : Rank["cleanup"] <= Rank[s]
  /\ \A r \in Stages, s \in Stages : After(r) = After(s) => r = s
  /\ \A s \in Stages : \/ s \in LastStages
                       \/ s = "encrypt" /\ "s3-sync" \notin Stages
                       => \A r \in Stages : r = s \/ Rank[r] < Rank[s]
  /\ \A s \in Stages : After(s) = "job-done" => s \in LastStages

\* The stages of a pod that is not lost have run in order: a done marker is
\* there only if its stage is through, whoever is up has all before it
\* behind it, and nobody is home before all are through.
TurnInv(p) ==
  p \notin LostPods =>
    /\ \A s \in Stages : After(s) \in markers[p] => pc[p][s] \in Through
    /\ \A s \in Stages : pc[p][s] \notin Idle =>
         \A r \in Stages : Rank[r] < Rank[s] => pc[p][r] \in Through
    /\ "job-done" \in markers[p] => \A s \in Stages : pc[p][s] \in Through
    /\ \A s \in Stages : pc[p][s] = "release" => s = "encrypt" /\ "s3-sync" \notin Stages
    /\ \A s \in Stages : pc[p][s] = "linger" => s \in LastStages
    /\ \A s \in Stages : pc[p][s] = "ok" => \A r \in Stages : pc[p][r] \in Through

\* A pod nothing happens to but the loss of markers.
LEMMA TurnSame ==
  ASSUME NEW q \in Pods, TurnInv(q), pc'[q] = pc[q],
         markers'[q] \subseteq markers[q] \cup {"failed"},
         \A s \in Stages : After(s) # "failed"
  PROVE  TurnInv(q)'
  BY DEF TurnInv, LostPods

\* What a stage does after its marker depends on whether it is the last one.
LEMMA AfterFacts ==
  \A s \in Stages : /\ After(s) # "failed" /\ Before(s) # "failed"
                    /\ AfterTouch(s) \in Through
                    /\ AfterTouch(s) = "ok" => s \in LastStages
                    /\ AfterTouch(s) = "linger" => s \in LastStages
                    /\ AfterTouch(s) = "release" => s = "encrypt" /\ "s3-sync" \notin Stages
                    /\ s \in LastStages => After(s) = "job-done"
  BY ChainAssumption DEF After, Before, AfterTouch, LastStages, Through

\* A move of one stage keeps the stages of every pod in turn.
LEMMA TurnMove ==
  ASSUME NEW PCs, ChainTypeOK(PCs), InOrder, NEW p \in Pods, NEW s \in Stages,
         Move(p, s), NEW q \in Pods, TurnInv(q)
  PROVE  TurnInv(q)'
<1> USE DEF Idle, Through, Quiet
<1>1. CASE q # p
  <2>1. pc'[q] = pc[q] /\ markers'[q] \subseteq markers[q] \cup {"failed"}
    BY <1>1, GoFacts, ZenonT(60) DEF Move, Fails, Wakes, Begin, Works, Touches, HoldEnds, Releases,
       Removes, NoNewMarks, Marks, ChainTypeOK
  <2>2. QED BY <2>1, TurnSame, AfterFacts
<1>2. CASE q = p /\ Fails(p, s)
  <2>1. p \in LostPods'
    BY <1>2, GoFacts DEF Fails, LostPods
  <2>2. QED BY <1>2, <2>1 DEF TurnInv
<1>3. CASE q = p /\ ~Fails(p, s)
  <2>0. ASSUME NEW to, Go(p, s, to) PROVE /\ pc'[p][s] = to
                                          /\ \A r \in Stages \ {s} : pc'[p][r] = pc[p][r]
    BY <2>0, GoFacts
  <2>1. ASSUME p \notin LostPods' PROVE p \notin LostPods
    <3>1. pc[p][s] # "err"
      BY <1>3 DEF Move, Wakes, Begin, Works, Touches, HoldEnds, Releases, Removes
    <3>2. \E to : Go(p, s, to)
      BY <1>3 DEF Move, Wakes, Begin, Works, Touches, HoldEnds, Releases, Removes
    <3>3. QED BY <2>0, <2>1, <3>1, <3>2 DEF LostPods
  <2> SUFFICES ASSUME p \notin LostPods', p \notin LostPods PROVE TurnInv(p)'
    BY <1>3, <2>1 DEF TurnInv
  <2>2. CASE Wakes(p, s)
    BY <1>3, <2>0, <2>2, AfterFacts DEF Wakes, NoNewMarks, TurnInv
  <2>3. CASE Begin(p, s)
    <3>1. After(s) \notin markers[p] /\ pc[p][s] = "wait"
      BY <1>3, <2>3 DEF Begin, TurnInv
    <3>2. Go(p, s, "work") /\ markers'[p] \subseteq markers[p]
      BY <2>3, <3>1 DEF Begin, ChainTypeOK
    <3>3. \A r \in Stages : Rank[r] < Rank[s] => pc[p][r] \in Through
      <4>1. CASE s = "cleanup"
        BY <4>1 DEF InOrder
      <4>2. CASE s # "cleanup"
        <5>1. Before(s) \in markers[p]
          BY <2>3, <4>2 DEF Begin, Missing, Polling, Awaited
        <5>2. QED BY <1>3, <4>2, <5>1 DEF InOrder, TurnInv
      <4>3. QED BY <4>1, <4>2
    <3>4. QED BY <1>3, <2>0, <3>1, <3>2, <3>3, AfterFacts DEF TurnInv
  <2>4. CASE Works(p, s)
    BY <1>3, <2>0, <2>4, AfterFacts DEF Works, NoNewMarks, TurnInv
  <2>5. CASE Touches(p, s)
    <3>1. AfterTouch(s) \in Through /\ Go(p, s, AfterTouch(s)) /\ pc[p][s] = "finish"
      BY <2>5, AfterFacts DEF Touches
    <3>2. \A r \in Stages : Rank[r] < Rank[s] => pc[p][r] \in Through
      BY <1>3, <3>1 DEF TurnInv
    <3>3. s \in LastStages => \A r \in Stages : r = s \/ pc[p][r] \in Through
      BY <3>2 DEF InOrder
    <3>4. "job-done" \notin markers[p]
      BY <1>3, <3>1 DEF TurnInv
    <3>5. \A r \in Stages : pc[p][r] # "ok"
      BY <1>3, <3>1 DEF TurnInv
    <3>6. \A r \in Stages : After(r) \in markers'[p] => pc'[p][r] \in Through
      BY <1>3, <2>0, <2>5, <3>1 DEF Touches, Marks, InOrder, TurnInv
    <3>7. "job-done" \in markers'[p] => s \in LastStages
      BY <2>5, <3>4 DEF Touches, Marks, InOrder
    <3>8. QED BY <1>3, <2>0, <3>1, <3>2, <3>3, <3>5, <3>6, <3>7, AfterFacts DEF TurnInv
  <2>6. CASE HoldEnds(p, s)
    BY <1>3, <2>0, <2>6 DEF HoldEnds, TurnInv
  <2>7. CASE Releases(p, s)
    <3>1. \A r \in Stages : r = s \/ pc[p][r] \in Through
      BY <1>3, <2>7 DEF Releases, TurnInv, InOrder
    <3>2. QED BY <1>3, <2>0, <2>7, <3>1 DEF Releases, TurnInv
  <2>8. CASE Removes(p, s)
    <3>1. \A r \in Stages : r = s \/ pc[p][r] \in Through
      BY <1>3, <2>8 DEF Removes, TurnInv, InOrder
    <3>2. QED BY <1>3, <2>0, <2>8, <3>1 DEF Removes, TurnInv
  <2>9. QED BY <1>3, <2>2, <2>3, <2>4, <2>5, <2>6, <2>7, <2>8 DEF Move
<1>4. QED BY <1>1, <1>2, <1>3

\* So does the beginning of a pod, or its end.
LEMMA TurnPod ==
  ASSUME NEW PCs, ChainTypeOK(PCs), InOrder, NEW p \in Pods, PodMove(p),
         NEW q \in Pods, TurnInv(q)
  PROVE  TurnInv(q)'
<1> USE DEF Idle, Through
<1>1. CASE q # p
  <2>1. pc'[q] = pc[q] /\ markers'[q] \subseteq markers[q] \cup {"failed"}
    BY <1>1 DEF PodMove, StartPod, AllStopped, NoNewMarks, ChainTypeOK
  <2>2. QED BY <2>1, TurnSame, AfterFacts
<1>2. CASE q = p /\ StartPod(p)
  <2>1. \A s \in Stages : pc[p][s] = "none" /\ pc'[p][s] = "off"
    BY <1>2 DEF StartPod, ChainTypeOK
  <2>2. markers' = markers /\ p \notin LostPods
    BY <1>2, <2>1 DEF StartPod, LostPods
  <2>3. QED BY <1>2, <2>1, <2>2 DEF TurnInv
<1>3. CASE q = p /\ AllStopped(p) /\ ~Succeeded(p)
  <2>1. p \in LostPods'
    BY <1>3 DEF AllStopped, Succeeded, LostPods, ChainTypeOK
  <2>2. QED BY <1>3, <2>1 DEF TurnInv
<1>4. QED BY <1>1, <1>2, <1>3 DEF PodMove

\* What the relay sees of a pod.
RunningIn(p) == IF p \in LostPods THEN {}
                ELSE {s \in Stages : pc[p][s] \notin Idle \cup Through}
ThroughIn(p) == IF p \in LostPods THEN {} ELSE {s \in Stages : pc[p][s] \in Through}
HomeIn(p) == IF p \in LostPods THEN {} ELSE {s \in Stages : pc[p][s] \in {"ok"}}

\* A pod whose program counters stay looks the same to the relay.
LEMMA ViewSame ==
  ASSUME NEW q \in Pods, pc'[q] = pc[q]
  PROVE  /\ RunningIn(q)' = RunningIn(q) /\ ThroughIn(q)' = ThroughIn(q)
         /\ HomeIn(q)' = HomeIn(q) /\ (q \in LostPods' <=> q \in LostPods)
  BY DEF RunningIn, ThroughIn, HomeIn, LostPods

\* A step of one pod is a step of the relay if the view of that pod makes one.
LEMMA ViewStep ==
  ASSUME NEW p \in Pods, \A q \in Pods \ {p} : pc'[q] = pc[q],
         \/ /\ RunningIn(p)' = RunningIn(p) /\ ThroughIn(p)' = ThroughIn(p)
            /\ HomeIn(p)' = HomeIn(p) /\ (p \in LostPods' <=> p \in LostPods)
         \/ /\ p \notin LostPods /\ p \in LostPods' /\ HomeIn(p) # Stages
         \/ /\ p \notin LostPods /\ p \notin LostPods'
            /\ \E s \in Stages :
                 \/ /\ RunningIn(p) = {} /\ RunningIn(p)' = {s}
                    /\ ThroughIn(p) = {r \in Stages : Rank[r] < Rank[s]}
                    /\ ThroughIn(p)' = ThroughIn(p) /\ HomeIn(p)' = HomeIn(p)
                 \/ /\ RunningIn(p) = {s} /\ RunningIn(p)' = {}
                    /\ ThroughIn(p)' = ThroughIn(p) \cup {s}
                    /\ \/ HomeIn(p)' = HomeIn(p)
                       \/ ThroughIn(p)' = Stages /\ HomeIn(p)' = {s}
                 \/ /\ ThroughIn(p) = Stages /\ s \notin HomeIn(p)
                    /\ RunningIn(p)' = RunningIn(p) /\ ThroughIn(p)' = ThroughIn(p)
                    /\ HomeIn(p)' = HomeIn(p) \cup {s}
  PROVE  [R!Next]_(R!vars)
<1> DEFINE run == [q \in Pods |-> RunningIn(q)]
           pas == [q \in Pods |-> ThroughIn(q)]
           lef == [q \in Pods |-> HomeIn(q)]
           lst == LostPods
<1>1. \A q \in Pods \ {p} :
        /\ RunningIn(q)' = RunningIn(q) /\ ThroughIn(q)' = ThroughIn(q)
        /\ HomeIn(q)' = HomeIn(q) /\ (q \in LostPods' <=> q \in LostPods)
  BY ViewSame
<1>2. LostPods \subseteq Pods /\ LostPods' \subseteq Pods
  BY DEF LostPods
<1>3. /\ run' = [run EXCEPT ![p] = RunningIn(p)']
      /\ pas' = [pas EXCEPT ![p] = ThroughIn(p)']
      /\ lef' = [lef EXCEPT ![p] = HomeIn(p)']
  BY <1>1
<1>4. /\ run[p] = RunningIn(p) /\ pas[p] = ThroughIn(p) /\ lef[p] = HomeIn(p)
  OBVIOUS
<1>5. CASE /\ RunningIn(p)' = RunningIn(p) /\ ThroughIn(p)' = ThroughIn(p)
           /\ HomeIn(p)' = HomeIn(p) /\ (p \in LostPods' <=> p \in LostPods)
  <2>1. run' = run /\ pas' = pas /\ lef' = lef /\ LostPods' = LostPods
    BY <1>1, <1>2, <1>5
  <2>2. UNCHANGED R!vars
    BY <2>1 DEF R!vars, RunningIn, ThroughIn, HomeIn, StagesAt
  <2>3. QED BY <2>2
<1>6. CASE p \notin LostPods /\ p \in LostPods' /\ HomeIn(p) # Stages
  <2>1. LostPods' = LostPods \cup {p}
    BY <1>1, <1>2, <1>6
  <2>2. RunningIn(p)' = {} /\ ThroughIn(p)' = {} /\ HomeIn(p)' = {}
    BY <1>6 DEF RunningIn, ThroughIn, HomeIn
  <2>3. R!Lose(p)
    BY <1>3, <1>4, <1>6, <2>1, <2>2 DEF R!Lose, RunningIn, ThroughIn, HomeIn, StagesAt
  <2>4. QED BY <2>3 DEF R!Next
<1>7. ASSUME p \notin LostPods, p \notin LostPods' PROVE LostPods' = LostPods
  BY <1>1, <1>2, <1>7
<1>8. ASSUME p \notin LostPods, p \notin LostPods', NEW s \in Stages,
             RunningIn(p) = {}, RunningIn(p)' = {s},
             ThroughIn(p) = {r \in Stages : Rank[r] < Rank[s]},
             ThroughIn(p)' = ThroughIn(p), HomeIn(p)' = HomeIn(p)
      PROVE  R!Next
  <2>1. pas' = pas /\ lef' = lef
    BY <1>1, <1>8
  <2>2. R!Take(p, s)
    BY <1>3, <1>4, <1>7, <1>8, <2>1 DEF R!Take, RunningIn, ThroughIn, HomeIn, StagesAt
  <2>3. QED BY <2>2 DEF R!Next
<1>9. ASSUME p \notin LostPods, p \notin LostPods', NEW s \in Stages,
             RunningIn(p) = {s}, RunningIn(p)' = {},
             ThroughIn(p)' = ThroughIn(p) \cup {s},
             \/ HomeIn(p)' = HomeIn(p)
             \/ ThroughIn(p)' = Stages /\ HomeIn(p)' = {s}
      PROVE  R!Next
  <2>1. /\ run' = [run EXCEPT ![p] = {}] /\ run[p] = {s}
        /\ pas' = [pas EXCEPT ![p] = pas[p] \cup {s}]
    BY <1>3, <1>4, <1>9
  <2>2. CASE HomeIn(p)' = HomeIn(p)
    <3>1. lef' = lef
      BY <1>1, <2>2
    <3>2. R!Pass(p, s)
      BY <1>7, <1>9, <2>1, <3>1 DEF R!Pass, RunningIn, ThroughIn, HomeIn, StagesAt
    <3>3. QED BY <3>2 DEF R!Next
  <2>3. CASE ThroughIn(p)' = Stages /\ HomeIn(p)' = {s}
    <3>1. lef' = [lef EXCEPT ![p] = {s}] /\ pas'[p] = Stages
      BY <1>3, <2>3
    <3>2. R!Pass(p, s)
      BY <1>7, <1>9, <2>1, <3>1 DEF R!Pass, RunningIn, ThroughIn, HomeIn, StagesAt
    <3>3. QED BY <3>2 DEF R!Next
  <2>4. QED BY <1>9, <2>2, <2>3
<1>10. ASSUME p \notin LostPods, p \notin LostPods', NEW s \in Stages,
              ThroughIn(p) = Stages, s \notin HomeIn(p),
              RunningIn(p)' = RunningIn(p), ThroughIn(p)' = ThroughIn(p),
              HomeIn(p)' = HomeIn(p) \cup {s}
       PROVE  R!Next
  <2>1. run' = run /\ pas' = pas
    BY <1>1, <1>10
  <2>2. R!Leave(p, s)
    BY <1>3, <1>4, <1>7, <1>10, <2>1 DEF R!Leave, RunningIn, ThroughIn, HomeIn, StagesAt
  <2>3. QED BY <2>2 DEF R!Next
<1>11. QED BY <1>5, <1>6, <1>8, <1>9, <1>10

\* Every move of a stage is a step of the relay, or none.
LEMMA MoveMaps ==
  ASSUME NEW PCs, ChainTypeOK(PCs), InOrder, NEW p \in Pods, NEW s \in Stages,
         Move(p, s), TurnInv(p)
  PROVE  [R!Next]_(R!vars)
<1> USE DEF Idle, Through, Quiet
<1>0. ASSUME NEW to, Go(p, s, to)
      PROVE  /\ pc'[p][s] = to /\ \A r \in Stages \ {s} : pc'[p][r] = pc[p][r]
             /\ \A q \in Pods \ {p} : pc'[q] = pc[q]
             /\ pc[p][s] # "err" /\ to # "err" => (p \in LostPods' <=> p \in LostPods)
             /\ to = "err" => p \in LostPods'
  <2>1. /\ pc'[p][s] = to /\ \A r \in Stages \ {s} : pc'[p][r] = pc[p][r]
        /\ \A q \in Pods \ {p} : pc'[q] = pc[q]
    BY <1>0, GoFacts
  <2>2. QED BY <2>1 DEF LostPods
<1>1. CASE Fails(p, s)
  <2>1. p \in LostPods' /\ pc[p][s] # "ok" /\ \A q \in Pods \ {p} : pc'[q] = pc[q]
    BY <1>0, <1>1 DEF Fails
  <2>2. CASE p \in LostPods
    BY <2>1, <2>2, ViewStep DEF RunningIn, ThroughIn, HomeIn
  <2>3. CASE p \notin LostPods
    <3>1. HomeIn(p) # Stages
      BY <2>1, <2>3 DEF HomeIn
    <3>2. QED BY <2>1, <2>3, <3>1, ViewStep
  <2>4. QED BY <2>2, <2>3
<1>2. CASE ~Fails(p, s)
  <2>0. PICK to : Go(p, s, to) /\ to # "err" /\ pc[p][s] # "err"
    BY <1>2, AfterFacts DEF Move, Wakes, Begin, Works, Touches, HoldEnds, Releases, Removes
  <2>1. /\ \A q \in Pods \ {p} : pc'[q] = pc[q]
        /\ p \in LostPods' <=> p \in LostPods
        /\ \A r \in Stages \ {s} : pc'[p][r] = pc[p][r]
    BY <1>0, <2>0
  <2>2. CASE p \in LostPods
    BY <2>1, <2>2, ViewStep DEF RunningIn, ThroughIn, HomeIn
  <2>3. ASSUME p \notin LostPods PROVE [R!Next]_(R!vars)
    <3>0. p \notin LostPods'
      BY <2>1, <2>3
    <3>1. CASE Wakes(p, s) \/ Works(p, s)
      <4>1. /\ pc[p][s] \in Idle <=> pc'[p][s] \in Idle
            /\ pc[p][s] \notin Through /\ pc'[p][s] \notin Through
        BY <1>0, <3>1 DEF Wakes, Works
      <4>2. /\ RunningIn(p)' = RunningIn(p) /\ ThroughIn(p)' = ThroughIn(p)
            /\ HomeIn(p)' = HomeIn(p)
        BY <2>1, <2>3, <3>0, <4>1 DEF RunningIn, ThroughIn, HomeIn
      <4>3. QED BY <2>1, <4>2, ViewStep
    <3>2. CASE Begin(p, s)
      <4>1. After(s) \notin markers[p] /\ pc[p][s] = "wait"
        BY <2>3, <3>2 DEF Begin, TurnInv
      <4>2. pc'[p][s] = "work"
        BY <1>0, <3>2, <4>1 DEF Begin
      <4>3. \A r \in Stages : Rank[r] < Rank[s] => pc[p][r] \in Through
        <5>1. CASE s = "cleanup"
          BY <5>1 DEF InOrder
        <5>2. CASE s # "cleanup"
          <6>1. Before(s) \in markers[p]
            BY <3>2, <5>2 DEF Begin, Missing, Polling, Awaited
          <6>2. QED BY <2>3, <5>2, <6>1 DEF InOrder, TurnInv
        <5>3. QED BY <5>1, <5>2
      <4>4. \A r \in Stages : ~(Rank[r] < Rank[s]) => pc[p][r] \in Idle
        <5> SUFFICES ASSUME NEW r \in Stages, ~(Rank[r] < Rank[s]), pc[p][r] \notin Idle
                     PROVE  FALSE
          OBVIOUS
        <5>1. r # s /\ Rank[s] < Rank[r]
          BY <4>1 DEF InOrder
        <5>2. QED BY <2>3, <4>1, <5>1 DEF TurnInv
      <4>5. /\ RunningIn(p) = {} /\ RunningIn(p)' = {s}
            /\ ThroughIn(p) = {r \in Stages : Rank[r] < Rank[s]}
            /\ ThroughIn(p)' = ThroughIn(p) /\ HomeIn(p)' = HomeIn(p)
        BY <2>1, <2>3, <3>0, <4>1, <4>2, <4>3, <4>4 DEF RunningIn, ThroughIn, HomeIn
      <4>6. QED BY <2>1, <2>3, <3>0, <4>5, ViewStep
    <3>3. CASE Touches(p, s)
      <4>1. /\ pc[p][s] = "finish" /\ pc'[p][s] = AfterTouch(s) /\ AfterTouch(s) \in Through
            /\ AfterTouch(s) = "ok" => s \in LastStages
        BY <1>0, <3>3, AfterFacts DEF Touches
      <4>2. \A r \in Stages : Rank[r] < Rank[s] => pc[p][r] \in Through
        BY <2>3, <4>1 DEF TurnInv
      <4>3. \A r \in Stages \ {s} : ~(Rank[r] < Rank[s]) => pc[p][r] \in Idle
        <5> SUFFICES ASSUME NEW r \in Stages \ {s}, ~(Rank[r] < Rank[s]),
                            pc[p][r] \notin Idle
                     PROVE  FALSE
          OBVIOUS
        <5>1. Rank[s] < Rank[r]
          BY DEF InOrder
        <5>2. QED BY <2>3, <4>1, <5>1 DEF TurnInv
      <4>4. RunningIn(p) = {s} /\ RunningIn(p)' = {} /\ ThroughIn(p)' = ThroughIn(p) \cup {s}
        BY <2>1, <2>3, <3>0, <4>1, <4>2, <4>3 DEF RunningIn, ThroughIn
      <4>5. HomeIn(p) = {}
        BY <2>3, <4>1 DEF HomeIn, TurnInv
      <4>6. CASE AfterTouch(s) # "ok"
        <5>1. HomeIn(p)' = HomeIn(p)
          BY <2>1, <2>3, <3>0, <4>1, <4>6 DEF HomeIn
        <5>2. QED BY <2>1, <2>3, <3>0, <4>4, <5>1, ViewStep
      <4>7. CASE AfterTouch(s) = "ok"
        <5>1. \A r \in Stages \ {s} : pc[p][r] \in Through
          BY <4>1, <4>2, <4>7 DEF InOrder
        <5>2. HomeIn(p)' = HomeIn(p) \cup {s}
          BY <2>1, <2>3, <3>0, <4>1, <4>7 DEF HomeIn
        <5>3. ThroughIn(p)' = Stages
          BY <2>1, <3>0, <4>1, <5>1 DEF ThroughIn
        <5>4. QED BY <2>1, <2>3, <3>0, <4>4, <4>5, <5>2, <5>3, ViewStep
      <4>8. QED BY <4>6, <4>7
    <3>4. CASE HoldEnds(p, s) \/ Releases(p, s) \/ Removes(p, s)
      <4>1. pc[p][s] \in Through \ {"ok"} /\ pc'[p][s] = "ok"
        BY <1>0, <3>4 DEF HoldEnds, Releases, Removes
      <4>2. \A r \in Stages : pc[p][r] \in Through
        BY <2>3, <3>4, <4>1 DEF HoldEnds, Releases, Removes, TurnInv, InOrder
      <4>3. /\ ThroughIn(p) = Stages /\ s \notin HomeIn(p)
            /\ RunningIn(p)' = RunningIn(p) /\ ThroughIn(p)' = ThroughIn(p)
            /\ HomeIn(p)' = HomeIn(p) \cup {s}
        BY <2>1, <2>3, <3>0, <4>1, <4>2 DEF RunningIn, ThroughIn, HomeIn
      <4>4. QED BY <2>1, <2>3, <3>0, <4>3, ViewStep
    <3>5. QED BY <1>2, <3>1, <3>2, <3>3, <3>4 DEF Move
  <2>4. QED BY <2>2, <2>3
<1>3. QED BY <1>1, <1>2

\* A pod that begins, or is evicted, takes a step of the relay.
LEMMA PodMaps ==
  ASSUME NEW PCs, ChainTypeOK(PCs), NEW p \in Pods, PodMove(p)
  PROVE  [R!Next]_(R!vars)
<1>0. \A q \in Pods \ {p} : pc'[q] = pc[q]
  BY DEF PodMove, StartPod, AllStopped, ChainTypeOK
<1>1. CASE StartPod(p)
  <2>1. \A s \in Stages : pc[p][s] = "none" /\ pc'[p][s] = "off"
    BY <1>1 DEF StartPod, ChainTypeOK
  <2>2. /\ RunningIn(p)' = RunningIn(p) /\ ThroughIn(p)' = ThroughIn(p)
        /\ HomeIn(p)' = HomeIn(p) /\ (p \in LostPods' <=> p \in LostPods)
    BY <2>1 DEF RunningIn, ThroughIn, HomeIn, LostPods, Idle, Through
  <2>3. QED BY <1>0, <2>2, ViewStep
<1>2. CASE AllStopped(p) /\ ~Succeeded(p)
  <2>1. p \in LostPods'
    BY <1>2 DEF AllStopped, Succeeded, LostPods, ChainTypeOK
  <2>2. CASE p \in LostPods
    BY <1>0, <2>1, <2>2, ViewStep DEF RunningIn, ThroughIn, HomeIn
  <2>3. CASE p \notin LostPods
    <3>1. HomeIn(p) # Stages
      BY <1>2, <2>3 DEF HomeIn, Succeeded
    <3>2. QED BY <1>0, <2>1, <2>3, <3>1, ViewStep
  <2>4. QED BY <2>2, <2>3
<1>3. QED BY <1>1, <1>2 DEF PodMove

\* A step that moves no stage.
LEMMA StillMaps ==
  ASSUME UNCHANGED pc
  PROVE  UNCHANGED R!vars
  BY DEF R!vars, LostPods, StagesAt

\* In the beginning nobody has run.
LEMMA RelayInit ==
  ASSUME ChainInit
  PROVE  R!Init /\ \A p \in Pods : TurnInv(p)
  BY ChainAssumption DEF ChainInit, R!Init, TurnInv, LostPods, StagesAt, Idle, Through

\* A failing container leaves no done marker.
LEMMA ExitMarks ==
  ASSUME NEW PCs, ChainTypeOK(PCs), NEW p \in Pods, NEW s \in Stages, Exit1(p, s)
  PROVE  Go(p, s, "err") /\ NoNewMarks
  BY DEF Exit1, NoNewMarks, ChainTypeOK

\* touch leaves its marker, or the container fails.
LEMMA TouchMarks ==
  ASSUME NEW PCs, ChainTypeOK(PCs), NEW p \in Pods, NEW s \in Stages, NEW m, NEW to,
         TouchThen(p, s, m, to)
  PROVE  \/ Go(p, s, to) /\ Marks(p, m)
         \/ Go(p, s, "err") /\ NoNewMarks
  BY ExitMarks DEF TouchThen, Marks, ChainTypeOK

\* Without restarts, what StageChain itself does is a move.
LEMMA ChainMoves ==
  ASSUME RestartPolicy = "Never", NEW PCs, ChainTypeOK(PCs), NEW p \in Pods,
         \/ StartPod(p) \/ BackoffExceeded(p) \/ Evict(p)
         \/ \E s \in Stages : Poll(p, s) \/ TimesOut(p, s) \/ Kill(p, s)
                                \/ Restart(p, s)
  PROVE  PodMove(p) \/ \E s \in Stages : Move(p, s)
<1>1. CASE StartPod(p)
  BY <1>1 DEF PodMove
<1>2. ~BackoffExceeded(p) /\ \A s \in Stages : ~Restart(p, s)
  BY DEF BackoffExceeded, Restart, MayRestart
<1>3. CASE Evict(p)
  BY <1>3 DEF Evict, Ended, PodMove, NoNewMarks, ChainTypeOK
<1>4. ASSUME NEW s \in Stages, Poll(p, s) \/ TimesOut(p, s) \/ Kill(p, s)
      PROVE  Move(p, s)
  <2>1. CASE StartContainer(p, s)
    BY <2>1 DEF StartContainer, Move, Wakes, NoNewMarks, ChainTypeOK
  <2>2. CASE Begin(p, s) \/ HoldEnds(p, s)
    BY <2>2 DEF Move
  <2>3. CASE PeerFailed(p, s) \/ TimesOut(p, s)
    BY <2>3, ExitMarks DEF PeerFailed, TimesOut, Missing, Polling, Move, Fails
  <2>4. CASE TouchDone(p, s)
    BY <2>4, TouchMarks DEF TouchDone, Move, Touches, Fails
  <2>5. CASE Kill(p, s)
    BY <2>5 DEF Kill, Move, Fails, NoNewMarks, ChainTypeOK
  <2>6. QED BY <1>4, <2>1, <2>2, <2>3, <2>4, <2>5 DEF Poll
<1>5. QED BY <1>1, <1>2, <1>3, <1>4

---------------------------------------------------------------------------
(* Pods, under either restart policy.                                      *)

Exited == {"ok", "err"}
Begun(p) == pc[p]["cleanup"] # "none"

\* A pod begins with all its containers, containers of a deleted pod stay
\* exited, only pods that have begun have restarts, files or markers, and unless
\* Overlap a pod begins when those before it have ended.
PodsInv ==
  \A p \in Pods :
    /\ \A s \in Stages : pc[p][s] = "none" <=> ~Begun(p)
    /\ p \in dead => \A s \in Stages : pc[p][s] \in Exited
    /\ restarts[p] > 0 \/ p \in dir \/ markers[p] # {} => Begun(p)
    /\ ~Overlap /\ Begun(p) => \A q \in 1..(p - 1) : Ended(q)

\* One container of a begun pod moves.
ContainerStep(p, s) ==
  \E to : /\ Go(p, s, to) /\ to # "none" /\ pc[p][s] \notin {"none", "ok"}
          /\ pc[p][s] = "err" => MayRestart(p) /\ to = "off"
          /\ UNCHANGED dead
          /\ \A q \in Pods \ {p} : restarts'[q] = restarts[q]
          /\ dir' \subseteq dir \cup {p}
          /\ \A q \in Pods \ {p} : markers'[q] \subseteq markers[q]

\* What may happen to the containers of a pod.
PodStep(p) ==
  \/ StartPod(p) \/ BackoffExceeded(p) \/ Evict(p)
  \/ \E s \in Stages : ContainerStep(p, s)

\* No pod has begun.
LEMMA PodsInit ==
  ASSUME ChainInit
  PROVE  PodsInv
  BY ChainAssumption DEF ChainInit, PodsInv, Begun

\* A pod that has ended has no container left, and nothing happens to it.
LEMMA EndedRests ==
  ASSUME PodsInv, NEW p \in Pods, Ended(p)
  PROVE  (\A s \in Stages : pc[p][s] \in Exited) /\ ~PodStep(p)
<1>1. \A s \in Stages : pc[p][s] \in Exited
  BY DEF Ended, Succeeded, PodsInv, Exited
<1>2. ~StartPod(p) /\ ~BackoffExceeded(p) /\ ~Evict(p)
  BY <1>1, ChainAssumption DEF StartPod, BackoffExceeded, Evict, Exited
<1>3. ASSUME NEW s \in Stages, ContainerStep(p, s) PROVE FALSE
  BY <1>1, <1>3 DEF ContainerStep, Exited, MayRestart, Ended, Succeeded
<1>4. QED BY <1>1, <1>2, <1>3 DEF PodStep

\* What happens to one pod leaves the containers of the others alone.
LEMMA OtherPods ==
  ASSUME NEW PCs, ChainTypeOK(PCs), NEW p \in Pods, PodStep(p)
  PROVE  /\ dead \subseteq dead' /\ dead' \subseteq dead \cup {p}
         /\ dir' \subseteq dir \cup {p}
         /\ \A q \in Pods \ {p} : /\ pc'[q] = pc[q] /\ restarts'[q] = restarts[q]
                                  /\ markers'[q] \subseteq markers[q]
<1>1. CASE StartPod(p)
  BY <1>1 DEF StartPod, ChainTypeOK
<1>2. CASE BackoffExceeded(p) \/ Evict(p)
  BY <1>2 DEF BackoffExceeded, Evict, AllStopped, ChainTypeOK
<1>3. ASSUME NEW s \in Stages, ContainerStep(p, s)
      PROVE  /\ dead \subseteq dead' /\ dead' \subseteq dead \cup {p}
             /\ dir' \subseteq dir \cup {p}
             /\ \A q \in Pods \ {p} : /\ pc'[q] = pc[q] /\ restarts'[q] = restarts[q]
                                      /\ markers'[q] \subseteq markers[q]
  BY <1>3, GoFacts DEF ContainerStep
<1>4. QED BY <1>1, <1>2, <1>3 DEF PodStep

\* A pod that has ended has ended for good.
LEMMA EndedStays ==
  ASSUME NEW PCs, ChainTypeOK(PCs), PodsInv, NEW p \in Pods, PodStep(p),
         NEW q \in Pods, Ended(q)
  PROVE  Ended(q)'
<1>1. q # p
  BY EndedRests
<1>2. pc'[q] = pc[q] /\ dead \subseteq dead'
  BY <1>1, OtherPods
<1>3. QED BY <1>2 DEF Ended, Succeeded

\* Whatever happens to a pod, pods keep beginning one after the other.
LEMMA PodsStep ==
  ASSUME NEW PCs, ChainTypeOK(PCs), PodsInv, NEW p \in Pods, PodStep(p)
  PROVE  PodsInv'
<1> SUFFICES ASSUME NEW q \in Pods
             PROVE  /\ \A s \in Stages : pc'[q][s] = "none" <=> pc'[q]["cleanup"] = "none"
                    /\ q \in dead' => \A s \in Stages : pc'[q][s] \in Exited
                    /\ restarts'[q] > 0 \/ q \in dir' \/ markers'[q] # {} => pc'[q]["cleanup"] # "none"
                    /\ ~Overlap /\ pc'[q]["cleanup"] # "none" => \A r \in 1..(q - 1) : Ended(r)'
  BY DEF PodsInv, Begun
<1>0. /\ "cleanup" \in Stages
      /\ \A r \in 1..(q - 1) : r \in Pods
  BY ChainAssumption DEF Pods
<1>1. ASSUME Begun(q) PROVE ~Overlap => \A r \in 1..(q - 1) : Ended(r)'
  BY <1>0, <1>1, EndedStays DEF PodsInv
<1>2. CASE q # p
  <2>1. /\ pc'[q] = pc[q] /\ restarts'[q] = restarts[q]
        /\ (q \in dead' => q \in dead) /\ (q \in dir' => q \in dir)
        /\ markers'[q] \subseteq markers[q]
    BY <1>2, OtherPods
  <2>2. QED BY <1>1, <2>1 DEF PodsInv, Begun
<1>3. CASE q = p /\ StartPod(p)
  <2>1. /\ \A s \in Stages : pc[p][s] = "none" /\ pc'[p][s] = "off"
        /\ UNCHANGED <<dead, dir, restarts, markers>>
    BY <1>3 DEF StartPod, ChainTypeOK
  <2>2. p \notin dead
    BY <1>0, <2>1 DEF PodsInv, Exited
  <2>3. ~Overlap => \A r \in 1..(p - 1) : Ended(r)'
    BY <1>0, <1>3, EndedStays DEF StartPod
  <2>4. QED BY <1>0, <1>3, <2>1, <2>2, <2>3 DEF Exited
<1>4. CASE q = p /\ (BackoffExceeded(p) \/ Evict(p))
  <2>1. /\ \A s \in Stages : pc'[p][s] \in Exited
        /\ UNCHANGED <<dir, restarts, markers>>
    BY <1>4 DEF BackoffExceeded, Evict, AllStopped, ChainTypeOK, Exited
  <2>2. Begun(p)
    BY <1>0, <1>4 DEF BackoffExceeded, Evict, PodsInv, Begun
  <2>3. QED BY <1>0, <1>1, <1>4, <2>1, <2>2 DEF Exited
<1>5. ASSUME q = p, NEW s \in Stages, ContainerStep(p, s)
      PROVE  /\ \A t \in Stages : pc'[q][t] = "none" <=> pc'[q]["cleanup"] = "none"
             /\ q \in dead' => \A t \in Stages : pc'[q][t] \in Exited
             /\ pc'[q]["cleanup"] # "none" /\ Begun(q)
  <2>1. PICK to : /\ Go(p, s, to) /\ to # "none" /\ pc[p][s] \notin {"none", "ok"}
                  /\ pc[p][s] = "err" => MayRestart(p) /\ to = "off"
                  /\ UNCHANGED dead
    BY <1>5 DEF ContainerStep
  <2>2. pc'[p][s] = to /\ \A t \in Stages \ {s} : pc'[p][t] = pc[p][t]
    BY <2>1, GoFacts
  <2>3. Begun(p) /\ \A t \in Stages : pc[p][t] # "none"
    BY <2>1 DEF PodsInv
  <2>4. p \notin dead
    BY <2>1 DEF PodsInv, Exited, MayRestart
  <2>5. QED BY <1>0, <1>5, <2>1, <2>2, <2>3, <2>4
<1>6. QED BY <1>1, <1>2, <1>3, <1>4, <1>5 DEF PodStep

\* A step of no container, which at most removes directories.
LEMMA PodsSame ==
  ASSUME PodsInv, UNCHANGED <<pc, dead, restarts>>, dir' \subseteq dir,
         \A q \in Pods : markers'[q] \subseteq markers[q]
  PROVE  PodsInv' /\ \A q \in Pods : Ended(q)' <=> Ended(q)
<1>1. \A q \in Pods : Ended(q)' <=> Ended(q)
  BY DEF Ended, Succeeded
<1>2. \A p \in Pods : \A q \in 1..(p - 1) : q \in Pods
  BY ChainAssumption DEF Pods
<1>3. QED BY <1>1, <1>2 DEF PodsInv, Begun

\* What StageChain itself does to the containers.
LEMMA ChainPodStep ==
  ASSUME NEW PCs, ChainTypeOK(PCs), PodsInv, NEW p \in Pods,
         \/ StartPod(p) \/ BackoffExceeded(p) \/ Evict(p)
         \/ \E s \in Stages : Poll(p, s) \/ TimesOut(p, s) \/ Kill(p, s)
                                \/ Restart(p, s)
  PROVE  PodStep(p)
<1>1. CASE StartPod(p) \/ BackoffExceeded(p) \/ Evict(p)
  BY <1>1 DEF PodStep
<1>2. ASSUME NEW s \in Stages,
             Poll(p, s) \/ TimesOut(p, s) \/ Kill(p, s) \/ Restart(p, s)
      PROVE  ContainerStep(p, s)
  <2>1. CASE StartContainer(p, s)
    BY <2>1 DEF StartContainer, ContainerStep
  <2>2. CASE Begin(p, s) \/ HoldEnds(p, s)
    BY <2>2 DEF Begin, HoldEnds, ContainerStep, ChainTypeOK
  <2>3. CASE PeerFailed(p, s) \/ TimesOut(p, s)
    BY <2>3 DEF PeerFailed, TimesOut, Exit1, Missing, Polling, ContainerStep, ChainTypeOK
  <2>4. CASE TouchDone(p, s)
    <3>1. AfterTouch(s) # "none"
      BY AfterFacts DEF Through
    <3>2. QED BY <2>4, <3>1 DEF TouchDone, TouchThen, Exit1, ContainerStep, ChainTypeOK
  <2>5. CASE Kill(p, s)
    BY <2>5 DEF Kill, ContainerStep
  <2>6. CASE Restart(p, s)
    BY <2>6 DEF Restart, ContainerStep, ChainTypeOK
  <2>7. QED BY <1>2, <2>1, <2>2, <2>3, <2>4, <2>5, <2>6 DEF Poll
<1>3. QED BY <1>1, <1>2 DEF PodStep

---------------------------------------------------------------------------
(* Markers, under either restart policy.                                   *)

Kept(p) == markers'[p] \ {"failed"} = markers[p] \ {"failed"}
Added(p, m) == markers'[p] \ {"failed"} = (markers[p] \cup {m}) \ {"failed"}

\* A done marker stands for a stage that is not at work and for all the stages
\* before it; whoever is past wait_for has the markers of all before it, and
\* whoever is through has left its own.
MarkInv(p) ==
  /\ \A s \in Stages : After(s) \in markers[p] =>
       /\ pc[p][s] \in Quiet
       /\ \A r \in Stages : Rank[r] < Rank[s] => After(r) \in markers[p]
  /\ \A s \in Stages : pc[p][s] \notin Idle \cup {"err"} =>
       \A r \in Stages : Rank[r] < Rank[s] => After(r) \in markers[p]
  /\ \A s \in Stages : pc[p][s] \in Through => After(s) \in markers[p]
  /\ "job-done" \in markers[p] => \A s \in Stages : After(s) \in markers[p]
  /\ \A s \in Stages : pc[p][s] = "release" => s = "encrypt" /\ "s3-sync" \notin Stages

\* A step of one container that keeps the markers of its pod.
Hop(p, s) ==
  \/ pc[p][s] # "ok" /\ Go(p, s, "err") /\ Kept(p)
  \/ pc[p][s] \in {"off", "err"} /\ (Go(p, s, "wait") \/ Go(p, s, "off")) /\ Kept(p)
  \/ Begin(p, s) \/ HoldEnds(p, s)
  \/ \E to : /\ pc[p][s] \notin Quiet /\ to \notin Quiet /\ Go(p, s, to)
             /\ Kept(p) \/ (s = "cleanup" /\ markers'[p] = {})
  \/ pc[p][s] = "finish" /\ Go(p, s, AfterTouch(s)) /\ Added(p, After(s))

\* encrypt releases its peers.
Frees(p, s) == pc[p][s] = "release" /\ Go(p, s, "ok") /\ Added(p, "job-done")

\* There are no markers at first.
LEMMA MarkInit ==
  ASSUME ChainInit
  PROVE  \A p \in Pods : MarkInv(p)
  BY DEF ChainInit, MarkInv, Idle, Through

\* A pod whose containers and done markers are left alone.
LEMMA MarkSame ==
  ASSUME NEW q \in Pods, MarkInv(q), pc'[q] = pc[q], Kept(q)
  PROVE  MarkInv(q)'
<1>1. \A m : m # "failed" => (m \in markers'[q] <=> m \in markers[q])
  BY DEF Kept
<1>2. \A s \in Stages : After(s) \in markers'[q] <=> After(s) \in markers[q]
  BY <1>1, AfterFacts
<1>3. "job-done" \in markers'[q] <=> "job-done" \in markers[q]
  BY <1>1
<1>4. QED BY <1>2, <1>3 DEF MarkInv

\* A pod that begins finds no marker of its own.
LEMMA MarkStart ==
  ASSUME NEW PCs, ChainTypeOK(PCs), NEW p \in Pods, StartPod(p), MarkInv(p)
  PROVE  MarkInv(p)'
<1>1. (\A s \in Stages : pc[p][s] = "none" /\ pc'[p][s] = "off") /\ UNCHANGED markers
  BY DEF StartPod, ChainTypeOK
<1>2. QED BY <1>1 DEF MarkInv, Quiet, Idle, Through

\* A step of one container keeps the markers in order: it writes its own
\* only at its end, when all before it are there.
LEMMA MarkHop ==
  ASSUME NEW PCs, ChainTypeOK(PCs), InOrder, NEW p \in Pods, NEW s \in Stages,
         Hop(p, s) \/ Frees(p, s), MarkInv(p)
  PROVE  MarkInv(p)'
<1> USE DEF Idle, Through, Quiet
<1>0. ASSUME NEW to, Go(p, s, to)
      PROVE  pc'[p][s] = to /\ \A r \in Stages \ {s} : pc'[p][r] = pc[p][r]
  BY <1>0, GoFacts
<1>1. ASSUME Kept(p)
      PROVE  /\ \A r \in Stages : After(r) \in markers'[p] <=> After(r) \in markers[p]
             /\ "job-done" \in markers'[p] <=> "job-done" \in markers[p]
  <2>1. \A m : m # "failed" => (m \in markers'[p] <=> m \in markers[p])
    BY <1>1 DEF Kept
  <2>2. QED BY <2>1, AfterFacts
<1>2. CASE pc[p][s] # "ok" /\ Go(p, s, "err") /\ Kept(p)
  BY <1>0, <1>1, <1>2 DEF MarkInv
<1>3. CASE pc[p][s] \in {"off", "err"} /\ (Go(p, s, "wait") \/ Go(p, s, "off")) /\ Kept(p)
  BY <1>0, <1>1, <1>3 DEF MarkInv
<1>4. CASE Begin(p, s)
  <2>1. /\ pc[p][s] = "wait" /\ Kept(p)
        /\ IF After(s) \in markers[p]
           THEN Go(p, s, IF s \in LastStages THEN "ok" ELSE "hold") ELSE Go(p, s, "work")
    BY <1>4 DEF Begin, Kept, ChainTypeOK
  <2>2. \A r \in Stages : Rank[r] < Rank[s] => After(r) \in markers[p]
    <3>1. CASE s = "cleanup"
      BY <3>1 DEF InOrder
    <3>2. CASE s # "cleanup"
      <4>1. Before(s) \in markers[p]
        BY <1>4, <3>2 DEF Begin, Missing, Polling, Awaited
      <4>2. QED BY <3>2, <4>1 DEF InOrder, MarkInv
    <3>3. QED BY <3>1, <3>2
  <2>3. CASE After(s) \in markers[p]
    <3>1. pc'[p][s] \in {"ok", "hold"} /\ \A r \in Stages \ {s} : pc'[p][r] = pc[p][r]
      BY <1>0, <2>1, <2>3
    <3>2. QED BY <1>1, <2>1, <2>2, <2>3, <3>1 DEF MarkInv
  <2>4. CASE After(s) \notin markers[p]
    <3>1. pc'[p][s] = "work" /\ \A r \in Stages \ {s} : pc'[p][r] = pc[p][r]
      BY <1>0, <2>1, <2>4
    <3>2. QED BY <1>1, <2>1, <2>2, <2>4, <3>1 DEF MarkInv
  <2>5. QED BY <2>3, <2>4
<1>5. CASE HoldEnds(p, s)
  BY <1>0, <1>5 DEF HoldEnds, MarkInv
<1>6. ASSUME NEW to, pc[p][s] \notin Quiet, to \notin Quiet, Go(p, s, to), Kept(p)
      PROVE  MarkInv(p)'
  BY <1>0, <1>1, <1>6 DEF MarkInv
<1>7. ASSUME NEW to, pc[p][s] \notin Quiet, to \notin Quiet, Go(p, s, to),
             s = "cleanup", markers'[p] = {}
      PROVE  MarkInv(p)'
  <2>1. \A r \in Stages \ {s} : Rank[s] < Rank[r]
    BY <1>7 DEF InOrder
  <2>2. After(s) \notin markers[p]
    BY <1>7 DEF MarkInv
  <2>3. \A r \in Stages \ {s} : pc[p][r] \in Idle \cup {"err"}
    BY <2>1, <2>2 DEF MarkInv
  <2>4. \A r \in Stages : ~(Rank[r] < Rank[s])
    BY <1>7 DEF InOrder
  <2>5. QED BY <1>0, <1>7, <2>3, <2>4 DEF MarkInv
<1>8. CASE pc[p][s] = "finish" /\ Go(p, s, AfterTouch(s)) /\ Added(p, After(s))
  <2>1. /\ \A m : m # "failed" => (m \in markers'[p] <=> m \in markers[p] \/ m = After(s))
    BY <1>8 DEF Added
  <2>2. /\ \A r \in Stages : After(r) \in markers'[p] <=> After(r) \in markers[p] \/ r = s
        /\ "job-done" \in markers'[p] <=> "job-done" \in markers[p] \/ "job-done" = After(s)
    BY <2>1, AfterFacts DEF InOrder
  <2>3. /\ pc'[p][s] = AfterTouch(s) /\ AfterTouch(s) \in Through
        /\ \A r \in Stages \ {s} : pc'[p][r] = pc[p][r]
        /\ \A r \in Stages : Rank[r] < Rank[s] => After(r) \in markers[p]
    BY <1>0, <1>8, AfterFacts DEF MarkInv
  <2>4. "job-done" = After(s) => \A r \in Stages : r = s \/ After(r) \in markers[p]
    BY <2>3 DEF InOrder
  <2>5. QED BY <2>2, <2>3, <2>4, AfterFacts DEF MarkInv
<1>9. CASE Frees(p, s)
  <2> USE DEF Frees
  <2>1. \A r \in Stages : After(r) \in markers[p]
    <3>1. After(s) \in markers[p] /\ \A r \in Stages : r = s \/ Rank[r] < Rank[s]
      BY <1>9 DEF MarkInv, InOrder
    <3>2. QED BY <1>9, <3>1 DEF MarkInv
  <2>2. \A r \in Stages : After(r) \in markers'[p]
    BY <1>9, <2>1, AfterFacts DEF Added
  <2>3. QED BY <1>0, <1>9, <2>1, <2>2 DEF MarkInv
<1>10. QED BY <1>2, <1>3, <1>4, <1>5, <1>6, <1>7, <1>8, <1>9 DEF Hop

\* A failing container touches no done marker.
LEMMA ExitKept ==
  ASSUME NEW PCs, ChainTypeOK(PCs), NEW p \in Pods, NEW s \in Stages, Exit1(p, s)
  PROVE  Go(p, s, "err") /\ \A q \in Pods : Kept(q)
  BY DEF Exit1, Kept, ChainTypeOK

\* touch adds its marker, or the container fails.
LEMMA TouchKept ==
  ASSUME NEW PCs, ChainTypeOK(PCs), NEW p \in Pods, NEW s \in Stages, NEW m, NEW to,
         TouchThen(p, s, m, to)
  PROVE  /\ \/ Go(p, s, to) /\ Added(p, m)
            \/ Go(p, s, "err") /\ Kept(p)
         /\ \A q \in Pods \ {p} : Kept(q)
<1>1. CASE p \in dir
  BY <1>1 DEF TouchThen, Added, Kept, ChainTypeOK
<1>2. CASE p \notin dir
  BY <1>2, ExitKept DEF TouchThen
<1>3. QED BY <1>1, <1>2

\* What a container does by itself, and the kubelet, are hops.
LEMMA ChainHops ==
  ASSUME NEW PCs, ChainTypeOK(PCs), NEW p \in Pods, NEW s \in Stages,
         Poll(p, s) \/ TimesOut(p, s) \/ Kill(p, s) \/ Restart(p, s)
  PROVE  Hop(p, s) /\ \A q \in Pods \ {p} : Kept(q)
<1>1. CASE StartContainer(p, s)
  BY <1>1 DEF StartContainer, Hop, Kept
<1>2. CASE Begin(p, s) \/ HoldEnds(p, s)
  BY <1>2 DEF Hop, Begin, HoldEnds, Kept, ChainTypeOK
<1>3. CASE PeerFailed(p, s) \/ TimesOut(p, s)
  BY <1>3, ExitKept DEF PeerFailed, TimesOut, Missing, Polling, Hop
<1>4. CASE TouchDone(p, s)
  BY <1>4, TouchKept DEF TouchDone, Hop
<1>5. CASE Kill(p, s)
  BY <1>5 DEF Kill, Hop, Kept
<1>6. CASE Restart(p, s)
  BY <1>6 DEF Restart, Hop, Kept
<1>7. QED BY <1>1, <1>2, <1>3, <1>4, <1>5, <1>6 DEF Poll

---------------------------------------------------------------------------
(* Failure, under restartPolicy Never.                                     *)

\* In a pod that has not ended, an exit non-zero has left .step-failed and a
\* stage that failed at its turn; nobody clears that mark; the directory is
\* there; and until then only stages with a peer to release them hold, and
\* nobody is home before job-done.  late: restore may fail after job-done.
Alive(p, late) ==
  /\ (\E s \in Stages : pc[p][s] = "err") =>
       /\ "failed" \in markers[p]
       /\ \E r \in Stages :
            /\ pc[p][r] = "err"
            /\ \/ After(r) \notin markers[p]
               \/ late /\ r \in LastStages /\ "job-done" \in markers[p]
            /\ \A q \in Stages : Rank[q] < Rank[r] => After(q) \in markers[p]
  /\ "failed" \in markers[p] => \E s \in Stages : pc[p][s] = "err"
  /\ (\E s \in Stages : pc[p][s] \notin {"none", "off"}) => p \in dir
  /\ (\A s \in Stages : pc[p][s] # "err") =>
       \A s \in Stages : /\ pc[p][s] = "hold" => AfterTouch(s) = "hold"
                         /\ pc[p][s] = "ok" => "job-done" \in markers[p]

\* Nothing has died without a word.
NoneKilled == kills = 0 \/ "kill" \notin Faults

\* A pod that has not begun, and one nothing happens to.
LEMMA AliveUnbegun ==
  ASSUME NEW q \in Pods, NEW late, \A s \in Stages : pc'[q][s] \in {"none", "off"}, markers'[q] = {}
  PROVE  Alive(q, late)'
  BY DEF Alive

\* A pod nothing happens to stays alive.
LEMMA AliveSame ==
  ASSUME NEW q \in Pods, NEW late \in BOOLEAN, Alive(q, late), pc'[q] = pc[q],
         markers'[q] = markers[q], q \in dir => q \in dir'
  PROVE  Alive(q, late)'
  BY DEF Alive

\* What a container of a live pod may do, but for giving up.
LifeStep(p, s, late) ==
  \/ Exit1(p, s) /\ \/ pc[p][s] \notin Quiet
                    \/ late /\ pc[p][s] = "linger" /\ s \in LastStages
  \/ PeerFailed(p, s)
  \/ StartContainer(p, s)
  \/ Begin(p, s) \/ HoldEnds(p, s)
  \/ \E to : /\ pc[p][s] \notin Quiet /\ to \notin Quiet /\ Go(p, s, to)
             /\ markers'[p] = markers[p] \/ (s = "cleanup" /\ markers'[p] = {})
  \/ TouchDone(p, s)
  \/ pc[p][s] = "release" /\ TouchThen(p, s, "job-done", "ok")

\* A live pod's container that moves, fails in the open or releases its peers
\* leaves the pod alive.
LEMMA AliveStep ==
  ASSUME NEW PCs, ChainTypeOK(PCs), InOrder, NEW late \in BOOLEAN,
         NEW p \in Pods, NEW s \in Stages, TurnInv(p), MarkInv(p), Alive(p, late),
         LifeStep(p, s, late), p \in dir => p \in dir'
  PROVE  Alive(p, late)'
<1> USE DEF Quiet, Idle, Through
<1> DEFINE Err == \E r \in Stages : pc[p][r] = "err"
           Blamed(r) == /\ pc[p][r] = "err"
                        /\ \/ After(r) \notin markers[p]
                           \/ late /\ r \in LastStages /\ "job-done" \in markers[p]
                        /\ \A q \in Stages : Rank[q] < Rank[r] => After(q) \in markers[p]
<1>0. ASSUME NEW to, Go(p, s, to)
      PROVE  pc'[p][s] = to /\ \A r \in Stages \ {s} : pc'[p][r] = pc[p][r]
  BY <1>0, GoFacts
<1>1. ASSUME pc[p][s] \notin {"none", "off"} PROVE p \in dir /\ p \in dir'
  BY <1>1 DEF Alive
<1>2. ASSUME Err PROVE "failed" \in markers[p] /\ \E r \in Stages : Blamed(r)
  BY <1>2 DEF Alive
<1>3. CASE Exit1(p, s) /\ (pc[p][s] \notin Quiet \/ (late /\ pc[p][s] = "linger" /\ s \in LastStages))
  <2>1. p \in dir /\ p \in dir' /\ Go(p, s, "err") /\ markers'[p] = markers[p] \cup {"failed"}
    BY <1>1, <1>3 DEF Exit1, ChainTypeOK
  <2>2. \A q \in Stages : Rank[q] < Rank[s] => After(q) \in markers[p]
    BY <1>3 DEF MarkInv
  <2>3. After(s) \notin markers'[p] \/ (late /\ s \in LastStages /\ "job-done" \in markers'[p])
    BY <1>3, <2>1, AfterFacts DEF MarkInv
  <2>4. QED BY <1>0, <2>1, <2>2, <2>3 DEF Alive
<1>4. CASE PeerFailed(p, s)
  <2>1. /\ pc[p][s] \in {"wait", "hold"} /\ "failed" \in markers[p] /\ Exit1(p, s)
    BY <1>4 DEF PeerFailed, Missing, Polling
  <2>2. p \in dir /\ p \in dir' /\ Go(p, s, "err") /\ markers'[p] = markers[p]
    BY <1>1, <2>1 DEF Exit1, ChainTypeOK
  <2>3. PICK r \in Stages : Blamed(r)
    BY <1>2, <2>1 DEF Alive
  <2>4. pc'[p][r] = "err" /\ pc'[p][s] = "err"
    BY <1>0, <2>2, <2>3
  <2>5. QED BY <2>1, <2>2, <2>3, <2>4 DEF Alive
<1>5. CASE StartContainer(p, s)
  <2>1. pc[p][s] = "off" /\ Go(p, s, "wait") /\ p \in dir' /\ markers' = markers
    BY <1>5 DEF StartContainer
  <2>2. \A r \in Stages : /\ pc'[p][r] = "err" <=> pc[p][r] = "err"
                          /\ pc'[p][r] = "hold" <=> pc[p][r] = "hold"
                          /\ pc'[p][r] = "ok" <=> pc[p][r] = "ok"
    BY <1>0, <2>1
  <2>3. QED BY <2>1, <2>2 DEF Alive
<1>6. CASE Begin(p, s)
  <2>0. pc[p][s] = "wait" /\ p \in dir /\ p \in dir'
    BY <1>1, <1>6 DEF Begin
  <2>1. CASE After(s) \in markers[p]
    <3>1. Err
      BY <2>0, <2>1 DEF TurnInv, LostPods
    <3>2. PICK r \in Stages : Blamed(r)
      BY <1>2, <3>1
    <3>3. markers' = markers /\ \E to : Go(p, s, to)
      BY <1>6, <2>1 DEF Begin
    <3>4. pc'[p][r] = "err"
      BY <1>0, <2>0, <3>2, <3>3
    <3>5. QED BY <1>2, <2>0, <3>1, <3>2, <3>3, <3>4 DEF Alive
  <2>2. CASE After(s) \notin markers[p] /\ s \in {"dump", "fetch"}
    <3>1. Go(p, s, "work") /\ markers'[p] = markers[p] \ {"failed"}
      BY <1>6, <2>2 DEF Begin, ChainTypeOK
    <3>2. \A r \in Stages : Rank[r] < Rank[s] => After(r) \in markers[p]
      <4>1. s # "cleanup" /\ Before(s) \in markers[p]
        BY <1>6, <2>2 DEF Begin, Missing, Polling, Awaited
      <4>2. QED BY <4>1 DEF InOrder, MarkInv
    <3>3. \A r \in Stages : ~Blamed(r)
      <4> SUFFICES ASSUME NEW r \in Stages, Blamed(r) PROVE FALSE
        OBVIOUS
      <4>1. r # s /\ ~(Rank[s] < Rank[r])
        BY <2>0, <2>2
      <4>2. After(r) \in markers[p]
        BY <3>2, <4>1 DEF InOrder
      <4>3. "job-done" \in markers[p]
        BY <4>2
      <4>4. QED BY <2>2, <4>3 DEF MarkInv
    <3>4. \A r \in Stages : pc[p][r] # "err"
      BY <1>2, <3>3
    <3>5. \A r \in Stages : /\ pc'[p][r] # "err"
                            /\ pc'[p][r] = "hold" <=> pc[p][r] = "hold"
                            /\ pc'[p][r] = "ok" <=> pc[p][r] = "ok"
      BY <1>0, <2>0, <3>1, <3>4
    <3>6. QED BY <2>0, <3>1, <3>4, <3>5 DEF Alive
  <2>3. CASE After(s) \notin markers[p] /\ s \notin {"dump", "fetch"}
    <3>1. Go(p, s, "work") /\ markers' = markers
      BY <1>6, <2>3 DEF Begin
    <3>2. \A r \in Stages : /\ pc'[p][r] = "err" <=> pc[p][r] = "err"
                            /\ pc'[p][r] = "hold" <=> pc[p][r] = "hold"
                            /\ pc'[p][r] = "ok" <=> pc[p][r] = "ok"
      BY <1>0, <2>0, <3>1
    <3>3. QED BY <2>0, <3>1, <3>2 DEF Alive
  <2>4. QED BY <2>1, <2>2, <2>3
<1>7. CASE HoldEnds(p, s)
  <2>1. pc[p][s] = "hold" /\ "job-done" \in markers[p] /\ Go(p, s, "ok") /\ markers' = markers /\ p \in dir'
    BY <1>1, <1>7 DEF HoldEnds
  <2>2. \A r \in Stages : /\ pc'[p][r] = "err" <=> pc[p][r] = "err"
                          /\ pc'[p][r] = "hold" => pc[p][r] = "hold"
    BY <1>0, <2>1
  <2>3. QED BY <2>1, <2>2 DEF Alive
<1>8. ASSUME NEW to, pc[p][s] \notin Quiet, to \notin Quiet, Go(p, s, to),
             markers'[p] = markers[p] \/ (s = "cleanup" /\ markers'[p] = {})
      PROVE  Alive(p, late)'
  <2>0. \A r \in Stages : /\ pc'[p][r] = "err" <=> pc[p][r] = "err"
                          /\ pc'[p][r] = "hold" <=> pc[p][r] = "hold"
                          /\ pc'[p][r] = "ok" <=> pc[p][r] = "ok"
    BY <1>0, <1>8
  <2>1. p \in dir'
    BY <1>1, <1>8
  <2>2. CASE markers'[p] = markers[p]
    BY <2>0, <2>1, <2>2 DEF Alive
  <2>3. CASE s = "cleanup" /\ markers'[p] = {}
    <3>1. After(s) \notin markers[p] /\ \A r \in Stages \ {s} : Rank[s] < Rank[r]
      BY <1>8, <2>3 DEF MarkInv, InOrder
    <3>2. \A r \in Stages : ~Blamed(r)
      BY <1>8, <3>1
    <3>3. \A r \in Stages : pc[p][r] # "err"
      BY <1>2, <3>2
    <3>4. \A r \in Stages \ {s} : pc[p][r] \in Idle
      BY <3>1, <3>3 DEF MarkInv
    <3>5. QED BY <1>8, <2>0, <2>1, <2>3, <3>3, <3>4 DEF Alive
  <2>4. QED BY <1>8, <2>2, <2>3
<1>9. CASE TouchDone(p, s)
  <2>1. /\ pc[p][s] = "finish" /\ p \in dir' /\ Go(p, s, AfterTouch(s))
        /\ markers'[p] = markers[p] \cup {After(s)}
    BY <1>1, <1>9 DEF TouchDone, TouchThen, ChainTypeOK
  <2>2. AfterTouch(s) \in Through /\ (AfterTouch(s) = "ok" => After(s) = "job-done") /\ After(s) # "failed"
    BY AfterFacts
  <2>3. \A r \in Stages : pc'[p][r] = "err" <=> pc[p][r] = "err"
    BY <1>0, <2>1, <2>2
  <2>4. \A r \in Stages : r # s => After(r) # After(s)
    BY DEF InOrder
  <2>5. Err => \E r \in Stages : r # s /\ Blamed(r)
    BY <1>2, <2>1
  <2>6. (\A r \in Stages : pc'[p][r] # "err") =>
          \A r \in Stages : /\ pc'[p][r] = "hold" => AfterTouch(r) = "hold"
                            /\ pc'[p][r] = "ok" => "job-done" \in markers'[p]
    BY <1>0, <2>1, <2>2, <2>3 DEF Alive
  <2>7. Err => \E r \in Stages : /\ pc'[p][r] = "err"
                                 /\ \/ After(r) \notin markers'[p]
                                    \/ late /\ r \in LastStages /\ "job-done" \in markers'[p]
                                 /\ \A q \in Stages : Rank[q] < Rank[r] => After(q) \in markers'[p]
    BY <2>1, <2>3, <2>4, <2>5
  <2>8. "failed" \in markers'[p] <=> "failed" \in markers[p]
    BY <2>1, <2>2
  <2>9. QED BY <1>2, <2>1, <2>3, <2>6, <2>7, <2>8 DEF Alive
<1>10. CASE pc[p][s] = "release" /\ TouchThen(p, s, "job-done", "ok")
  <2>1. p \in dir' /\ Go(p, s, "ok") /\ markers'[p] = markers[p] \cup {"job-done"}
    BY <1>1, <1>10 DEF TouchThen, ChainTypeOK
  <2>2. \A r \in Stages : After(r) \in markers[p]
    <3>1. After(s) \in markers[p] /\ \A r \in Stages : r = s \/ Rank[r] < Rank[s]
      BY <1>10 DEF MarkInv, InOrder
    <3>2. QED BY <1>10, <3>1 DEF MarkInv
  <2>3. \A r \in Stages : /\ pc'[p][r] = "err" <=> pc[p][r] = "err"
                          /\ pc'[p][r] = "hold" => pc[p][r] = "hold"
    BY <1>0, <1>10, <2>1
  <2>4. Err => \E r \in Stages : Blamed(r) /\ late
    BY <1>2, <2>2
  <2>5. "failed" \in markers'[p] <=> "failed" \in markers[p]
    BY <2>1
  <2>6. Err => \E r \in Stages : /\ pc'[p][r] = "err"
                                 /\ \/ After(r) \notin markers'[p]
                                    \/ late /\ r \in LastStages /\ "job-done" \in markers'[p]
                                 /\ \A q \in Stages : Rank[q] < Rank[r] => After(q) \in markers'[p]
    BY <2>1, <2>2, <2>3, <2>4
  <2>7. QED BY <1>2, <2>1, <2>3, <2>5, <2>6 DEF Alive
<1>11. QED BY <1>3, <1>4, <1>5, <1>6, <1>7, <1>8, <1>9, <1>10 DEF LifeStep

\* The ranks of the stages of a pod.
LEMMA RankType == \A s \in Stages : Rank[s] \in {1, 2, 3, 4, 5} /\ (Rank[s] = 1 => s = "cleanup")
  BY ChainAssumption DEF Rank

\* A live pod whose stages all wait, hold or are home has none to wait for the
\* others: the lowest that waits has its marker, and the last does not hold.
LEMMA NobodyGivesUp ==
  ASSUME InOrder, RestartPolicy = "Never", "slow" \notin Faults,
         \E s \in Stages : AfterTouch(s) # "hold",
         NEW late, NEW p \in Pods, NEW s \in Stages, TurnInv(p), MarkInv(p), Alive(p, late),
         TimesOut(p, s)
  PROVE  FALSE
<1> USE DEF Idle, Through
<1>1. "failed" \notin markers[p] /\ Missing(p, s) /\ Patience(p)
  BY DEF TimesOut
<1>2. \A r \in Stages : pc[p][r] # "err"
  BY <1>1 DEF Alive
<1>3. \A r \in Stages : pc[p][r] = "ok" \/ Missing(p, r)
  BY <1>1, <1>2 DEF Patience
<1>4. ASSUME NEW r \in Stages, pc[p][r] = "ok" PROVE FALSE
  <2>1. "job-done" \in markers[p]
    BY <1>2, <1>4 DEF Alive
  <2>2. pc[p][s] \in Through
    BY <1>2, <1>4 DEF TurnInv, LostPods
  <2>3. QED BY <1>1, <2>1, <2>2 DEF Missing, Polling, Awaited
<1>5. \A r \in Stages : Missing(p, r)
  BY <1>3, <1>4
<1>6. ASSUME NEW r \in Stages, \A q \in Stages : Rank[q] < Rank[r] => pc[p][q] = "hold"
      PROVE  pc[p][r] = "hold"
  <2> SUFFICES ASSUME pc[p][r] = "wait" PROVE FALSE
    BY <1>5 DEF Missing, Polling
  <2>1. r # "cleanup" /\ Before(r) \notin markers[p]
    BY <1>5 DEF Missing, Polling, Awaited
  <2>2. PICK q \in Stages : After(q) = Before(r) /\ Rank[q] < Rank[r]
    BY <2>1 DEF InOrder
  <2>3. QED BY <1>6, <2>1, <2>2 DEF MarkInv
<1>7. \A r \in Stages : Rank[r] < 2 => pc[p][r] = "hold"
  BY <1>6, RankType
<1>8. \A r \in Stages : Rank[r] < 3 => pc[p][r] = "hold"
  BY <1>6, <1>7, RankType
<1>9. \A r \in Stages : Rank[r] < 4 => pc[p][r] = "hold"
  BY <1>6, <1>8, RankType
<1>10. \A r \in Stages : Rank[r] < 5 => pc[p][r] = "hold"
  BY <1>6, <1>9, RankType
<1>11. \A r \in Stages : pc[p][r] = "hold"
  BY <1>6, <1>10, RankType
<1>12. QED BY <1>2, <1>11 DEF Alive
=============================================================================
