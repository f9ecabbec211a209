------------------------------- MODULE Relay -------------------------------
(***************************************************************************)
(* What the marker protocol promises of a pod whose containers are not     *)
(* restarted: its stages run a relay.  One stage runs at a time, each once *)
(* and in the order of its rank; a stage that has run stays until the last *)
(* one is through; a relay that is lost, at whatever point, is lost for    *)
(* good.  StageChain implements it without anybody who keeps the order.    *)
(***************************************************************************)
EXTENDS Integers, FiniteSets

CONSTANTS Pods, Stages,
          Rank           \* stage |-> its place in the order, from 1

VARIABLES
  running,  \* running[p]: the stage that runs, as a set of at most one
  passed,   \* passed[p]: the stages that have run
  left,     \* left[p]: the stages that have gone home
  lost      \* pods whose relay is lost

vars == <<running, passed, left, lost>>

Init ==
  /\ running = [p \in Pods |-> {}]
  /\ passed = [p \in Pods |-> {}]
  /\ left = [p \in Pods |-> {}]
  /\ lost = {}

Take(p, s) ==
  /\ p \notin lost /\ running[p] = {}
  /\ passed[p] = {r \in Stages : Rank[r] < Rank[s]}
  /\ running' = [running EXCEPT ![p] = {s}]
  /\ UNCHANGED <<passed, left, lost>>

\* The last stage may go home at once.
Pass(p, s) ==
  /\ p \notin lost /\ running[p] = {s}
  /\ running' = [running EXCEPT ![p] = {}]
  /\ passed' = [passed EXCEPT ![p] = @ \cup {s}]
  /\ \/ UNCHANGED left
     \/ passed'[p] = Stages /\ left' = [left EXCEPT ![p] = {s}]
  /\ UNCHANGED lost

Leave(p, s) ==
  /\ p \notin lost /\ passed[p] = Stages /\ s \notin left[p]
  /\ left' = [left EXCEPT ![p] = @ \cup {s}]
  /\ UNCHANGED <<running, passed, lost>>

\* A stage fails, or the pod goes; not once every stage has gone home.
Lose(p) ==
  /\ p \notin lost /\ left[p] # Stages
  /\ lost' = lost \cup {p}
  /\ running' = [running EXCEPT ![p] = {}]
  /\ passed' = [passed EXCEPT ![p] = {}]
  /\ left' = [left EXCEPT ![p] = {}]

Next == \E p \in Pods : \/ Lose(p)
                        \/ \E s \in Stages : Take(p, s) \/ Pass(p, s) \/ Leave(p, s)

Spec == Init /\ [][Next]_vars
=============================================================================
