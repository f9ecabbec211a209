---------------------------- MODULE MCReconcile ----------------------------
(* Instances of Reconcile for TLC: see the .cfg files named Reconcile*.    *)
EXTENDS Reconcile

Backup(n) == [kind |-> "Backup", name |-> n]
Restore(n) == [kind |-> "Restore", name |-> n]
Plain(r) == [engine |-> "db", valid |-> TRUE, persistence |-> FALSE,
             holder |-> FALSE, s3 |-> TRUE, rev |-> r]

Held(r) == [Plain(r) EXCEPT !.persistence = TRUE, !.holder = TRUE]

OneBackup == {Backup(<<"app">>)}
\* The Restore's pre-0.0.4 name is the Backup's name.
Namesakes == {Backup(<<"app">>), Restore(<<"backup", "app">>)}
NoCRs == {}
TheRestore == {Restore(<<"backup", "app">>)}

\* Two revisions, an engine nobody implements, a spec that is not valid and
\* one whose bucket is not given.
Admissions == {Plain(1), Plain(2), [Plain(3) EXCEPT !.engine = "other"],
               [Plain(3) EXCEPT !.valid = FALSE],
               [Plain(3) EXCEPT !.s3 = FALSE]}
AnyAdmission == [c \in CRs |-> Admissions]
\* A holder is asked for, or no longer, or the engine is changed.
Changes == {Plain(1), Held(1), Plain(2), Held(3), [Held(3) EXCEPT !.engine = "pvc"]}
BeginChanges == [c \in CRs |-> {IF c.kind = "Backup" THEN Plain(1) ELSE Held(1)}]
\* An engine that only a Backup may have.
Upgrades == {Plain(1), [Plain(3) EXCEPT !.engine = "pvc"]}
AnyUpgrade == [c \in CRs |-> {s \in Upgrades : c.kind = "Restore" \/ s = Plain(1)}]
=============================================================================
