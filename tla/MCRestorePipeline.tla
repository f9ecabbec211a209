------------------------- MODULE MCRestorePipeline -------------------------
(* Sets of stored dumps for the model checker.                             *)
EXTENDS RestorePipeline

Dump(d, t) == [db |-> d, at |-> t]

\* No spec.backupFile, and one that is not stored.
NoFile == NoObject
LostFile == Dump(1, 9)

OneDatabase == {Dump(1, 1), Dump(1, 2)}
=============================================================================
