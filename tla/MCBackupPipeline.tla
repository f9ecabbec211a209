------------------------- MODULE MCBackupPipeline -------------------------
(* Model checking of BackupPipeline: the cfg files give the constants.     *)
EXTENDS BackupPipeline
=============================================================================
