---------------------------- MODULE MCJobStatus ----------------------------
(* Instances of JobStatus for TLC: see the .cfg files named Job*.          *)
EXTENDS JobStatus
=============================================================================
