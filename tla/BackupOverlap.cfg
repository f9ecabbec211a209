CONSTANTS
  Stages = {"cleanup", "dump", "compress", "encrypt", "s3-sync"}
  MaxPods = 2
  Engine = "pvc"
  RestartPolicy = "Never"
  BackoffLimit = 0
  Overlap = TRUE
  SameMinute = TRUE
  Faults = {}
  LocalKeep = 1
  S3Keep = 1
  MaxTime = 1
  MaxRestarts = 0
  MaxKills = 0
SPECIFICATION Spec
INVARIANTS SuccessMeansStored
