CONSTANTS
  Stages = {"cleanup", "dump", "compress", "encrypt"}
  MaxPods = 1
  Engine = "mariadb"
  RestartPolicy = "OnFailure"
  BackoffLimit = 2
  Overlap = FALSE
  SameMinute = FALSE
  Faults = {"tool", "kill", "slow"}
  LocalKeep = 1
  S3Keep = 1
  MaxTime = 2
  MaxRestarts = 3
  MaxKills = 1
SPECIFICATION FairSpec
INVARIANTS SuccessMeansStored
PROPERTIES DoneMarkersStay PodEnds
