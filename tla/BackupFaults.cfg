CONSTANTS
  Stages = {"cleanup", "dump", "compress", "encrypt", "s3-sync"}
  MaxPods = 2
  Engine = "postgres"
  RestartPolicy = "Never"
  BackoffLimit = 0
  Overlap = FALSE
  SameMinute = FALSE
  Faults = {"tool", "evict"}
  LocalKeep = 1
  S3Keep = 1
  MaxTime = 3
  MaxRestarts = 0
  MaxKills = 1
SPECIFICATION Spec
INVARIANTS TypeOK NoPlaintextLeavesPod OnlyWholeDumpsInS3 SuccessMeansStored JobDoneMeansSuccess
PROPERTIES S3NeverEmptied NoVainWait TakesTurns
