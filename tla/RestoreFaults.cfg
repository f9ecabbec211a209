CONSTANTS
  Stages = {"cleanup", "fetch", "decrypt", "extract", "restore"}
  MaxPods = 2
  Engine = "postgres"
  RestartPolicy = "Never"
  BackoffLimit = 0
  Overlap = FALSE
  Faults = {"tool", "evict"}
  Objects <- OneDatabase
  BackupFile <- NoFile
  Fallback = TRUE
  DropAllowed = {2}
  MaxRestarts = 0
  MaxKills = 1
SPECIFICATION Spec
INVARIANTS TypeOK DoneMeansRestored
PROPERTIES LiveDataKept NoVainWait TakesTurns
