CONSTANTS
  Stages = {"cleanup", "fetch", "decrypt", "extract", "restore"}
  MaxPods = 1
  Engine = "redis"
  RestartPolicy = "OnFailure"
  BackoffLimit = 2
  Overlap = FALSE
  Faults = {"kill", "sync", "stall"}
  Objects <- OneDatabase
  BackupFile <- LostFile
  Fallback = TRUE
  DropAllowed = {1}
  MaxRestarts = 3
  MaxKills = 2
SPECIFICATION FairSpec
INVARIANTS DoneMeansRestored ReplicaOnlyWhileSyncing SourceIsWanted NothingLeftBehind
PROPERTIES PodEnds
