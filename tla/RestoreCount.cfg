CONSTANTS
  Stages = {"cleanup", "fetch", "decrypt", "extract", "restore"}
  MaxPods = 1
  Engine = "mariadb"
  RestartPolicy = "Never"
  BackoffLimit = 0
  Overlap = FALSE
  Faults = {"tool"}
  Objects <- OneDatabase
  BackupFile <- NoFile
  Fallback = TRUE
  DropAllowed = {}
  MaxRestarts = 0
  MaxKills = 0
SPECIFICATION Spec
PROPERTIES LiveDataKept
