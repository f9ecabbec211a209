CONSTANTS
  CRs <- OneBackup
  Specs <- Admissions
  First <- AnyAdmission
  MaxLabel = 6
  Start = "absent"
  Legacy <- NoCRs
  Faults = {"edit", "delete", "api", "crash", "tick", "secret"}
  MaxTurns = 2
SPECIFICATION Spec
INVARIANTS TypeOK ReadyMeansSynced
CHECK_DEADLOCK FALSE
