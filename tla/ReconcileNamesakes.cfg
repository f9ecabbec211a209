CONSTANTS
  CRs <- Namesakes
  Specs <- Changes
  First <- BeginChanges
  MaxLabel = 6
  Start = "synced"
  Legacy <- NoCRs
  Faults = {"edit", "down", "invalid", "resync"}
  MaxTurns = 1
SPECIFICATION FairSpec
PROPERTIES DeletesOnlyOwn HolderFirst Converges
CHECK_DEADLOCK FALSE
