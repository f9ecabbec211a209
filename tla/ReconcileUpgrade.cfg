CONSTANTS
  CRs <- Namesakes
  Specs <- Upgrades
  First <- AnyUpgrade
  MaxLabel = 6
  Start = "new"
  Legacy <- TheRestore
  Faults = {"resync"}
  MaxTurns = 0
SPECIFICATION FairSpec
PROPERTIES NoTakeover Converges
CHECK_DEADLOCK FALSE
