CONSTANTS
  MaxJobs = 3
  Overlap = TRUE
  BackoffLimit = 1
  SuccessHistory = 1
  FailedHistory = 1
  Ttl = TRUE
  SameSecond = TRUE
  Resync = TRUE
  MaxListErrors = 1
SPECIFICATION FairSpec
INVARIANTS TypeOK SucceededMeansSucceeded
PROPERTIES BackOnlyPastRemoved StatusConverges AlertAgrees
CHECK_DEADLOCK FALSE
