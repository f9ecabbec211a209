CONSTANTS
  MaxJobs = 1
  Overlap = FALSE
  BackoffLimit = 1
  SuccessHistory = 1
  FailedHistory = 1
  Ttl = FALSE
  SameSecond = FALSE
  Resync = FALSE
  MaxListErrors = 0
SPECIFICATION Spec
INVARIANTS FailedMeansFailed
CHECK_DEADLOCK FALSE
