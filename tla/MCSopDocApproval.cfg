SPECIFICATION Spec
CONSTANTS
  SopName <- OpsName
  Catalogs <- OneOpsCatalog
  MaxConcurrentTotal = 1
  MaxFinishedRuns = 1
  ApprovalTimeoutSecs = 1
  MaxRuns = 1
  MaxNow = 1
  MaxSavedRuns = 0
CHECK_DEADLOCK FALSE
PROPERTIES ApprovalEnforced
