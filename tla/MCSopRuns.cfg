SPECIFICATION Spec
CONSTANTS
  SopName <- OpsName
  Catalogs <- OpsCatalogs
  MaxConcurrentTotal = 2
  MaxFinishedRuns = 2
  ApprovalTimeoutSecs = 1
  MaxRuns = 3
  MaxNow = 1
  MaxSavedRuns = 0
CHECK_DEADLOCK FALSE
INVARIANTS TypeOK TimeoutSurfaced ConcurrencyLimit
PROPERTIES GatedStepsWait CooldownRespected HistoryKeepsNewest
