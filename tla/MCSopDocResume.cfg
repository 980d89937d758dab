SPECIFICATION Spec
CONSTANTS
  SopName <- DetName
  Catalogs <- OneDetCatalog
  MaxConcurrentTotal = 1
  MaxFinishedRuns = 1
  ApprovalTimeoutSecs = 0
  MaxRuns = 1
  MaxNow = 1
  MaxSavedRuns = 1
CHECK_DEADLOCK FALSE
PROPERTIES ResumeLeavesCheckpoint
