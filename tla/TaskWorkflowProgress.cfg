SPECIFICATION FairSpec
CONSTANTS
  MaxRevision = 3
  MaxGraphs = 2
  MaxJobs = 3
  MaxIssues = 1
  MaxAssessments = 3
  MaxConfirmations = 2
  MaxQuotes = 1
  MaxAttempts = 2
  Contents <- ThreeContents
  BlockedContents <- Blocked
  DirectUpload = TRUE
  Faults <- RunFaults
INVARIANTS
  NeedsInputHasQuestion
  ResultWasConfirmed
PROPERTIES
  
  RunningJobEnds
CHECK_DEADLOCK FALSE
