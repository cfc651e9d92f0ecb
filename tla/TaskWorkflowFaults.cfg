SPECIFICATION Spec
CONSTANTS
  MaxRevision = 4
  MaxGraphs = 3
  MaxJobs = 3
  MaxIssues = 1
  MaxAssessments = 3
  MaxConfirmations = 2
  MaxQuotes = 1
  MaxAttempts = 2
  Contents <- OneContent
  BlockedContents = {}
  DirectUpload = FALSE
  Faults <- WorkerFaults
INVARIANTS
  LiveJobIsCurrent
  OpenIssueIsCurrent
  ResultIsCurrent
  ActiveRunHasWork
PROPERTIES
  ImplementsDecision
  AbandonedIsFinal
  FinalRowsStay
CHECK_DEADLOCK FALSE
