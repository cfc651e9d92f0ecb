SPECIFICATION FairSpec
CONSTANTS
  Drafts <- MCDrafts
  Models <- MCModels
  MaxResults = 2
  MaxJobs = 3
  MaxAttempts = 2
  MaxCalls = 3
  Faults = {"crash", "lost_answer"}
INVARIANTS
  CallsWithinBudget
PROPERTIES
  DiscardedStays
  
CHECK_DEADLOCK FALSE
