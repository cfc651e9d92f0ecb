SPECIFICATION FairSpec
CONSTANTS
  Workers <- MCOneWorker
  MaxRevision = 2
  MaxResults = 2
  MaxConversations = 1
  MaxJobs = 2
  MaxAttempts = 2
  ModelCalls = 2
  AgentCalls = 1
  MaxCrashes = 2
INVARIANTS
  CallsWithinBudget
PROPERTIES
  AnsweredOrStale
CHECK_DEADLOCK FALSE
