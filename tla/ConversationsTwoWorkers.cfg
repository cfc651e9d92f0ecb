SPECIFICATION Spec
CONSTANTS
  Workers <- MCWorkers
  MaxRevision = 2
  MaxResults = 1
  MaxConversations = 2
  MaxJobs = 2
  MaxAttempts = 2
  ModelCalls = 1
  AgentCalls = 0
  MaxCrashes = 1
INVARIANTS
  FirstReplyStands
  EveryTurnIsClosed
CHECK_DEADLOCK FALSE
