SPECIFICATION FairSpec
CONSTANTS
  Kinds <- MCKinds
  Quotes = 2
  Controls = 2
  NonBlocking <- MCNonBlocking
  Plans <- MCPlans
  Policy = "policy"
  PolicyBound = TRUE
  MaxModelCalls = 4
  MaxToolCalls = 6
  MaxRetries = 1
  MaxFaults = 1
INVARIANTS
  WithinBudgets
  ResolvedIsProven
  NewestIsUsed
PROPERTIES
  EveryInvestigationEnds
CHECK_DEADLOCK FALSE
