SPECIFICATION Spec
CONSTANTS
  Quotes <- MCQuotes
  Supplier <- MCSupplier
  Cost <- MCCost
  Currency = "SGD"
  Part = "p1"
  Clauses <- MCClauses
  Facts <- MCFacts
  Editors <- MCEditors
  MaxDay = 3
  MaxEvidence = 3
  MaxRevision = 5
INVARIANTS
  ChainIsLinear
  PublishedAsConfirmed
  RecommendedIsSupported
CHECK_DEADLOCK FALSE
