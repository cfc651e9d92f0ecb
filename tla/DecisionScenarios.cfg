SPECIFICATION Spec
CONSTANTS
  Clients = {c1, c2}
  Keys <- MCKeys
  Changes <- MCChanges
  Initial = "requested"
  MaxRevision = 2
  MaxResults = 2
  MaxIntents = 2
  MaxScenarios = 2
  Overlapping = FALSE
SYMMETRY ClientSymmetry
INVARIANTS
  OneEffectPerKey
  ReadyScenarioIsCurrent
  
PROPERTIES
  AppliesToItsBaseline
CHECK_DEADLOCK FALSE
