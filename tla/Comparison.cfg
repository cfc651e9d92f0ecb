SPECIFICATION ComparisonSpec
CONSTANTS
  Quotes <- MCQuotes
  SupplierOf <- MCSupplierOf
  Sheets <- MCSheets
  History <- MCHistory
  Requirements <- MCRequirements
  Hypotheses <- MCHypotheses
  Assessments <- MCAssessments
  Answers <- MCAnswers
  LastDay = 1
INVARIANTS
  RecommendedIsBest
  RecommendationStands
  HypothesesComeTrue
CHECK_DEADLOCK FALSE
