SPECIFICATION PlanSpec
CONSTANTS
  Subjects <- Tickers
  StrongScore = 6
  WeakScore = 3
  HoldRatio = 6
  ConfidenceSum = 10
  RecallConfidence = 4
  MaxTargets = 2
  MaxLeg = 1000
  DriftThreshold = 200
  Portfolios <- WithDefinition
  Modes <- AllModes
  Rates = {1, 2}
  Caps = {10000}
  TaxSettings = {TRUE}
INVARIANTS
  TaxStepNeutral
