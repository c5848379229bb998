SPECIFICATION PlanSpec
CONSTANTS
  Subjects <- Tickers
  StrongScore = 6
  WeakScore = 3
  HoldRatio = 6
  ConfidenceSum = 10
  RecallConfidence = 4
  MaxTargets = 2
  MaxLeg = 1000
  DriftThreshold = 200
  Portfolios <- AllPortfolios
  Modes <- AllModes
  Rates = {1, 2}
  Caps = {230, 10000}
  TaxSettings = {FALSE}
INVARIANTS
  DraftNeutral
