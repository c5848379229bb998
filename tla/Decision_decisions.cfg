SPECIFICATION DecisionSpec
CONSTANTS
  Agents = {a1, a2, a3, a4}
  Subjects <- MCSubjects
  StrongScore = 6
  WeakScore = 3
  HoldRatio = 6
  ConfidenceSum = 10
  RecallConfidence = 4
  MaxTargets = 2
  MaxLeg = 1000
  Weights <- Holdings
  TickerLimit = 325
  SectorOf <- Sectors
  SectorLimit = 615
  Excluded = {}
  LowEsg = {}
  Conservative = FALSE
  Suspended = {}
  Opinions <- AllOpinions
  Plans <- AllPlans
  ExecutionPlans <- AllExecutionPlans
  Workers <- ServiceWorkers
  DropInvalid = TRUE
  ResolveTickers = TRUE
  DriftThreshold = 200
  Portfolios <- AllPortfolios
  Modes <- AllModes
  Rates = {1, 2}
  Caps = {230, 10000}
  TaxSettings = {TRUE, FALSE}
SYMMETRY Symmetry
INVARIANTS
  VotesAreComplete
  RecallJustified
  FinalWithinChecked
  NearlyNeutral
  VetoStands
  CashNeutral
  TradesApproachTarget
  LossesFirst
