SPECIFICATION Spec
CONSTANTS
  Agents = {a1, a2}
  Subjects <- MCSubjects
  StrongScore = 6
  WeakScore = 3
  HoldRatio = 6
  ConfidenceSum = 10
  RecallConfidence = 4
  MaxTargets = 2
  MaxLeg = 1000
  Weights <- Holdings
  TickerLimit = 1000
  SectorOf <- NoSectors
  SectorLimit = 1000
  Excluded = {}
  LowEsg = {}
  Conservative = FALSE
  Suspended = {}
  Opinions <- PortfolioOpinions
  Plans <- UnevenPlans
  ExecutionPlans <- NoExecutionPlans
  Workers <- ServiceWorkers
  DropInvalid = TRUE
  ResolveTickers = TRUE
SYMMETRY Symmetry
INVARIANTS
  ApprovalShowsDecision
