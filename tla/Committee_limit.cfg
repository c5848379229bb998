SPECIFICATION Spec
CONSTANTS
  Agents = {a1, a2, a3, a4}
  Subjects <- MCSubjects
  StrongScore = 6
  WeakScore = 3
  HoldRatio = 6
  ConfidenceSum = 10
  RecallConfidence = 4
  MaxTargets = 2
  MaxLeg = 1000
  Weights <- Concentrated
  TickerLimit = 300
  SectorOf <- NoSectors
  SectorLimit = 1000
  Excluded = {}
  LowEsg = {}
  Conservative = FALSE
  Suspended = {}
  Opinions <- FundingOpinions
  Plans <- OnlyNoPlan
  ExecutionPlans <- NoExecutionPlans
  Workers <- ServiceWorkers
  DropInvalid = TRUE
  ResolveTickers = TRUE
SYMMETRY Symmetry
INVARIANTS
  FinalTradesComply
