SPECIFICATION BacktestSpec
CONSTANTS
  p = p
  q = q
  f = f
  g = g
  NoPlan = NoPlan
  NoFile = NoFile
  Policy = Policy
  None = None
  LastDay = 5
  MaxStarts = 2
  QuarterMonths = {3}
  Settings <- MCSettings
  WeekOf <- MCWeekOf
  MonthOf <- MCMonthOf
  Plans <- MCPlans
  Files <- MCFiles
  Outcomes <- MCOutcomes
  Commands <- MCCommands
  Strategies <- MCStrategies
INVARIANTS
  PortfolioFollowsDecisions
  OutComplete
  CadenceKept
  DelayKept
  LostOnlyAtTheEnd
  ImmediateFollowsReplay
  IssueActedOnOnce
CHECK_DEADLOCK FALSE
