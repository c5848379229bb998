SPECIFICATION ProgramsSpec
CONSTANTS
  t1 = t1
  t2 = t2
  a = a
  b = b
  bad = bad
  h1 = h1
  h2 = h2
  h3 = h3
  i1 = i1
  i2 = i2
  Malformed = {bad}
  NoTicker = NoTicker
  LastDay = 8
  ChunkDays = 6
  MinSpan = 1
  RowCap = 3
  MaxPages = 3
  Cash = 2
  MaxFills = 2
  Tickers <- MCTickers
  Dates <- MCDates
  Markets <- MCMarkets
  Befores <- MCBefores
  Orders <- MCOrders
  Fixture <- MCFixture
  OrderLists <- MCOrderLists
  Holdings <- MCHoldings
  Pages <- MCPages
  Unseen = Unseen
  Shown = 2
  Lots <- MCLots
  Replies <- MCReplies
  RiskContexts <- MCRiskContexts
  TaxContexts <- MCTaxContexts
  MacroContexts <- MCMacroContexts
  SentimentContexts <- MCSentimentContexts
  ExecutionContexts <- MCExecutionContexts
  EsgContexts <- MCEsgContexts
  LiquidityContexts <- MCLiquidityContexts
  TechnicalContexts <- MCTechnicalContexts
  InfoAgents = {"disclosure", "cost", "execution"}
  Runs = {1, 2}
  Evaluations = {3, 4}
  Outcomes <- MCOutcomes
  Providers = {TRUE, FALSE}
  MaxDeaths = 1
  Issues <- MCIssues
  Cooldown = 2
  MaxRuns = 7
INVARIANT ReflectsIfAvailable
CHECK_DEADLOCK FALSE
