SPECIFICATION MCSpec
CONSTANTS
  r1 = r1
  r2 = r2
  n1 = n1
  n2 = n2
  d1 = d1
  m1 = m1
  Absent = Absent
  Torn = Torn
  NoFiles = NoFiles
  Runs = {r1, r2}
  Calls = {n1, n2, d1, m1}
  Items <- MCItems
  Feeds <- MCFeeds
  InitialItems <- MCInitialItems
  EventLimit <- MCLimit
  DocumentLimit <- MCLimit
  MarketWide = FALSE
  MaxSeconds = 2
  AgentOf <- MCAgentOf
  RunOf <- MCRunOf
  DepthOf <- MCDepthOf
  Settings <- MCSettings
INVARIANTS
  EachItemOnce
  FallbacksAsSet
  EvidenceIsUsed
