SPECIFICATION FairSpec
CONSTANTS
  c1 = c1
  c2 = c2
  a1 = a1
  a2 = a2
  p1 = p1
  p2 = p2
  p3 = p3
  None = None
  Clients = {c1, c2}
  Callers = {a1, a2}
  Servers = {p1, p2, p3}
  MaxDeaths = 1
  MaxCalls = 1
  MaxTime = 1
  ClientOf <- MCClientOf
  Configs <- MCConfigs
INVARIANTS
  NothingElseLeaks
  RateKept
PROPERTIES
  EveryCallEnds
