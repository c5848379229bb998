SPECIFICATION StreamsSpec
CONSTANTS
  Threads = {t1, t2}
  Streams = {s1, s2}
  Requests <- AllRequests
  Exclusive = FALSE
  MaxCrashes = 1
  None = None
  Agents = {a1, a2}
INVARIANTS
  ApprovalGate
  DebateInOrder
  NothingLost
  FailureSurfaces
PROPERTIES
  EveryStreamCloses
  StreamEnds
