SPECIFICATION Spec
CONSTANTS
  Threads = {t1}
  Streams = {s1, s2, s3}
  Requests <- AllRequests
  Exclusive = TRUE
  MaxCrashes = 1
  None = None
SYMMETRY Symmetry
INVARIANTS
  TypeOK
  AnswerMatchesPrompt
  OwnReport
PROPERTIES
  PendingReviewSettled
  ImplementsReviewGate
