SPECIFICATION FairSpec
CONSTANTS
  Threads = {t1, t2}
  Questions = {q1, q2, version}
  Version = version
  Opens <- MCOpens
  MaxRequestId = 4
  MaxSessionId = 2
  None = None
INVARIANTS
  CallsFindBackend
  ClosedLeavesNothing
PROPERTIES
  KeepsContract
  HandleCloses
CHECK_DEADLOCK FALSE
