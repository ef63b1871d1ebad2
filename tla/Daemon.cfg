SPECIFICATION FairSpec
CONSTANTS
  c1 = c1
  c2 = c2
  None = None
  Conns = {c1, c2}
  Loads <- MCLoads
  MaxSessionId = 2
INVARIANTS
  SessionsOwned
  RegisteredFdsOwned
  
  ExitLeavesNothing
PROPERTY
  SignalEnds
CHECK_DEADLOCK FALSE
