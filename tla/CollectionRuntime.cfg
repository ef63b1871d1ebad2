SPECIFICATION Spec
CONSTANTS
  k1 = k1
  k2 = k2
  Keys <- MCKeys
  Clients = {c1, c2}
  PlanJobs <- AllJobs
  RouteChoices <- AllRoutes
  MaxProviderQueue = 1
  MaxFreshWaiters = 2
  MaxRequestId = 4
  MaxPlanVersion = 2
  MaxGeneration = 2
  MaxTime = 2
CONSTRAINT Bounds
VIEW View
SYMMETRY ClientSymmetry
CHECK_DEADLOCK FALSE
INVARIANTS
  BusyKeysExact
  NoOrphanWaiter
  ExpiredTaskHasNoPatientWaiter
  ShutdownLeavesNothing
  
PROPERTIES
  CompletionFinal
