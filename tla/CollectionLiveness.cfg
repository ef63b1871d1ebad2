SPECIFICATION FairSpec
CONSTANTS
  k1 = k1
  k2 = k2
  Keys <- MCKeys
  Clients = {c1}
  PlanJobs <- ContendedJobs
  RouteChoices <- OneKeyRoutes
  MaxProviderQueue = 1
  MaxFreshWaiters = 1
  MaxRequestId = 3
  MaxPlanVersion = 1
  MaxGeneration = 1
  MaxTime = 1
CHECK_DEADLOCK FALSE
PROPERTIES
  FreshReadReturns
  ShutdownReturns
