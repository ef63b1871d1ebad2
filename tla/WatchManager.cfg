SPECIFICATION Spec
CONSTANTS
  o1 = o1
  o2 = o2
  m1 = m1
  m2 = m2
  e1 = e1
  e2 = e2
  NoEntity = NoEntity
  Owners = {o1, o2}
  Metrics = {m1, m2}
  Entities = {e1, e2}
  Requirements <- MCMergeRequirements
  Catalogs <- MCCatalogs
  Timings <- MCTimings
  MinPeriod <- MCMinPeriod
  HeartbeatFreshness = 2
  MaxLogicalWatches = 2
  MaxEffectiveWatches = 2
  MaxMetricsPerWatch = 2
  MaxDuration = 4
  MaxVersion = 6
  MaxWatchId = 3
  MaxGeneration = 2
  MaxTime = 2
  MaxSamples = 2
SYMMETRY MCSymmetry
CHECK_DEADLOCK FALSE
INVARIANTS
  SnapshotCurrent
  WatchesCurrent
  EveryWatchServed
  
