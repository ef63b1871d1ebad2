SPECIFICATION Spec
CONSTANTS
  k1 = k1
  k2 = k2
  Keys = {k1, k2}
  NoKey = NoKey
  Incarnations = {1, 2}
  Data = {m1}
  Offers = {m1, m2}
  Descriptors <- MCDescriptors
  MaxCount = 4
  Modulus = 3
  MinimumPrevious = 2
  MaximumCurrent = 1
  MinimumInterval = 1
  MaximumGap = 1
  MaxQueuedTasks = 2
  MaxQueueBytes = 5
  MaxRecentKeys = 1
  Rebuilders = {t1, t2}
  ProcessorSets <- MCProcessorSets
  MaxRate = 1
  MaxDelay = 1
  MaxEpoch = 3
  MaxHistory = 2
  Loads <- MCLoads
INVARIANTS
  EntityRefExact
  QueueExact
  GraphExact
  
CHECK_DEADLOCK FALSE
