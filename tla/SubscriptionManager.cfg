SPECIFICATION Spec
CONSTANTS
  t1 = t1
  t2 = t2
  None = None
  Threads = {t1, t2}
  Drafts <- MCAllDrafts
  Filters <- MCAllFilters
  Limits <- MCLimits
  MaxStoreEvents = 3
  MaxStoreBytes = 4
  MaxSequence = 5
  MaxSubscriptions = 2
  MaxSubscriptionId = 3
  MarkerBytes = 1
  DrainingBytes = 1
  CallbackCloses = FALSE
CONSTRAINT Bounds
SYMMETRY ThreadSymmetry
CHECK_DEADLOCK FALSE
INVARIANTS
  LogExact
  QuotaExact
  QueueInOrder
  LossAccounted
  DispatchComplete
  CloseFinal
