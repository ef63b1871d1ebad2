SPECIFICATION FairSpec
CONSTANTS
  t1 = t1
  t2 = t2
  None = None
  Threads = {t1, t2}
  Drafts <- MCFewDrafts
  Filters <- MCFilters
  Limits <- MCLimits
  MaxStoreEvents = 3
  MaxStoreBytes = 4
  MaxSequence = 3
  MaxSubscriptions = 1
  MaxSubscriptionId = 2
  MarkerBytes = 1
  DrainingBytes = 1
  CallbackCloses = FALSE
PROPERTIES
  CloseReturns
CHECK_DEADLOCK FALSE
