SPECIFICATION Spec
CONSTANTS
  t1 = t1
  t2 = t2
  None = None
  Threads = {t1, t2}
  Metrics = {1, 2}
  Loads <- MCLoads
  QueryMaxItems = 2
  Freshness = 2
  MaxEpoch = 4
  MaxKeys = 2
  MaxHistory = 2
  MaxHistoryDuration = 1
  MaxTotalBytes = 9
  MaxTombstones = 1
  EntryBytes = 1
CHECK_DEADLOCK FALSE
INVARIANTS
  StoreExact
  UpdateReadable
  AnswerIsSnapshot
  
