SPECIFICATION Spec
CONSTANTS
  t1 = t1
  t2 = t2
  None = None
  Threads = {t1, t2}
  Operations = {"activate", "collect", "freshness"}
  Catalogs <- MCOneCatalog
  Readings <- MCFewReadings
  Requests <- MCNoRequests
  Freshness = 1
  MaxTime = 2
  MaxEpoch = 6
  MaxTombstones = 1
  MaxEvidenceItems = 2
  MaxEvidenceBytes = 3
  EvidenceTtl = 1
  MaxEvidenceId = 4
  MaxHealthEntries = 1
  MaxHealthResultBytes = 3
  MaxHealthBytes = 3
INVARIANTS
  HealthFollowsLatest
CHECK_DEADLOCK FALSE
