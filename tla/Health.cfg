SPECIFICATION Spec
CONSTANTS
  t1 = t1
  t2 = t2
  None = None
  Threads = {t1, t2}
  Operations = {"activate", "collect", "provider", "freshness", "query"}
  Catalogs <- MCCatalogs
  Readings <- MCAllReadings
  Requests <- MCAllRequests
  Freshness = 1
  MaxTime = 3
  MaxEpoch = 6
  MaxTombstones = 1
  MaxEvidenceItems = 2
  MaxEvidenceBytes = 3
  EvidenceTtl = 1
  MaxEvidenceId = 4
  MaxHealthEntries = 1
  MaxHealthResultBytes = 3
  MaxHealthBytes = 3
CONSTRAINT Bounds
SYMMETRY ThreadSymmetry
CHECK_DEADLOCK FALSE
INVARIANTS
  
  HealthJustified
  EveryChangePublished
PROPERTIES
  RuntimeNeverGoesBack
