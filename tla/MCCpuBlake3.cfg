SPECIFICATION BlakeSpec
CONSTANTS
  Count = 3
  InternalLoop = 1
  MaxResult = 2
  Stale = FALSE
  MaxJobs = 2
  MaxBatchesOfJob = 2
INVARIANTS
  SharesAccounted
  NoNonceSkipped
PROPERTIES
  BatchIsStable
  ScannedOnce
