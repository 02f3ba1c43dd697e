\* Every resolver; three jobs that may differ in period and epoch.
SPECIFICATION Spec
CONSTANTS
  Kinds = {"AmdEthash", "AmdAutolykosV2", "AmdKHeavyHash", "AmdBlake3", "AmdProgPOW", "NvidiaEthash", "NvidiaAutolykosV2", "NvidiaKHeavyHash", "NvidiaBlake3", "NvidiaProgPOW"}
  Blocks = {2, 4, 8}
  EpochLength = 8
  MaxPeriod = 4
  FirstPeriod = 11111
  MaxResult = 2
  KeepStale = FALSE
  MaxJobs = 3
  MaxBatches = 2
  MaxFinds = 3
INVARIANTS
  Accounted
  ShareIsRecent
PROPERTIES
  LostOnly
  LaunchFits
  WinnersLeave
