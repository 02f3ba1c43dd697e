\* Every resolver; two devices, nonces of seven bits, and an internal loop of one and of three.
SPECIFICATION Spec
CONSTANTS
  DeviceCount = 2
  Kinds = {"AmdEthash", "NvidiaEthash", "AmdAutolykosV2", "NvidiaAutolykosV2", "AmdProgPOW V1", "AmdProgPOW V2", "NvidiaProgPOW V1", "NvidiaProgPOW V2", "AmdKHeavyHash", "NvidiaKHeavyHash", "AmdBlake3", "NvidiaBlake3", "AmdBlake3 smart", "NvidiaBlake3 smart"}
  Base = 2
  Width = 7
  Sizes = {2, 6}
  Values = {0, 1, 2}
  Occupancies <- MCOccupancies
  GroupSize = 2
  Loops = {1, 3}
  Offsets = {6, 15}
  MaxJobs = 2
  MaxBatches = 2
  MaxShares = 2
INVARIANTS
  DistinctNonces
  RejectedExplained
  CountedOnce
CHECK_DEADLOCK FALSE
