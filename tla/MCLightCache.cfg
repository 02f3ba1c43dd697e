SPECIFICATION Spec
CONSTANTS
  Devices = {d1, d2, d3}
  Families = {{"AmdEthash"}, {"NvidiaEthash"}, {"AmdEtchash"}, {"NvidiaEtchash"}, {"AmdProgPOW", "NvidiaProgPOW"}}
  Epochs = {0, 1, 2}
  MaxEpoch = 1
  NoEpoch = 9
  CountModulus = 8
  MaxUpdates = 4
INVARIANTS
  UploadsOwnLightCache
  CountCoversHolders
  ReleasedWhenQuiet
CHECK_DEADLOCK FALSE
