SPECIFICATION FairSpec
CONSTANTS
  Devices = {1, 2}
  Enabled = {1}
  Algorithms = {blake3, kheavyhash, sha256, unknown}
  Unsupported = {sha256, unknown}
  Unknown = unknown
  Extranonced = {sha256}
  Pinned = {blake3, kheavyhash}
  Epochs = {1}
  None = None
  MaxSwitches = 2
  MaxJobs = 2
  blake3 = blake3
  kheavyhash = kheavyhash
  sha256 = sha256
  unknown = unknown
INVARIANTS ResolverOutlivesCalls RightResolver  
PROPERTY AwaitEnds
