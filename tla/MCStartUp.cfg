SPECIFICATION StartSpec
CONSTANTS
  None = None
  Built = {"amd", "nvidia", "cpu"}
  MaxGpus = 1
  MaxStratums = 3
INVARIANTS
  SpeaksForItsPool
  MinesItsPool
