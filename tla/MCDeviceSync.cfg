SPECIFICATION FairSpec
CONSTANTS
  Devices = {1}
  Epochs = {e1, e2}
  Headers = {h1, h2}
  NoEpoch = NoEpoch
  NoHeader = NoHeader
  MaxJobs = 3
INVARIANTS
  NoJobLost
  ForeignSliceIsPending
  StaleDagIsPending
PROPERTIES
  CatchesUp
