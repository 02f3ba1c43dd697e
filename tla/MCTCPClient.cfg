SPECIFICATION FairSpec
CONSTANTS
  Devices = {d1, d2}
  MaxRetry = 2
  MaxSessions = 3
  MaxQueue = 5
INVARIANTS
  OneCompletionOwed
  NoWriteOnDeletedSocket
  WritesReachThePool
  GivesUpLate
PROPERTIES
  ImplementsSerialWriter
  Reconnects
  CompletionArrives
