SPECIFICATION FairSpec
CONSTANTS
  Workers = {w1, w2, w3}
  Counts = {0, 2, 5}
  Grains = {0, 1, 3}
  MaxBatches = 2
PROPERTIES
  ImplementsParallelFor
  BatchEnds
  PoolIsJoined
