SPECIFICATION FairSpec
CONSTANTS
  Jobs = {j1, j2}
  Workers = {w1, w2}
  QueueCap = 1
  PoolCap = 1
  None = None
INVARIANTS
  TypeOK
  ExactlyOneHolder
  QueueDepthExact
  CountersBalance
PROPERTIES
  ImplementsJobService
  EveryJobFinishes
  ShutdownCompletes
