SPECIFICATION Spec
CONSTANTS
  Jobs = {j1, j2}
  Workers = {w1}
  QueueCap = 1
  PoolCap = 1
  None = None
INVARIANTS
  DispatchNeverPanics
