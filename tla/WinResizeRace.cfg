CONSTANTS
  PoolSize = 2
  Geometries = {g1, g2}
  InitialGeometry = g1
  GpuSync = FALSE
  Defer = FALSE
  AllocMayFail = FALSE
  Reattach = FALSE
  MaxValue = 2
  MaxGen = 4
SPECIFICATION Spec
INVARIANT PendingIntact
CHECK_DEADLOCK FALSE
