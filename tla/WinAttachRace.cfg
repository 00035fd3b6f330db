CONSTANTS
  PoolSize = 2
  Geometries = {g1, g2}
  InitialGeometry = g1
  GpuSync = FALSE
  Defer = FALSE
  AllocMayFail = FALSE
  Reattach = TRUE
  MaxValue = 2
  MaxGen = 4
SPECIFICATION Spec
PROPERTY HandedOverIdle
CHECK_DEADLOCK FALSE
