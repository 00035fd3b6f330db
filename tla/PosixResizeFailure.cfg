CONSTANTS
  Producers = {p1, p2}
  None = None
  PoolSize = 2
  Geometries = {g1, g2}
  InitialGeometry = g1
  GpuSync = FALSE
  Defer = FALSE
  Leases = FALSE
  Fences = {FALSE}
  AllocMayFail = TRUE
  MaxValue = 2
  MaxGen = 3
  MaxReaders = 1
  MaxRefs = 0
SPECIFICATION LiveSpec
PROPERTY ProducerNotStarved
CHECK_DEADLOCK FALSE
