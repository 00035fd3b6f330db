SPECIFICATION MCSpec
CONSTANTS
  Producers = {p1, p2}
  None = None
  PoolSize = 2
  Geometries = {g1, g2}
  InitialGeometry = g1
  MaxValue = 2
  MaxGen = 3
PROPERTIES ProducerNotStarved OpenAnswered RingRecovers CloseReturns
CHECK_DEADLOCK FALSE
