SPECIFICATION MCSpec
CONSTANTS
  Threads = {t1, t2, t3}
  Torn = Torn
  Capacity = 2
  MaxBuffers = 2
  MaxEvents = 3
  Waiters = {w1, w2}
  MaxGen = 2
  Mappings = {m1, m2}
  Ends = {e1, e2}
  QueueLimit = 2
  MaxSerial = 4
INVARIANTS PrefixOnly LossReported CoordinatorSound EventsSound
PROPERTIES ThreadsReturn
CHECK_DEADLOCK FALSE
