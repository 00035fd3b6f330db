SPECIFICATION MCSpec
CONSTANTS
  Slots = {s1, s2}
  Mems = {m1, m2}
PROPERTIES StreamsComplete ElementsRecover
CHECK_DEADLOCK FALSE
