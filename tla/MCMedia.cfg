SPECIFICATION MCSpec
CONSTANTS
  Images = 2
  MaxGaps = 1
  MaxInput = 3
  MaxGapEvents = 2
  MaxPauses = 1
  Slots = {s1, s2}
  Mems = {m1, m2, m3}
  MaxSubmits = 3
  Sizes = {1, 2}
  MaxFrames = 3
  MaxStarts = 2
  MaxRing = 3
  MaxStream = 2
INVARIANTS VideoDelivered NativeSound AudioDelivered
PROPERTY PlainSound
CHECK_DEADLOCK FALSE
