CONSTANTS
  Cap = 2
  MaxReaders = 3
  Slots = {s1, s2, s3}
  MaxValue = 3
  MaxGen = 2
  TokenLimit = 6
SPECIFICATION Spec
INVARIANTS CountsMatch WindowOrdered NoReaderRetired
PROPERTIES TokensNeverRecycled TokenNamesOneFrame ImplementsLeaseQueue
CHECK_DEADLOCK FALSE
