SPECIFICATION MCSpec
CONSTANTS
  Walkers = {p1, p2}
  N = 2
  Churn = TRUE
  Faults = TRUE
  Owners = {o1, o2}
  Readers = {r1, r2}
  MaxTokens = 3
  MaxAttempts = 3
INVARIANTS AnswerIsHonest SetupSound
PROPERTIES RendezvousSound EverybodyReturns
CHECK_DEADLOCK FALSE
