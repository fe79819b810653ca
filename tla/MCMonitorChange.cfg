\* Four checks one after the other.
CONSTANTS
  b1 = b1  b2 = b2
  Bodies <- TwoBodies
  Threshold = 2
  OnRecovery = TRUE
  MaxChecks = 4
  Overlap = 1
  MaxTroubles = 0
  RunNow = {}
SPECIFICATION Spec
INVARIANT ChangeIsReported
CHECK_DEADLOCK FALSE
