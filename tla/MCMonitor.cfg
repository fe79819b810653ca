\* Four checks, two at once, one failure of Redis or MongoDB or one crash.
CONSTANTS
  b1 = b1  b2 = b2
  Bodies <- TwoBodies
  Threshold = 2
  OnRecovery = TRUE
  MaxChecks = 4
  Overlap = 2
  RunNow = {2}
  MaxTroubles = 1
SPECIFICATION Spec
INVARIANTS AlertOnStreak OncePerWindow SentIsRecorded
SYMMETRY BodySymmetry
CHECK_DEADLOCK FALSE
