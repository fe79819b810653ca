\* Every graph over a start node, two steps and a name that is no step; two names may be repeated.
CONSTANTS
  a = a  b = b  start = start  ghost = ghost
  Step <- ThreeSteps
  Foreign <- GhostOnly
  Reserved <- StartOnly
  Most = 2
  Repeated <- StartAndA
SPECIFICATION SortFairSpec
PROPERTY ImplementsWaveOrder
CHECK_DEADLOCK FALSE
