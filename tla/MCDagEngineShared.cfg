\* Two concurrent runs on the one engine of MonitorService (monitor.py:68).
CONSTANTS
  r1 = r1  r2 = r2  e1 = e1
  start = start  a = a  c = c  k1 = k1  k2 = k2  l = l  m = m  n = n  z = z  b = b
  Root = Root  Nobody = Nobody
  Runs <- TwoRuns
  Engines <- OneEngine
  Steps <- PairSteps
  Reserved <- StartOnly
  EngineOf <- SharedEngine
  StepsOf <- PairStepsOf
  Kind <- PairKind
  Parent <- PairParent
  DependsOn <- PairDependsOn
  Retry <- PairRetry
  Condition <- PairCondition
  Times <- PairTimes
  Outcomes <- PlainOutcomes
SPECIFICATION Spec
INVARIANT ContainersKeepChildren
CHECK_DEADLOCK FALSE
