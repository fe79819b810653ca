\* One scenario with both kinds of container, every outcome of a call.
CONSTANTS
  r1 = r1  r2 = r2  e1 = e1
  start = start  a = a  c = c  k1 = k1  k2 = k2  l = l  m = m  n = n  z = z  b = b
  Root = Root  Nobody = Nobody
  Runs <- OneRun
  Engines <- OneEngine
  Steps <- SoloSteps
  Reserved <- StartOnly
  EngineOf <- SoloEngine
  StepsOf <- SoloStepsOf
  Kind <- SoloKind
  Parent <- SoloParent
  DependsOn <- SoloDependsOn
  Retry <- SoloRetry
  Condition <- SoloCondition
  Times <- SoloTimes
  Outcomes <- AllOutcomes
SPECIFICATION FairSpec
INVARIANTS PassedMeansComplete QuietAfterVerdict ConditionSeesDependencies
PROPERTIES ImplementsScenarioRun Concludes
CHECK_DEADLOCK FALSE
