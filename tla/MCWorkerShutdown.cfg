\* Two supervised loops, then a bare one; two messages for each.
CONSTANTS
  analyze = analyze  scenario = scenario  diff = diff
  Groups <- AnalyzerThenDiff
  Supervised <- UnderSupervisor
  PerQueue = 2
SPECIFICATION FairShutdownSpec
INVARIANTS LossBounded ClosedUnderNoLoop
PROPERTY LoopsStop
CHECK_DEADLOCK FALSE
