\* Two supervised loops, then a bare one; one message for each.
CONSTANTS
  analyze = analyze  scenario = scenario  diff = diff
  Groups <- AnalyzerThenDiff
  Supervised <- UnderSupervisor
  PerQueue = 1
SPECIFICATION FairShutdownSpec
PROPERTY ShutdownEnds
CHECK_DEADLOCK FALSE
