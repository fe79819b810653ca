\* Two monitors, two requests at once, restarts anywhere.
CONSTANTS
  m1 = m1  m2 = m2  a1 = a1  a2 = a2
  hourly = hourly  daily = daily
  Monitors <- TwoMonitors
  Plans <- TwoPlans
  Requests <- TwoRequests
  LoadLimit = 2
SPECIFICATION ScheduleSpec
INVARIANT InStep
SYMMETRY Symmetric
