--------------------------- MODULE MCMonitorSchedule ---------------------------
EXTENDS MonitorSchedule, TLC
CONSTANTS m1, m2, a1, a2, hourly, daily

TwoMonitors == {m1, m2}
TwoPlans == {hourly, daily}
TwoRequests == {a1, a2}

Symmetric == Permutations(TwoMonitors) \cup Permutations(TwoPlans) \cup Permutations(TwoRequests)
==============================================================================
