\* Two admins, two requests, two jobs of two queues, one crash; two coroutines
\* and a slot for each worker.
CONSTANTS
  j1 = j1  j2 = j2  a1 = a1  a2 = a2  w1 = w1  w2 = w2
  Jobs <- TwoJobs
  HomeOf <- Home
  Legacy <- OldJob
  Admins <- TwoAdmins
  Coroutines <- TwoCoroutines
  Slots = 1
  MaxRequests = 2
  MaxCrashes = 1
SPECIFICATION Spec
SYMMETRY Alike
INVARIANTS OnePlace ActsOnTheOneSeen ShownDeadIsDead PageNamesEachOnce
CHECK_DEADLOCK FALSE
