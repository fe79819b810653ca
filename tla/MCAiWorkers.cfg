\* One job of any kind through all its tries; a try may overlap the end of the one before it.
CONSTANTS
  j1 = j1  c1 = c1  c2 = c2  c3 = c3
  Jobs <- OneJob
  Kinds <- AllKinds
  Coroutines <- ThreeCoroutines
  Concurrency = 2
  Batches = 2
  MaxRetry = 2
  MaxFree = 1
SPECIFICATION Spec
INVARIANTS BuriedForCause TargetsSettle
PROPERTY JobsSettle
CHECK_DEADLOCK FALSE
