\* Two jobs for one API, the first from the service or a click, the second from a HAR import; all their retries; one crash.
CONSTANTS
  j1 = j1  j2 = j2  api = api  c1 = c1  c2 = c2
  Jobs <- TwoJobs
  Apis <- OneApi
  ApiOf <- SameApi
  SourceOf <- ServiceAndHar
  Manual <- FirstJob
  Forced <- FirstJob
  Coroutines <- Two
  Concurrency = 2
  MaxRetry = 2
  MaxLimited = 0
  MaxCrashes = 1
SPECIFICATION FairSpec
INVARIANTS ShownBusyIsBusy NotedFirstIsShown
PROPERTIES ImplementsJobLife Settles
CHECK_DEADLOCK FALSE
