\* One job whose every call the LLM may refuse for the rate.
CONSTANTS
  j1 = j1  j2 = j2  api = api  c1 = c1  c2 = c2
  Jobs <- FirstJob
  Apis <- OneApi
  ApiOf <- FirstOnly
  SourceOf <- JustService
  Manual <- NoJob
  Forced <- NoJob
  Coroutines <- Two
  Concurrency = 2
  MaxRetry = 3
  MaxLimited = 3
  MaxCrashes = 0
SPECIFICATION Spec
INVARIANT RateLimitsBuryNone
CHECK_DEADLOCK FALSE
