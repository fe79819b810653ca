\* Whole scenarios and data templates under review: what the acceptance sends on.
CONSTANTS
  a1 = a1  a2 = a2  a3 = a3  v1 = v1  v2 = v2  p1 = p1  p2 = p2  r1 = r1  r2 = r2  r3 = r3
  t1 = t1  t2 = t2  t3 = t3
  Apis <- ThreeApis
  Score <- ChainOfTwo
  Sampled <- Recorded
  Tasks <- ThreeRequests
  JobApis <- EndsAndAll
  BatchSize = 2
  Threshold = 12
  Kinds <- AllKinds
  Versions <- TwoVersions
  Parts <- TwoParts
  Suggests <- Held
  Usables <- ThreeUsables
  Settings <- TwoSettings
  Grades <- TwoGradings
  MinConfidence = 60
  Reviewers <- TwoReviewers
  Titles <- ThreeTitles
  Alike <- Chained
  Sources <- ThreeApis
  Taught <- TitlesOf
  Pupils <- ThreeRequests
  Lessons <- SomeLessons
  Subject = a3
  Refusal = t3
SPECIFICATION Spec
INVARIANT DownstreamFollows
CHECK_DEADLOCK FALSE
