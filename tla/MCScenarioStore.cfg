\* Documents of three steps; three requests on two scenarios.
CONSTANTS
  c1 = c1  c2 = c2  c3 = c3  s1 = s1  s2 = s2
  start = start  end = end  begin = begin  a = a  b = b  k = k  one = one  missing = missing  Root = Root  None = None
  Reserved <- StartAndEnd
  Start = start
  End = end
  Step1 = one
  Missing = missing
  Callers <- ThreeCallers
  Ids <- TwoIds
  Plans <- SomePlans
  Slots = 1
  Faults = 1
  Restarts = 1
SPECIFICATION FairSpec
INVARIANTS ReplacedIsKept RunningIsUnderway ValidIsRunnable GeneratedIsRunnable
PROPERTY BatchesAnswer
CHECK_DEADLOCK FALSE
