\* Files, specs, captures, forms and recorded flows of three requests, two at a time.
CONSTANTS
  c1 = c1  c2 = c2   ra = ra  rb = rb  rc = rc
  Callers <- TwoCallers
  Requests <- ThreeRequests
  Path <- TwoPaths
  Fields <- FieldsOf
  Bodied <- WithBody
  Plans <- SomePlans
  BatchSize = 2
  Faults = 1
  Changes = 1
  Rules <- SomeRules
SPECIFICATION Spec
INVARIANTS SameRequestOnce StoredIsSent ReportedOnce BlockedStaysOut
CHECK_DEADLOCK FALSE
