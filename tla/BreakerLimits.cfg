SPECIFICATION BreakerFairSpec

CONSTANTS
  c1 = c1
  c2 = c2
  c3 = c3
  None = None
  Calls <- ThreeCalls
  FAILURE_THRESHOLD = 5
  OPEN_DURATION = 3
  TIMEOUT = 2

INVARIANTS
  FailuresBounded

PROPERTIES
  StoppedUnlessAnswered
  Reopens
