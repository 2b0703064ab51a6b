SPECIFICATION HistorySpec

CONSTANTS
  r1 = r1
  r2 = r2
  u1 = u1
  None = None
  Requests <- TwoRequests
  Users <- OneUser
  Linked <- OneUser
  Foreign <- OneUser
  MaxTokens = 4
  MaxEpoch = 1
  Failures = TRUE

SYMMETRY RequestSymmetry

INVARIANTS
  OneLivePerFamilyWhileCalm
  ClosedSessionsWhileCalm
  InactiveRenewsOnce

PROPERTIES
  DeadFamilyStaysDead
