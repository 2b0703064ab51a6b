SPECIFICATION FairHistorySpec

CONSTANTS
  r1 = r1
  r2 = r2
  c1 = c1
  None = None
  Requests <- TwoRequests
  MaxVersion = 3
  Slots = {1, 2}
  Numbers = {1, 2}
  Codes <- OneCode
  Kinds <- SwitchKinds
  Seed <- NoSeed
  Failures = TRUE

INVARIANTS
  VersionsInForce

PROPERTIES
  CloneFinishes
