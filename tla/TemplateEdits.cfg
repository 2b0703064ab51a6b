SPECIFICATION HistorySpec

CONSTANTS
  r1 = r1
  r2 = r2
  c1 = c1
  None = None
  Requests <- TwoRequests
  MaxVersion = 2
  Slots = {1, 2}
  Numbers = {1, 2}
  Codes <- OneCode
  Kinds <- RowKinds
  Seed <- FirstSeed
  Failures = TRUE

SYMMETRY Symmetric

PROPERTIES
  StartedEvaluationsKeepTemplate
  CloneKeepsEdits
