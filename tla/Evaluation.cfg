SPECIFICATION MCHistorySpec

CONSTANTS
  r1 = r1
  r2 = r2
  p1 = p1
  s1 = s1
  s2 = s2
  i1 = i1
  None = None
  Requests <- TwoRequests
  Profiles <- OneProfile
  Sections <- TwoSections
  Indicators <- OneKpi
  SectionOf <- SectionOfOne
  Scores <- OneScore
  Configs <- AnyExclusion
  MaxEvals = 3

SYMMETRY RequestSymmetry


INVARIANTS
  TypeOK
  LiveEvaluationsBounded
  SingleOpenWhileAlone
  StoredFromResponsesWhileAlone

PROPERTIES
  SettledStaysSettled
  CompletedWithinWindow
  AtomicWhileAlone
