SPECIFICATION MCSpec

CONSTANTS
  assoc = assoc
  m1 = m1
  m2 = m2
  k1 = k1
  k2 = k2
  None = None
  Profiles <- ThreeProfiles
  Level2 <- OneAssociation
  ParentOf <- OneMember
  Template <- TwoVersions
  Provisioned <- OtherWeights
  Scores <- LowAndTop
  DemoOwners <- Demo
  DemoAnswers <- OneSeed
  MaxMeasures = 2
  MaxCompletions = 4
  MaxRows = 1
  MaxEvals = 4
  SegmentOf <- TwoCountries
  OtherTool <- OtherScores

INVARIANTS
  ReadersAgree
  RecomputedAgree
  ScoresBetween
  BreakdownsHold
