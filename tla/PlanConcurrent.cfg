SPECIFICATION PlanSpec

CONSTANTS
  r1 = r1
  r2 = r2
  p1 = p1
  s1 = s1
  i1 = i1
  q1 = q1
  None = None
  Requests <- TwoRequests
  Profiles <- OneProfile
  Sections <- OneSection
  Indicators <- OneKpi
  SectionOf <- SectionOfOne
  Scores <- ThreeScores
  Configs <- AllApplies
  MaxEvals = 1
  Tools <- BothTools
  Spellings <- TwoSpellings
  Upper <- ToUpper
  CountryOf <- Ecuador
  Thresholds <- FiveOrSeven
  TemplateThreshold = 5
  Planners <- OnePlanner
  ProgressSteps <- Steps
  MaxMeasures = 1

SYMMETRY RequestSymmetry

INVARIANTS
  RiskPerResponse
  MeasuresWereNeeded

PROPERTIES
  ClassifiedInForce
  PendingOnlyShrinks
