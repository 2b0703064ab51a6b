SPECIFICATION Spec

CONSTANTS
  r1 = r1
  r2 = r2
  p1 = p1
  p2 = p2
  p3 = p3
  n1 = n1
  n2 = n2
  n3 = n3
  None = None
  Requests <- TwoRequests
  Rows <- ThreeRows
  Names <- ThreeNames
  Creations <- SomeCreations
  Updates <- SomeUpdates

SYMMETRY Symmetric


ACTION_CONSTRAINT FewRows

INVARIANTS
  NobodyHidden

PROPERTIES
  ParentWasLevel2
  CreationsNeverOverwrite
  OpenLosesProfileOnlyConfirmed
