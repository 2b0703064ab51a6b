SPECIFICATION MCSpec

CONSTANTS
  r1 = r1
  u1 = u1
  root = root
  p1 = p1
  None = None
  Requests <- OneRequest
  Users <- TwoUsers
  Supers <- OneSuper
  Profiles <- OneProfile

INVARIANTS
  HandlersHadRights
  OthersOutOfReach

PROPERTIES
  RightsFromAdministrators
