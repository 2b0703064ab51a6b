SPECIFICATION MCSpec

CONSTANTS
  r1 = r1
  r2 = r2
  u1 = u1
  admin = admin
  evaluator = evaluator
  None = None
  Keep = Keep
  Requests <- TwoRequests
  Users <- OneUser
  Codes <- TwoCodes
  Admin = admin

SYMMETRY Symmetric

INVARIANTS
  AnswersHold
  RolesOnlyForMembers
  OneRoleEach
