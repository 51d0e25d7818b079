SPECIFICATION Spec
CONSTANTS
  s1 = s1
  s2 = s2
  Specialist <- BothSpecialists
  Coordinator = Coordinator
  LeaseTimes <- ShortLease
  MaxLease = 2
  MaxSubmissions = 4
  MaxClaims = 4
SYMMETRY SpecialistsAlike
CHECK_DEADLOCK FALSE
INVARIANTS
  TypeOK
  BarrierFollowsRoles
  TeamDecidedByAll
  OneOpenSubmission
  GenerationSubmitsOnce
  GrantsBackActions
PROPERTIES
  ImplementsTeamDecision
