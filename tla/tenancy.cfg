CONSTANTS
  None = None
  Gone = Gone
  Backend = "sqlite"
  Scenarios <- MCScenarios
  Tab = {t1, t2}
  Person = {p1, p2}
  UserId = {u1, u2}
  MaxBusiness = 2
  Invite = {i1}
  MaxCrashes = 1
SPECIFICATION Spec
SYMMETRY MCSymmetry
INVARIANTS TypeOK OneUserPerPerson InviteIsUsedOnce PageShowsItsOrg
PROPERTIES SignInSetsUp OrgKeepsABusiness
CHECK_DEADLOCK FALSE
