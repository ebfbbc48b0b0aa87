CONSTANTS
  s1 = s1
  s2 = s2
  q1 = q1
  q2 = q2
  Request = {q1, q2}
  Seed = {s1, s2}
  Key = {"x", "y", "z", "basic", "tenant_administration"}
  BigintsAreStrings = TRUE
  Faults = TRUE
  NULL = NULL
  Mix <- MCMix
  Database <- MCDatabase
  Basic = "basic"
  AdminRole = "tenant_administration"
SPECIFICATION Spec
INVARIANT TypeOK
INVARIANT InvitationIsFinal
INVARIANT SpentTokensStaySpent
INVARIANT SessionStaysInItsTenant
INVARIANT UsernamesCollideOnlyByOverlap
INVARIANT RoleNamesCollideOnlyByOverlap
INVARIANT LinksMixOnlyByOverlap
INVARIANT DeleteLeavesNoDanglingLink
INVARIANT GrantsStayInThePlan
INVARIANT WaitsAreShort
PROPERTY ProtectedRowsStay
PROPERTY LedgerSpec
PROPERTY EveryRequestAnswered
CHECK_DEADLOCK FALSE
