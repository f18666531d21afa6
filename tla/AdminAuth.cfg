SPECIFICATION AdminFairSpec
CONSTANTS
  Callers = {c1, c2}
  Nobody = Nobody
  Emails = {e1}
  None = None
  ScopeLists <- MCScopeLists
  MaxRegistrations = 2
  MaxCredentials = 2
  MaxRestarts = 1
  AdminToken = TRUE
  AdminKeys = TRUE
  DebugBuild = FALSE
CHECK_DEADLOCK FALSE
INVARIANTS  OneClaimWins
PROPERTY CallsDrain
