SPECIFICATION BillSpec
CONSTANTS
  BillKeys = {k1}
  BillClients = {c1, c2}
  Limit = 2
  Grace = 2
  MaxUsage = 4
  BillMaxClock = 3
CHECK_DEADLOCK FALSE
INVARIANTS FreeCallsAreBounded GraceFollowsTheFreeTier GraceIsOnePeriod
