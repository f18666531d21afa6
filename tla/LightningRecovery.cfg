SPECIFICATION LightningFairSpec
CONSTANTS
  Payments = {p1}
  Auditors = {orchestrator}
  PendingStale = 1
  SplitStale = 1
  MaxRetries = 3
  AgeCap = 2
  RetryCap = 4
INVARIANTS EventsTellOfValidMoves 
 
