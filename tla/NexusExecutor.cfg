SPECIFICATION Spec
CONSTANTS
  Clients = {c1, c2}
  TxIds = {x, y, z}
  Times = {1, 2, 3}
  NoTime = NoTime
  MaxRows = 2
  MaxEpoch = 1
SYMMETRY Symmetry
CHECK_DEADLOCK FALSE
INVARIANTS RunsAreOrdered NoneLoggedInSafetyMode
