SPECIFICATION Spec
CONSTANTS
  Clients = {c1}
  TxIds = {x, y, z}
  Times = {1, 2, 3}
  NoTime = NoTime
  MaxRows = 3
  MaxEpoch = 1
SYMMETRY Symmetry
INVARIANT FirstSeenOrder
CHECK_DEADLOCK FALSE
