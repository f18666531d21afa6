SPECIFICATION Spec
CONSTANTS
  a = a
  b = b
  c = c
  Workers = {w1, w2}
  Blocks <- MCBlocks
  Genesis = "genesis"
  NoRoot = NoRoot
  MaxRestarts = 1
CHECK_DEADLOCK FALSE
INVARIANTS WrittenRootCoversTheBlock OkMeansRedisIsCurrent
           PersistedNodesAreTrue
