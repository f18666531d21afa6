SPECIFICATION FairSpec
CONSTANTS
  a = a
  b = b
  Threads = {t1, t2}
  NoThread = NoThread
  Txs <- MCTxs
  Batches <- MCBatches
  MaxLeaves = 3
  MaxVersions = 3
  MaxRange = 33
  MaxBatch = 3
CHECK_DEADLOCK FALSE
INVARIANTS DerivedFieldsMatchLeaves ProofsAreOfOneVersion AbsenceIsNotStale
           MmrProofNamesItsLeaf StatusLagsByOneBatch ManifestRootIsNotOlder
           MmrIsTheForest RootSurvivesRestart
PROPERTIES HeldMutexIsReleased ImplementsStateLog
