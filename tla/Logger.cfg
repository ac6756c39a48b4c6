CONSTANTS
  t1 = t1
  t2 = t2
  c = c
  Threads = {t1, t2, c}
  Checkpointer = c
  Flushers = {t2}
  None = None
  BufSize = 1
  LgMax = 1
  MaxLsn = 4
  MaxCrashes = 1
SPECIFICATION FairSpec
INVARIANTS
  InOrder
  CommitDurable
  RecoveryHasItsLog
PROPERTIES
  EveryCallReturns
