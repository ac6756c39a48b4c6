CONSTANTS
  KibbutzWorkers = {1, 2, 3}
  PoolClients = {11, 12}
  PoolIds = {1, 2}
  Cores = 2
  Limit = 4
SPECIFICATION FairSpec
INVARIANTS BackgroundSafe
PROPERTIES BackgroundServes
CHECK_DEADLOCK FALSE
