CONSTANTS
  k1 = k1
  k2 = k2
  Txns = {1, 2, 3}
  Keys = {k1, k2}
  Ranges = {{k1}, {k2}, {k1, k2}}
  None = None
  MaxRequests = 2
  OutOfLocks = TRUE
SPECIFICATION Spec
INVARIANTS
  PendingExact
  NoMissedGrant
  NoLeakedLock
PROPERTIES
  NoFalseDeadlock
CHECK_DEADLOCK FALSE
