CONSTANTS
  Txns = {1, 2}
  Keys = {1, 2, 3}
  None = None
  ScoreThreshold = 1
  BufferMax = 1
  Batch = 2
  MaxLocks = 3
  HotIndexer = FALSE
  Clients = {c1, c2, c3}
  Dicts = {d1}
  Objects = {o1, o2}
  Nil = Nil
  Limits = {2}
  MaxRecords = 2
  MaxSteps = 1
SPECIFICATION MCSpec
INVARIANTS ClosedFormsExact LocksExact NothingLeaked CallbackSeesOneLock ManagerSound
PROPERTIES LocktreeServes RLSpec
CHECK_DEADLOCK FALSE
