CONSTANTS
  t1 = t1
  t2 = t2
  t3 = t3
  t4 = t4
  Threads = {t1, t2, t3, t4}
  ReadItem = ReadItem
  SpuriousWakeups = FALSE
  RwThreads = {t1, t2, t3, t4}
  NoCond = NoCond
  k1 = k1
  k2 = k2
  Txns = {1, 2, 3}
  Keys = {k1, k2}
  None = None
SPECIFICATION MCSpec
INVARIANTS WakeupStillValid ReadCostHonest NoLostWakeup LoadSound
PROPERTIES NoOvertaking RWLSpec RwImplements WaitersServed
CHECK_DEADLOCK FALSE
