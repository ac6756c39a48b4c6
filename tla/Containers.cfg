CONSTANTS
  Systems = {"tree", "omt", "mhs", "locks"}
  OmtKeys = {1, 2, 3, 4, 5}
  LockThreads = {1, 2, 3}
  NodeIds = {0, 1, 2, 3, 4, 5, 6, 7, 8, 9, 10, 11}
  MaxVal = 255
  Alignment = 4
  Sizes = {1, 6}
  BlockBound = 4
  MaxKey = 5
  Blocks = {1, 2, 3, 4, 5, 6, 7, 8, 9, 10, 11}
  Threshold = 2
  Configs <- AllConfigs
SPECIFICATION MCSpec
INVARIANTS TreeSound TreeImplements ContainersExact
CHECK_DEADLOCK FALSE
