CONSTANTS
  NumBlocks = 2
  Offsets = {10, 11, 12, 13, 14, 15, 16, 17}
  None = None
  MaxStamp = 2
  MaxCheckpoints = 2
  MaxCrashes = 1
SPECIFICATION Spec
INVARIANTS TableSound SpaceExact Recoverable
CHECK_DEADLOCK FALSE
