CONSTANTS
  Txns = {1, 2, 3, 4}
  MaxOps = 3
  MaxMsgs = 4
  MaxChanges = 2
  Checkpoints = 1
SPECIFICATION Spec
CHECK_DEADLOCK FALSE
INVARIANTS NodeHolds NodeStored
