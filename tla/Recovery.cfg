CONSTANTS
  Programs <- MCPrograms
  MaxCrashes = 2
  MaxCheckpoints = 1
SPECIFICATION MCSpec
INVARIANTS RecoveryExact IndexExact AssertsHold
CHECK_DEADLOCK FALSE
