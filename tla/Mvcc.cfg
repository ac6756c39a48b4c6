SPECIFICATION Spec
CONSTANTS
  t1 = t1
  t2 = t2
  t3 = t3
  Txn <- MCTxn
  Workloads <- MCWorkloads
  MaxDepth = 2
  MaxJobs = 2
  ForceGc = 2
INVARIANTS ReadsExact CollectionSafe
CHECK_DEADLOCK FALSE
