SPECIFICATION Spec
CONSTANTS
  n1 = n1
  n2 = n2
  n3 = n3
  t1 = t1
  t2 = t2
  Root = n1
  Leaves <- MCLeaves
  Cloneable = {n1, n2}
  Clients <- MCClients
  Works <- MCWorks
  Tokens = {1}
  MaxCheckpoints = 1
  MaxEvictions = 1
INVARIANTS CheckpointIsConsistent NodesKept
