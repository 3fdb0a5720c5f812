\* Every administrator operation, beside nodes that may outlast the reclaim
\* time.  The first failure of a row is its last one.
CONSTANTS
  n1 = n1
  n2 = n2
  NoNode = NoNode
  Nodes = {n1, n2}
  Subs = {1}
  MaxSeq = 2
  MaxOpen = 2
  FanoutBatch = 1
  DeliverBatch = 2
  RetryMax = 0
  AttemptCap = 1
  DictMatches <- MCAllRows
  Matches <- MCFiltered
  Registered = {1}
  LateNodes = TRUE
  AdminOps = {"retry", "batch", "rebuild", "force", "toggle", "delete"}
  MaxFaults = 0
SPECIFICATION Spec
SYMMETRY NodeSymmetry
INVARIANTS
  DeliveredWasReceived
PROPERTIES
  FanoutIsComplete
