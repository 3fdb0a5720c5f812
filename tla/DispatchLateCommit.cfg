\* Two event transactions that overlap.
CONSTANTS
  n1 = n1
  NoNode = NoNode
  Nodes = {n1}
  Subs = {1}
  MaxSeq = 2
  MaxOpen = 2
  FanoutBatch = 2
  DeliverBatch = 2
  RetryMax = 2
  AttemptCap = 3
  DictMatches <- MCAllRows
  Matches <- MCAllRows
  Registered = {1}
  LateNodes = FALSE
  AdminOps = {}
  MaxFaults = 1
SPECIFICATION Spec
INVARIANTS
  NoEventSkipped
