\* Liveness: a claim takes one row, of the smaller subscription if it can;
\* events may be archived.
CONSTANTS
  n1 = n1
  NoNode = NoNode
  Nodes = {n1}
  Subs = {1, 2}
  MaxSeq = 2
  MaxOpen = 1
  FanoutBatch = 2
  DeliverBatch = 1
  RetryMax = 2
  AttemptCap = 3
  DictMatches <- MCFewRows
  Matches <- MCFewRows
  Registered = {1, 2}
  LateNodes = FALSE
  AdminOps = {"archive"}
  MaxFaults = 1
SPECIFICATION FairSpec
PROPERTIES
  EveryEventSettles
  RunningIsReleased
