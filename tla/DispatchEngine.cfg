\* Two nodes, one subscription, three events: the engine by itself, with two
\* faults, and an administrator who may only skip dead rows.
CONSTANTS
  n1 = n1
  n2 = n2
  NoNode = NoNode
  Nodes = {n1, n2}
  Subs = {1}
  MaxSeq = 3
  MaxOpen = 1
  FanoutBatch = 2
  DeliverBatch = 2
  RetryMax = 2
  AttemptCap = 3
  DictMatches <- MCAllRows
  Matches <- MCAllRows
  Registered = {1}
  LateNodes = FALSE
  AdminOps = {"skip"}
  MaxFaults = 2
SPECIFICATION Spec
SYMMETRY NodeSymmetry
INVARIANTS
  TypeOK
  OneInFlight
  NoEventSkipped
  FailedHasAttemptsLeft
PROPERTIES
  WatermarkMonotonic
  FirstReceiptInOrder
  FinalIsFinal
  DeliversAsPromised
