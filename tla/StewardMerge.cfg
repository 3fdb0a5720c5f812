\* Merges of one and two victims, and update CRs, on three records.
SPECIFICATION Spec
CONSTANTS
  r1 = r1
  r2 = r2
  r3 = r3
  l1 = l1
  l2 = l2
  l3 = l3
  l4 = l4
  Nobody = nobody
  Reqs = {t1, t2}
  Records = {r1, r2, r3}
  Lines = {l1, l2, l3, l4}
  Unborn = {l4}
  Owner <- MCOwner
  Key <- MCKey
  DedupKeys = TRUE
  Ops = {"merge", "edit"}
  Undoable = {"reviewed"}
  Victims <- Pairs
  MaxRequests = 3
INVARIANTS
  GoldenRecordExists
  NoHiddenLine
PROPERTY
  MergeKeepsKeys
SYMMETRY Symmetry
\* The number of requests is bounded.
CHECK_DEADLOCK FALSE
