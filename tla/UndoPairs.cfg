\* The undo of a merge of two victims.
SPECIFICATION Spec
CONSTANTS
  r1 = r1
  r2 = r2
  r3 = r3
  l1 = l1
  l2 = l2
  l3 = l3
  l4 = l4
  Nobody = nobody
  Reqs = {t1}
  Records = {r1, r2, r3}
  Lines = {l1, l2, l3, l4}
  Unborn = {}
  Owner <- MCOwner
  Key <- MCKey
  DedupKeys = TRUE
  Ops = {"merge", "undo"}
  Undoable = {"reviewed"}
  Victims <- Pairs
  MaxRequests = 2
PROPERTY
  UndoRestores
SYMMETRY Symmetry
\* The number of requests is bounded.
CHECK_DEADLOCK FALSE
