\* One submission, no withdrawal: requests race, webhooks repeat, calls fail.
CONSTANTS
  s1 = s1
  s2 = s2
  s3 = s3
  Slots = {s1, s2, s3}
  Ops = {"submit", "review", "callback", "lazy", "todo", "console"}
  FaultKinds = {"refused", "crash", "lostsubmit", "activation"}
  MaxFaults = 2
  MaxRounds = 1
SPECIFICATION Spec
\* A finished CR has nothing left to do.
CHECK_DEADLOCK FALSE
SYMMETRY SlotSymmetry
INVARIANTS
  ActivatedOnce
PROPERTIES
  ApprovesAsPromised
