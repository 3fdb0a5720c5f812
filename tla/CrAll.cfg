\* Every endpoint, two rounds, every kind of fault.
CONSTANTS
  s1 = s1
  s2 = s2
  Slots = {s1, s2}
  Ops = {"submit", "review", "callback", "lazy", "todo", "console", "withdraw", "abort", "manual"}
  FaultKinds = {"refused", "timeout", "crash", "lostsubmit", "activation", "commit"}
  MaxFaults = 2
  MaxRounds = 2
SPECIFICATION FairSpec
\* A finished CR has nothing left to do.
CHECK_DEADLOCK FALSE
INVARIANTS
  TypeOK
  ActivationNeedsApproval
PROPERTIES
  ResultIsApplied
  CrashedSubmitHeals
