\* The key check of a new record, by a cluster key that it loads.
CONSTANTS
  Records = {1, 2, 3}
  Scanners = {1}
  Rows <- MCRows
  ClusterKeys <- CodeKey
  Specs <- MCSpecs
  Surviving = {"code"}
  Displayed = {"reg"}
  Texts <- MCTexts
  MinScore = 80
  MaxChanges = 1
  MaxScans = 1
SPECIFICATION Spec
\* Changes and scans are bounded.
CHECK_DEADLOCK FALSE
INVARIANTS
  CheckedIsNew
