\* Two scans at a time, beside stewards and changes of the records.
CONSTANTS
  Records = {r1, r2, r3}
  Scanners = {s1, s2}
  Rows <- MCRows
  ClusterKeys <- MCKeys
  Specs <- MCSpecs
  Surviving = {"code"}
  Displayed = {"reg"}
  Texts <- MCTexts
  MinScore = 80
  MaxChanges = 1
  MaxScans = 2
SYMMETRY MCSymmetry
SPECIFICATION Spec
\* Changes and scans are bounded.
CHECK_DEADLOCK FALSE
INVARIANTS
  TypeOK
  DistanceIsMinimal
  ScanFindsAll
  SearchAgreesWithScan
  ScannerRepeatsNothing
PROPERTIES
  SettledIsFinal
