\* One consumer, two change requests, a merge and its undo.
SPECIFICATION FeedSpec
CONSTANTS
  c1 = c1
  c2 = c2
  Null = Null
  Masked = Masked
  Records = {1, 2, 3}
  Imported = {1, 2}
  FirstRow <- MCFirstRow
  Columns <- MCColumns
  Texts <- MCTexts
  Mapping <- MCMapping
  NameColumn = "name"
  Crs = {c1, c2}
  NewForms <- MCNewForms
  Changes <- MCChanges
  Rules <- MCRules
  Overrides <- MCOverrides
  Victims <- MCVictims
  MaxMerges = 1
  MaxUndos = 1
  Subs <- MCSubs
  Consumers = {p1}
  PageSize = 2
  EventLimit = 2
  MaxAcks = 2
  MaxCrashes = 1
\* The number of changes is bounded.
CHECK_DEADLOCK FALSE
SYMMETRY CrSymmetry
INVARIANTS
  TypeOK
  EventsTellTheRecord
  SubscribersAreCurrent
  FollowerCatchesUp
PROPERTIES
  ChangesAreApproved
  OffsetNeverFalls
