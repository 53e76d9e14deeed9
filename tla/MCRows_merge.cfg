SPECIFICATION MCSpec
CONSTANTS
  PivotRows = 3
  MaxRows = 4
  MaxReplayed = 3
  Options <- SomeOptions
  K = 2
  MaxCost = 1
  MaxLayers = 3
  MaxAdded = 2
CHECK_DEADLOCK FALSE
INVARIANTS
  PathIsCheapest
  ReachedIsReachable
  EveryRowOnce
  RemoteOrderKept
  LocalOrderKept
  RowTypeOK
  ReplayGivesMerge
  RowsAsAllowed
  ChangesFindRows
  ChangesAreSaved
PROPERTIES
  MergeEnds
