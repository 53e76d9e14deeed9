SPECIFICATION ColumnSpec
CONSTANTS
  PivotRows = 4
  MaxRows = 4
  Locals <- Edited
  MaxRenames = 1
CHECK_DEADLOCK FALSE
INVARIANTS
  MovesFewest
  ReplayFollowsMerger
  ColumnsMerged
