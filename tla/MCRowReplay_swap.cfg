SPECIFICATION RowSpec
CONSTANTS
  PivotRows = 2
  MaxRows = 2
  MaxReplayed = 2
  Options <- NamesInRow
CHECK_DEADLOCK FALSE
INVARIANTS
  RowOrderRespected
