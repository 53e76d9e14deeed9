SPECIFICATION ColumnSpec
CONSTANTS
  PivotRows = 4
  MaxRows = 4
  Locals <- AsPivot
  MaxRenames = 0
CHECK_DEADLOCK FALSE
INVARIANT RoundTrip
