SPECIFICATION MCSpec
CONSTANTS
  K <- Key
  D <- Datum
  NewNames <- SomeNames
  Underscore = 0
  Values = {1, 2}
  Null = Null
  Missing = Missing
  NoTable = NoTable
  MaxRowId = 3
  MaxRows = 2
  MaxChanges = 3
INVARIANTS TypeOK SheetIsTable StraysOnlySo DiskAsAsked ColumnsAsNamed
  ScriptGivesRemote RowsOfEither
PROPERTIES PoolLearnsIds
