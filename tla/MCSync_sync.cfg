SPECIFICATION Spec
CONSTANTS
  alice = alice
  bob = bob
  Users <- Two
  MaxRows = 2
  MaxVersions = 3
  MaxDeleted = 1
  MaxFaults = 1
  NoFile = NoFile
SYMMETRY Renamed
CHECK_DEADLOCK FALSE
INVARIANTS
  CommitsKeepRows
  RowsOnce
  DroppedStays
  TimesTell
PROPERTIES
  LocalRowsKept
  SuccessIsShared
