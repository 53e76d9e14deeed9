SPECIFICATION Spec
CONSTANTS
  org = org
  loc = loc
  gone = gone
  Tables <- Both
  Present <- Both
  Inventors <- Both
  RefersTo <- RefersToLocation
  OrderedTables <- NoTableOption
  SharedTop = 1
  BaseTop = 2
  MaxId = 3
  MaxRows = 2
  MaxPatches = 1
  NoSheet = NoSheet
  Absent = Absent
  Blank = Blank
CHECK_DEADLOCK FALSE
INVARIANTS
  UpdatesTranslated
