SPECIFICATION FairSpec
CONSTANTS
  org = org
  loc = loc
  gone = gone
  Tables <- Both
  Present <- Both
  Inventors <- Both
  RefersTo <- RefersToParent
  OrderedTables <- NoTableOption
  SharedTop = 1
  BaseTop = 2
  MaxId = 3
  MaxRows = 3
  MaxPatches = 1
  NoSheet = NoSheet
  Absent = Absent
  Blank = Blank
CHECK_DEADLOCK FALSE
INVARIANTS
  RefsTranslated
PROPERTIES
  PatchTerminates
  KeepsPromise
