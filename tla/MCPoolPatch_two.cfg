SPECIFICATION Spec
CONSTANTS
  org = org
  loc = loc
  gone = gone
  Tables <- All
  Present <- Both
  Inventors <- All
  RefersTo <- RefersToLocationOfAll
  OrderedTables <- OrgGoneLoc
  SharedTop = 1
  BaseTop = 2
  MaxId = 3
  MaxRows = 2
  MaxPatches = 2
  NoSheet = NoSheet
  Absent = Absent
  Blank = Blank
CHECK_DEADLOCK FALSE
INVARIANTS
  WrittenInPlace
  NoPlaceholderStored
PROPERTIES
  KeepsPromise
