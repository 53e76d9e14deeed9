SPECIFICATION Spec
CONSTANTS
  x = x
  y = y
  z = z
  Width <- OneSheet
  Height = 2
  Text <- TwoTexts
  Null = Null
  Nulls <- WithNull
  Ancestor <- OneText
  NullText = NullText
  Mark = Mark
  Leftover <- FirstSheet
  Tools <- BothTools
  Choices <- AllChoices
CHECK_DEADLOCK FALSE
INVARIANTS
  TypeOK
  UnconflictedRowsMerged
  LocalEditsKept
  ConflictsSettled
  StatusTellsConflict
  NothingLeftToResolve
