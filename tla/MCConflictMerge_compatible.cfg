SPECIFICATION Spec
CONSTANTS
  x = x
  y = y
  z = z
  Width <- OneSheet
  Height = 1
  Text <- Texts
  Null = Null
  Nulls <- NoNull
  Ancestor <- OneText
  NullText = NullText
  Mark = Mark
  Leftover <- NoSheets
  Tools <- Merging
  Choices <- NoChoice
CHECK_DEADLOCK FALSE
INVARIANTS
  CompatibleMerged
