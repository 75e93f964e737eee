SPECIFICATION Spec
CONSTANTS
  NL = "NL"
  Letters = {"a", "b"}
  MaxContent = 5
  MaxSelection = 3
  MaxRow = 4
INVARIANTS
  TypeOK
  NearestOccurrence
  AbsentEndsAtCursor
  WireRangeIsInFile
CHECK_DEADLOCK FALSE
