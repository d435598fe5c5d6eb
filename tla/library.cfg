SPECIFICATION Spec
CONSTANTS
  HEADER_SIZE = 16
  CORE = 4
  HEAPMAX = 12
  Bytes = {1, 20, 50}
  MAXARGS = 3
  MaxLine = 5
  Drafts <- MCDrafts
  BUF = 5
  Patterns <- MCPatterns
  Texts <- MCTexts
  INPUT_BUF_SIZE = 3
  COLS = 2
  ROWS = 2
  Keys = {32, 28, 14, 42, 29, 285, 58}
CHECK_DEADLOCK FALSE
INVARIANTS HeapSound ParseExact GrepExact ModifiersExact EditShown
PROPERTIES CommittedKept
