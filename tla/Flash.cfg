CONSTANTS
  Scripts <- MCFlashScripts
  Unpacked = TRUE
  Boards <- MCBoards
  MaxMarks = 2
  MaxScripts = 2
  MaxFaults = 1
  NULL = NULL
SPECIFICATION Spec
INVARIANTS Packed
PROPERTY Ends
CHECK_DEADLOCK FALSE
