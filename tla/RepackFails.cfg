CONSTANTS
  Scripts <- MCTreeScripts
  Unpacked = TRUE
  Boards <- MCOneBoard
  MaxMarks = 2
  MaxScripts = 3
  MaxFaults = 0
  NULL = NULL
SPECIFICATION Spec
INVARIANT RepackFails
CHECK_DEADLOCK FALSE
