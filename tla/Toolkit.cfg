CONSTANTS
  Scripts <- MCTreeScripts
  Unpacked = TRUE
  Boards <- MCOneBoard
  MaxMarks = 3
  MaxScripts = 4
  MaxFaults = 1
  NULL = NULL
SPECIFICATION Spec
INVARIANTS TypeOK Packed Kept MountShowsImage
CHECK_DEADLOCK FALSE
