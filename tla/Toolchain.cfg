CONSTANTS
  BlockSize = 2
  UIntMod = 64
  Blocks = 5
  Srcs <- MCSrcs
  Inputs = {}
  NULL = NULL
  Hole = Hole
  Addr = {1, 2, 3, 4, 5, 6, 7, 8}
  HeaderLen = 2
  ChunkHeaderLen = 2
  WordLen = 1
  RawImages <- MCImages
  SpImages <- MCPlain
  Extras <- MCExtras
  Touched <- MCTouched
  MaxCommands = 3
  MaxKills = 1
  MaxTouches = 1
  MaxFaults = 0
SPECIFICATION Spec
INVARIANTS FitToWrite Preserved
CHECK_DEADLOCK FALSE
