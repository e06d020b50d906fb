CONSTANTS
  BlockSize = 2
  UIntMod = 64
  Blocks = 12
  Srcs <- MCSrcs
  Inputs = {}
  NULL = NULL
  Hole = Hole
  Addr = {1, 2, 3, 4, 5, 6, 7, 8, 9, 10, 11, 12}
  HeaderLen = 2
  ChunkHeaderLen = 2
  WordLen = 1
  Files <- MCFiles
  MaxFaults = 0
SPECIFICATION Spec
INVARIANT SparseStaysSparse
CHECK_DEADLOCK FALSE
