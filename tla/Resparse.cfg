CONSTANTS
  BlockSize = 16
  UIntMod = 65536
  Blocks = 50
  Srcs = {"A"}
  Inputs = {}
  NULL = NULL
  Hole = Hole
  Addr = {1,2,3,4,5,6,7,8,9,10,11,12,13,14}
  HeaderLen = 28
  ChunkHeaderLen = 12
  WordLen = 4
  Images <- MCImages
  MaxLens = {184, 251}
  MaxFaults = 1
SPECIFICATION Spec
INVARIANTS TypeOK BlocksKept InOrder Complete SizeBound PassesAgree NoEmptyExtent CacheLive SevenEighths
PROPERTY Terminates
CHECK_DEADLOCK FALSE
