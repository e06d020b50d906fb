CONSTANTS
  BlockSize = 4
  UIntMod = 1024
  Blocks = 4
  Srcs = {"A"}
  Inputs = {}
  NULL = NULL
  Hole = Hole
  Addr = {1, 2, 3}
  HeaderLen = 28
  ChunkHeaderLen = 12
  WordLen = 4
  Cookies <- MCCookies
  MaxFaults = 1
SPECIFICATION Spec
INVARIANTS TypeOK Faithful WellFormed LenAgrees NoAbort CrcOfData
CHECK_DEADLOCK FALSE
