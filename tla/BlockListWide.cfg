CONSTANTS
  BlockSize = 2
  UIntMod = 16
  Blocks = 9
  Srcs = {"A"}
  Inputs <- MCInputs
  MaxLens = {8}
  NULL = NULL
  Hole = Hole
  Addr = {p1, p2, p3}
SPECIFICATION Spec
PROPERTY RefinesMap
CHECK_DEADLOCK FALSE
