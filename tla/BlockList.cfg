CONSTANTS
  BlockSize = 2
  UIntMod = 1024
  Blocks = 4
  Srcs = {"A", "B"}
  Inputs <- MCInputs
  MaxLens = {2, 3}
  NULL = NULL
  Hole = Hole
  Addr = {p1, p2, p3, p4}
SPECIFICATION Spec
SYMMETRY Symmetry
INVARIANTS TypeOK Ordered Placed LastUsedLive NeverAborts
PROPERTY RefinesMap
CHECK_DEADLOCK FALSE
