SPECIFICATION Spec
CONSTANTS
  S = 6
  Cnt = 3
  Sizes = {1, 3}
  Writers = {"kernel"}
  ClearInside = TRUE
  CmdFails = FALSE
INVARIANTS FlushDrops
