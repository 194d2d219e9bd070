SPECIFICATION FairSpec
CONSTANTS
  S = 6
  Cnt = 4
  Sizes = {1, 3}
  Writers = {"kernel", "user"}
  ClearInside = FALSE
  CmdFails = TRUE
INVARIANTS TypeOK Intact EmptyAccepts RemainTold FlagMarksHead
PROPERTIES ImplementsPacketQueue WriteCompletes
