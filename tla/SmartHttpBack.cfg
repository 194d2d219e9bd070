SPECIFICATION Spec
CONSTANTS
  SEG = 2
  Size = 4
  QueueNum = 2
  TaskNum = 2
  Races <- NoWindow
  Reconnect = TRUE
  Faults = {}
  SeekTo = {0, 2}
  SeekBack = TRUE
  MaxSeeks = 1
  MaxOpens = 1
INVARIANTS StreamFaithful
