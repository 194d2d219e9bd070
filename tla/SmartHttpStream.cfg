SPECIFICATION Spec
CONSTANTS
  SEG = 2
  Size = 5
  QueueNum = 2
  TaskNum = 2
  Races <- LeaveAndIdle
  Reconnect = TRUE
  Faults = {"error"}
  SeekTo = {3, 4, 5}
  SeekBack = FALSE
  MaxSeeks = 2
  MaxOpens = 1
INVARIANTS TypeOK QueueOwned FreedNotUsed CompletionReported
PROPERTIES ImplementsFileStream
