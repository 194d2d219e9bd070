SPECIFICATION ReadingSpec
CONSTANTS
  SEG = 1
  Size = 3
  QueueNum = 2
  TaskNum = 2
  Races <- IdleOnly
  Reconnect = TRUE
  Faults = {"error"}
  SeekTo = {0, 1, 2}
  SeekBack = TRUE
  MaxSeeks = 1
  MaxOpens = 1
INVARIANTS QueueOwned AssignedHasExecutor CompletionReported
PROPERTIES CallsReturn StreamEnds
