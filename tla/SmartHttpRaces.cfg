\* One queue for two executors: the scheduler often has a job and no queue.
SPECIFICATION Spec
CONSTANTS
  SEG = 1
  Size = 3
  QueueNum = 1
  TaskNum = 2
  Races <- NotIdle
  Reconnect = FALSE
  Faults = {"error"}
  SeekTo = {0, 2}
  SeekBack = TRUE
  MaxSeeks = 1
  MaxOpens = 2
INVARIANTS FreedNotUsed AssignedCounted
\* a close that a seek's status has overtaken may wait for ever
CHECK_DEADLOCK FALSE
