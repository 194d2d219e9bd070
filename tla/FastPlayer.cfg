\* Two control threads that take turns, two conditional-access threads, two flags.
SPECIFICATION FairSpec
CONSTANTS
  u1 = u1  u2 = u2  k1 = k1  k2 = k2  idle = idle  fdpthread = fdpthread
  Capacity = 6
  Free = idle
  Controllers = {u1, u2}
  CaThreads = {k1, k2}
  Fdp = fdpthread
  Flags = {"table", "cw"}
  Serial = TRUE
  Quiet = TRUE
INVARIANTS TypeOK CommandsExecuted TokensMatch QueueBounded DestroyLast
PROPERTIES CallsReturn
