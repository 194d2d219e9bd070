\* Two slots of one thread, two servers, sessions kept to the end, signals, kills and orderly shutdown.
SPECIFICATION Spec
CONSTANTS
  n1 = n1  c1 = c1  c2 = c2  s1 = s1  s2 = s2  w1 = w1  w2 = w2  w3 = w3
  t1 = t1  t2 = t2  b1 = b1  b2 = b2  b3 = b3  b4 = b4  b5 = b5
  Names = {n1}
  Clients = {c1, c2}
  Servers = {s1, s2}
  Workers = {w1, w2}
  Tids = {t1}
  NameOf <- NamesServers
  TidOf <- TidsShared
  BossOf <- BossTwo
  BUFFERS_PER_THREAD = 2
  RESIZE_MAX = 2
  Ops = {"once", "close"}
  Requests <- NoRequests
  PAGE = 4
  Blocks = {}
  Faults = {"signal", "crash", "server_close"}
  MaxFaults = 2
  MaxResizes = 0
INVARIANTS ListenFinds NoLostAttach OneWorkerPerBuffer
CHECK_DEADLOCK FALSE
