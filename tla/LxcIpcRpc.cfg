\* Two clients, one server, no faults.
SPECIFICATION FairSpec
CONSTANTS
  n1 = n1  c1 = c1  c2 = c2  s1 = s1  s2 = s2  w1 = w1  w2 = w2  w3 = w3
  t1 = t1  t2 = t2  b1 = b1  b2 = b2  b3 = b3  b4 = b4  b5 = b5
  Names = {n1}
  Clients = {c1, c2}
  Servers = {s1}
  Workers = {w1, w2}
  Tids = {t1, t2}
  NameOf <- NamesTwo
  TidOf <- TidsApart
  BossOf <- BossOne
  BUFFERS_PER_THREAD = 1
  RESIZE_MAX = 2
  Ops = {"work", "once", "close"}
  Requests <- NoRequests
  PAGE = 4
  Blocks = {}
  Faults = {}
  MaxFaults = 0
  MaxResizes = 0
PROPERTIES ExactlyOnce CallReturns ConnectionNeverReopens
CHECK_DEADLOCK FALSE
