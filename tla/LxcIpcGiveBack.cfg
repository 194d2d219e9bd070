\* One client that gives its buffer back and asks for it again, one server.
SPECIFICATION Spec
CONSTANTS
  n1 = n1  c1 = c1  c2 = c2  s1 = s1  s2 = s2  w1 = w1  w2 = w2  w3 = w3
  t1 = t1  t2 = t2  b1 = b1  b2 = b2  b3 = b3  b4 = b4  b5 = b5
  Names = {n1}
  Clients = {c1}
  Servers = {s1}
  Workers = {w1}
  Tids = {t1}
  NameOf <- NamesOne
  TidOf <- TidsOne
  BossOf <- BossMem
  BUFFERS_PER_THREAD = 1
  RESIZE_MAX = 2
  Ops = {"work", "once", "close"}
  Requests <- GiveBack
  PAGE = 4
  Blocks = {b1, b2, b3, b4, b5}
  Faults = {}
  MaxFaults = 0
  MaxResizes = 2
INVARIANTS ReleasedNotUsed
CHECK_DEADLOCK FALSE
