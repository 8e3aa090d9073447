CONSTANTS
  b1 = b1
  b2 = b2
  f1 = f1
  n0 = n0
  n1 = n1
  n2 = n2
  o1 = o1
  Null = Null
  BHs = {b1}
  Fds = {f1}
  Nodes = {n1}
  NotifierNode = n0
  Kinds = {"in", "out"}
  Others = {o1}
  MaxDepth = 1
  Loops = {"aio_poll", "glib"}
SPECIFICATION FairSpec
INVARIANTS
  SleepsWithoutWork
PROPERTIES
  BottomHalvesRun
  DeletedFreed
CHECK_DEADLOCK FALSE
