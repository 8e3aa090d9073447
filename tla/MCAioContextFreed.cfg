CONSTANTS
  b1 = b1
  b2 = b2
  f1 = f1
  n0 = n0
  n1 = n1
  n2 = n2
  o1 = o1
  Null = Null
  BHs = {b1}
  Fds = {}
  Nodes = {}
  NotifierNode = n0
  Kinds = {"in"}
  Others = {o1}
  MaxDepth = 1
  Loops = {"aio_poll"}
SPECIFICATION Spec
INVARIANTS
  NotifyReadsLiveBh
CHECK_DEADLOCK FALSE
