CONSTANTS
  b1 = b1
  b2 = b2
  f1 = f1
  n0 = n0
  n1 = n1
  n2 = n2
  o1 = o1
  Null = Null
  BHs = {b1, b2}
  Fds = {f1}
  Nodes = {n1, n2}
  NotifierNode = n0
  Kinds = {"in"}
  Others = {}
  MaxDepth = 2
  Loops = {"aio_poll"}
SPECIFICATION Spec
SYMMETRY Symmetry
INVARIANTS
  WalksStayInLists
  
CHECK_DEADLOCK FALSE
