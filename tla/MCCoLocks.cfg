CONSTANTS
  c1 = c1
  c2 = c2
  c3 = c3
  Leader = Leader
  Null = Null
  mutex = mutex
  rwlock = rwlock
  Cos = {c1, c2, c3}
  Queues = {mutex, rwlock}
  PoolMaxSize = 1
  MaxStack = 3
SPECIFICATION LocksFairSpec
INVARIANTS
  CallersWait
  QueuedOnce
  GivenBackClean
  MutualExclusion
  OnlyWritersQueueForReaders
  NobodyStranded
PROPERTIES
  MarkedRuns
