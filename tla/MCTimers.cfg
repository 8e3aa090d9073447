SPECIFICATION FairSpec
CONSTANTS
  main = main
  io = io
  t1 = t1
  t2 = t2
  Lists = {main, io}
  Timers = {t1, t2}
  ListOf <- MCListOf
  MaxTime = 1
  MaxMods = 3
  MaxSwitches = 2
  Null = Null
INVARIANTS
  WaitStopsRuns
  DeadlineNoticed
PROPERTIES
  ExpiredRuns
  DisableReturnsLater
