SPECIFICATION FairSpec
CONSTANTS
  main = main
  io = io
  t1 = t1
  t2 = t2
  Lists = {main, io}
  Timers = {t1, t2}
  ListOf <- MCListOf
  MaxTime = 1
  MaxMods = 1
  MaxSwitches = 1
  Null = Null
INVARIANTS
  QuietWhenDisabled
