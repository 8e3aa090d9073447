SPECIFICATION FairSpec
CONSTANTS
  MaxReqs = 3
  Ops <- MCOps
  Align = 2
  ClusterSize = 4
  DiskSize = 4
  WriteThrough = FALSE
  MaxDrains = 1
  MaxConfigs = 1
INVARIANTS
  NoWaitInsideCycle
  ThrottledHasTimer
PROPERTIES
  OthersBytesUnchanged
  RequestsComplete
  DrainReturns
CHECK_DEADLOCK FALSE
