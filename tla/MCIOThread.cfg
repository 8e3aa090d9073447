CONSTANTS
  io = io
  u1 = u1
  u2 = u2
  Threads = {io, u1, u2}
  TicketMod = 4
  MaxNesting = 2
SPECIFICATION IoFairSpec
INVARIANTS
  OwnershipExclusive
  NextOwnerAwake
  TicketsAccountedFor
  PollOwnsContext
PROPERTIES
  ImplementsFifoLock
  LockGranted
  CallsReturn
