CONSTANTS
  e1 = e1
  e2 = e2
  w1 = w1
  w2 = w2
  Elems = {e1, e2}
  Workers = {w1, w2}
  NoElem = NoElem
  MaxThreads = 2
  MaxCallbacks = 2
  MaxSem = 3
SPECIFICATION FairSpec
INVARIANTS
  TokensMatchRequests
  ThreadsAccountedFor
  QueueHasThread
  ElementsOwned
  CompletionNoticed
PROPERTIES
  CallsReturn
  RequestsSettle
  CompletionsDelivered
CHECK_DEADLOCK FALSE
