SPECIFICATION FairSpec
CONSTANTS
  r1 = r1
  r2 = r2
  r3 = r3
  c1 = c1
  c2 = c2
  None = None
  Requests <- TwoRequests
  AsyncReqs <- OneAsync
  Closers <- NoOne
  BatchSize = 2
PROPERTY EveryCallerReturns
CHECK_DEADLOCK FALSE
