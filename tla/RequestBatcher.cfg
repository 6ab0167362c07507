SPECIFICATION FairSpec
CONSTANTS
  r1 = r1
  r2 = r2
  r3 = r3
  c1 = c1
  c2 = c2
  None = None
  Requests <- ThreeRequests
  AsyncReqs <- OneAsync
  Closers <- TwoClosers
  BatchSize = 2
INVARIANTS
  TypeOK
  NoneForgotten
  OwnAnswer
  BatchBound
PROPERTIES
  ImplementsService
  ServesToTheEnd
CHECK_DEADLOCK FALSE
