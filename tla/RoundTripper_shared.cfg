SPECIFICATION FairSpec
CONSTANTS
  a1 = a1
  a2 = a2
  Addrs <- TwoAddrs
  Reqs <- TwoReqs
  Hops <- CrossHttps
  Modes = {"do"}
  AutoRetry = TRUE
  MaxClears = 0
  MaxConns = 4
  MaxTrans = 3
INVARIANTS
  TypeOK
  NoLostConnection
  CleanOutcome
PROPERTY EveryRequestEnds
CHECK_DEADLOCK FALSE
