SPECIFICATION Spec
CONSTANTS
  a1 = a1
  a2 = a2
  Addrs <- TwoAddrs
  Reqs <- TwoReqs
  Hops <- Mixed
  Modes = {"service", "private"}
  AutoRetry = FALSE
  MaxClears = 1
  MaxConns = 3
  MaxTrans = 3
INVARIANTS
  HandedOverOnce
  CachedHasTransport
  InUseStaysOpen
  PrivateLeavesNothing
CHECK_DEADLOCK FALSE
