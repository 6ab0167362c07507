CONSTANTS
  None = None
  Requests <- MCRequests
  KindOf <- MCKindOf
  Refused = {"bad", "many"}
  Garbled = {"get"}
  Installs <- MCInstalls
  Gathered = {"a", "bad"}
  Objects = {"ws", "sse"}
  IsSSE <- MCIsSSE
  Threads = {"t", "u"}
  Streams <- MCStreams
  MaxFailedReads = 2
  MaxOps = 6
SPECIFICATION FairSpec
INVARIANTS
  OnlyWhatWasSent
  NothingLeftBehind
  PanicNeedsMisuse
PROPERTIES
  CallsEnd
