SPECIFICATION FairSpec
CONSTANTS
  h1 = h1
  h2 = h2
  s1 = s1
  Https <- TwoHttps
  Streams <- OneStream
  Invalid <- Refused
  MaxChunks = 1
INVARIANTS
  ActiveIsCancellable
  FramesTellTheStory
PROPERTY EveryRequestEnds
CHECK_DEADLOCK FALSE
