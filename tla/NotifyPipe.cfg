SPECIFICATION TimedSpec
CONSTANTS
  Reqs <- ThreeReqs
  Abandons <- FirstTwo
  MaxFd = 5
  Workers = 1
INVARIANTS
  DescriptorsOwned
  EarlyWakeUpNeedsAbandon
PROPERTIES
  UndisturbedIsAnswered
  GivingUpIsClean
CHECK_DEADLOCK FALSE
