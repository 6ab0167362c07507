SPECIFICATION FairSpec
CONSTANTS
  Capacity = 2
  MaxCommands = 3
  MaxMessages = 1
INVARIANT BothEndsInOrder
PROPERTY SessionEnds
CHECK_DEADLOCK FALSE
