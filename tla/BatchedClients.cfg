SPECIFICATION FairClientsSpec
CONSTANTS
  cl1 = cl1
  cl2 = cl2
  cl3 = cl3
  k1 = k1
  NoBatcher = NoBatcher
  Clients <- ThreeClients
  Calls <- OneCall
  Owner <- OwnerOfOne
  MaxBatchers = 3
INVARIANTS
  OneRunningBatcher
  BreaksOnlyOnOwnClose
PROPERTIES
  CloseLetsGo
CHECK_DEADLOCK FALSE
