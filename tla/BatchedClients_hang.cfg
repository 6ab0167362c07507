SPECIFICATION FairClientsSpec
CONSTANTS
  cl1 = cl1
  cl2 = cl2
  cl3 = cl3
  k1 = k1
  NoBatcher = NoBatcher
  Clients <- TwoClients
  Calls <- OneCall
  Owner <- OwnerOfOne
  MaxBatchers = 2
PROPERTY OpenClientsCallsReturn
CHECK_DEADLOCK FALSE
