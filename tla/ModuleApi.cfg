CONSTANTS
  None = None
  Procs <- MCProcs
  Root = "parent"
  Threads <- MCThreads
  ProcOf <- MCProcOf
  Mapping <- MCMapping
  Valid <- MCValid
  ImportDefaults <- MCImportDefaults
  Menu <- MCMenu
  MaxCalls = 4
SPECIFICATION Spec
INVARIANTS
  ChildHasItsOwnSession
  NoSessionLost
  CacheIsCurrent
  FailsOnlyIfDisturbed
  LocksAreGivenBack
