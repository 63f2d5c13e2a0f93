SPECIFICATION Spec
CONSTANTS
  NDirs = 2
  Worlds <- PlainWorlds
  Requests <- AllRequests
  ErrnoCleared = TRUE
INVARIANTS FailureHasReason
