SPECIFICATION Spec
CONSTANTS
  NDirs = 2
  Worlds <- AllWorlds
  Requests <- AllRequests
  ErrnoCleared = FALSE
INVARIANTS NothingLeaks FirstMatchRuns NotFoundIsTrue RunsAsItsKind FailureHasReason
PROPERTY CallsReturn
