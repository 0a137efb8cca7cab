\* A clear taken by a socket whose other end is gone.
SPECIFICATION Spec
CONSTANTS
  MaxSos = 1
  MaxConns = 2
  MaxRetries = 1
  MaxPendingClears = 1
  MaxRestarts = 0
INVARIANT ClosedSosForgotten
CHECK_DEADLOCK FALSE
