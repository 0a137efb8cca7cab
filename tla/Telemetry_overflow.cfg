\* Nothing is refused and nothing stops; the queue may overflow.
SPECIFICATION Spec
CONSTANTS
  MaxSos = 2
  MaxOps = 3
  Batch = 2
  MaxLocations = 1
  MayReject = FALSE
  MaxStops = 0
INVARIANTS
  ClosedSosIsDeleted
CHECK_DEADLOCK FALSE
