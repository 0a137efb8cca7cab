\* Two SOSs one after the other, a queue that overflows, refused and unanswered
\* requests, one stop of any kind.
SPECIFICATION FairSpec
CONSTANTS
  MaxSos = 2
  MaxOps = 3
  Batch = 2
  MaxLocations = 1
  MayReject = TRUE
  MaxStops = 1
INVARIANTS
  NoResurrection
  ShowsOpenSos
PROPERTIES
  ClosedSosLeaves
\* Both SOSs over and the queue empty, nothing is left to do.
CHECK_DEADLOCK FALSE
