\* A trip starts again under the id of the one that was stopped.
SPECIFICATION Spec
CONSTANTS
  LostToSos = 2
  RecoverToClear = 2
  MarkerStale = 1
  LinkStop = 2
  LinkStale = 1
  ReuseIds = TRUE
  MaxTrips = 2
  MaxSos = 2
INVARIANT
  LinkLossStops
