\* Messages between ticks, flapping link and marker.
SPECIFICATION Spec
CONSTANTS
  LostToSos = 2
  RecoverToClear = 2
  MarkerStale = 1
  LinkStop = 2
  LinkStale = 1
  ReuseIds = FALSE
  MaxTrips = 2
  MaxSos = 2
INVARIANTS
  LinkLossStops
  NoAnswerNoTrip
  RecoveryCloses
PROPERTIES
  RecoveredIsReal
  SosNeedsSighting
