\* A message under way across failures, late turns and clock error; under
\* fairness, no state of the connection is a dead end.
SPECIFICATION FairSpec
CONSTANTS
  Watchdog = 2
  BackoffMin = 2
  BackoffMax = 3
  AlivePing = 2
  PingRetry = 1
  PingFailLimit = 2
  Entities = 2
  MaxBlock = 1
  MaxSkew = 1
  MaxWire = 1
INVARIANTS
  StaleNeverDrives
  LinkLossStops
  NoEntityForgotten
PROPERTY
  Reconnects
