\* Two SOSs over two connections and a restart of the bridge; one clear kept.
SPECIFICATION FairSpec
CONSTANTS
  MaxSos = 2
  MaxConns = 2
  MaxRetries = 1
  MaxPendingClears = 1
  MaxRestarts = 1
INVARIANTS
  AppAgrees
  LinkFollows
  FailsOnce
PROPERTY Told
\* All SOSs closed and no session, nothing is left to do.
CHECK_DEADLOCK FALSE
