\* Trips, stops and safety stops while calls are slow, time out or are lost with
\* a node that dies.
SPECIFICATION FairSpec
CONSTANTS
  EnableTimeout = 2
  CallTimeout = 1
  RetryAfter = 1
  StopTimeout = 4
  Fallback = 1
  Hold = 1
  OdomStale = 1
  TerminalHold = 1
  DiscoverMax = 1
  MaxInputs = 3
  MaxFaults = 1
INVARIANTS
  OffOutsideTrips
  StopProgresses
PROPERTIES
  SafetyStopIsError
  StopIsCarriedOut
