\* Two trips in a row while the follow node is slow.
SPECIFICATION Spec
CONSTANTS
  EnableTimeout = 2
  CallTimeout = 1
  RetryAfter = 1
  StopTimeout = 4
  Fallback = 1
  Hold = 1
  OdomStale = 1
  TerminalHold = 1
  DiscoverMax = 1
  MaxInputs = 4
  MaxFaults = 0
PROPERTY
  LateEnableIsOffTrip
