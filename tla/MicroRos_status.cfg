\* What /base/status says of a command accepted in a blocked turn.
SPECIFICATION Spec
CONSTANTS
  Watchdog = 3
  BackoffMin = 2
  BackoffMax = 4
  AlivePing = 4
  PingRetry = 1
  PingFailLimit = 2
  Entities = 1
  MaxBlock = 2
  MaxSkew = 0
  MaxWire = 1
INVARIANTS FalseMeansStopped
