\* One receive error; the restart may come while the abort is pending.
SPECIFICATION Spec
CONSTANTS
  Size = 8
  HighWater = 5
  MaxRead = 2
  Burst = 4
  MaxBytes = 4
  MaxErrors = 1
PROPERTY NothingReadTwice
CHECK_DEADLOCK FALSE
