\* The peer goes on sending while the task waits for its next ping.
SPECIFICATION Spec
CONSTANTS
  Size = 6
  HighWater = 4
  MaxRead = 2
  Burst = 3
  MaxBytes = 8
  MaxErrors = 0
PROPERTY LapIsAnnounced
CHECK_DEADLOCK FALSE
