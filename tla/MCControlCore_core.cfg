\* A whole turn of the clock (6 ms here, 2^32 in the source) fits in the idle
\* time between commands; ticks merge, counters wrap, values exceed the clamps.
SPECIFICATION Spec
CONSTANTS
  left = left
  Wheel <- OneWheel
  HalfClock = 3
  SeqMod = 3
  WatchdogMs = 2
  MaxGap = 1
  MaxCmdAge = 2
  DutyMax = 1
  VelMax = 1
  IMax = 1
  Raw <- RawValues
  MaxMerge = 2
  Seqs = {1}
  Faults = {"TX", "RX_REARM"}
INVARIANTS
  RunawayBound
  NothingLeftOver
  FaultCutsOutput
  TicksAccounted
PROPERTIES
  FaultIsFinal
  OneEdgePerExpiry
  OkIsApplied
  ImplementsDrive
