\* Damage at every position, ControlTask late by any amount.
SPECIFICATION Spec
CONSTANTS
  Frames <- Three
  FrameLen <- ThreeLen
  FrameKind <- ThreeKind
  RingCap = 3
  LineCap = 2
  PollMaxBytes = 4
  PollMaxLines = 2
  RearmLimit = 2
  MaxFaults = 2
  MaxExpiries = 1
  TxMayFail = FALSE
  RearmMayFail = FALSE
  Preemptive = FALSE
INVARIANTS
  NoSplicedCommand
  OkIsTrue
