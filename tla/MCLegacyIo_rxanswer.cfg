\* What the answer to a receive fault is said to mean.
SPECIFICATION Spec
CONSTANTS
  Frames <- Two
  FrameLen <- TwoLen
  FrameKind <- TwoKind
  RingCap = 2
  LineCap = 2
  PollMaxBytes = 3
  PollMaxLines = 2
  RearmLimit = 2
  MaxFaults = 1
  MaxExpiries = 0
  TxMayFail = FALSE
  RearmMayFail = FALSE
  Preemptive = TRUE
PROPERTY
  RxFaultAnswerMeansZero
