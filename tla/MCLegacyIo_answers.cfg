\* Answers and motion when transmission and re-arming may fail, under fairness.
SPECIFICATION FairSpec
CONSTANTS
  Frames <- Two
  FrameLen <- TwoLen
  FrameKind <- TwoKind
  RingCap = 2
  LineCap = 1
  PollMaxBytes = 3
  PollMaxLines = 2
  RearmLimit = 2
  MaxFaults = 2
  MaxExpiries = 1
  TxMayFail = TRUE
  RearmMayFail = TRUE
  Preemptive = TRUE
PROPERTIES
  OkMeansDriving
  FaultLeadsToRest
