\* Small numbers in the proportions of the source; under fairness, what stops
\* for good is reset.
SPECIFICATION FairChainSpec
CONSTANTS
  Watchdog = 2
  HealthPeriod = 2
  StallPeriods = 2
  DogMin = 4
  DogMax = 5
  MaxLate = 1
INVARIANTS
  PoweredDriveBound
  HealthyStaysUp
PROPERTIES
  DeadPartIsReset
