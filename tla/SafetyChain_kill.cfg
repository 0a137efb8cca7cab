\* A stall that ends before the IWDG does.
SPECIFICATION FairSpec
CONSTANTS
  Watchdog = 1
  HealthPeriod = 2
  StallPeriods = 2
  DogMin = 3
  DogMax = 4
  MaxLate = 0
PROPERTY
  KillEndsInReset
