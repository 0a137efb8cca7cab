\* A ring of six with two bytes of margin and one more; the stream may lap it twice
\* between two looks.
SPECIFICATION FairRingSpec
CONSTANTS
  Size = 6
  HighWater = 4
  MaxRead = 2
  Burst = 3
  MaxBytes = 14
  MaxErrors = 2
PROPERTIES
  StreamIsHonest
  ReceptionResumes
