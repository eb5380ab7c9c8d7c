\* Three tests of any kind, a sweep that may trip once, a measurement of two ticks.
CONSTANTS
  NumTests = 3
  MaxSweepTries = 2
  Duration = 2
SPECIFICATION FairSpec
INVARIANTS
  TypeOK
  OffBetweenTests
PROPERTIES
  MeasuredInFull
  TestsEnd
