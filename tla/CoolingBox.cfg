\* Two tests of either kind; one trouble: a repeated question, a wet
\* box, a drift or Ctrl-C.
CONSTANTS
  None = None
  CycleTest = CycleTest
  Targets <- TestTemperatures
  Room = 2
  Warm = 3
  Hottest = 4
  CycleLow = 1
  CycleHigh = 2
  NumCycles = 2
  StableTime = 1
  NumTests = 2
  MaxTroubles = 1
SPECIFICATION FairSpec
INVARIANTS
  TypeOK
  OffAfterCampaign
PROPERTIES
  PreparedAtTarget
  AllCyclesDone
  WaitsEnd
