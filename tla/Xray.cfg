\* Three tests in every configuration, a trip and a fault; both programs run on.
CONSTANTS
  v1 = v1
  v2 = v2
  i1 = i1
  i2 = i2
  Ag = Ag
  Sn = Sn
  none = none
  None = None
  Direct = none
  Targets <- KnownTargets
  Environments <- TestEnvironments
  NumTests = 3
  LeftOpen = {}
  MaxTrips = 1
  MaxFaults = 1
SPECIFICATION FairSpec
INVARIANTS
  TypeOK
  ReadyForTest
  OneBeam
  SafeAtTheEnd
  OneQuestionOneAnswer
  TripWillBeReported
PROPERTIES
  AnswerComes
  CampaignEnds
