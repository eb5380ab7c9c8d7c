\* Three agentes, two tests; only the main thread is fair.
CONSTANTS
  NumAgentes = 3
  NumTests = 2
SPECIFICATION MainSpec
INVARIANTS
  TypeOK
  PhaseBarrier
  QuietBetweenTests
  AskedBeforeKilled
  NoClientLeft
  OneAlertPerTest
PROPERTIES
  NoCallAfterFailure
  CampaignSpec
  StuckIsReported
  Termination
