\* Two boards, three batch or IV tests; psi46 ends before the next test
\* and both programs run on.
CONSTANTS
  NumBoards = 2
  NumTests = 3
  Kinds <- OrdinaryTests
  ExitsInTime = TRUE
  MaxErrorLines = 1
SPECIFICATION FairSpec
INVARIANTS
  TypeOK
  
  OneProcess
  
PROPERTIES
  EveryTestEnds
