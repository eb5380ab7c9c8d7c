\* One board whose process may still run when the next test is prepared.
CONSTANTS
  NumBoards = 1
  NumTests = 2
  Kinds <- OrdinaryTests
  ExitsInTime = FALSE
  MaxErrorLines = 1
SPECIFICATION Spec
INVARIANTS
  OneProcess
