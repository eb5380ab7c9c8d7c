\* One board whose powercycle may fail, under the fairness of the passing run.
CONSTANTS
  NumBoards = 1
  NumTests = 1
  Kinds <- OnlyPowercycle
  ExitsInTime = TRUE
  MaxErrorLines = 1
SPECIFICATION FairSpec
PROPERTIES
  PowercycleEnds
