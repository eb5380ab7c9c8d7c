\* All trees of at most four tests, for two boards, as written and cut short.
CONSTANTS
  MaxTests = 4
  NumBoards = 2
SPECIFICATION Spec
INVARIANTS
  TypeOK
  ParsedAsMeant
  RunInOrder
