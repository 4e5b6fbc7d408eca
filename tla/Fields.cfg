CONSTANTS
  Alphabet = {":", " ", "x", "1", "2", "7", "8"}
  MaxLen = 6
  IntMax = 127
  None = None
  Token <- MCToken
SPECIFICATION Spec
INVARIANTS
  SplitIsExact
  RetryIsExact
CHECK_DEADLOCK FALSE
