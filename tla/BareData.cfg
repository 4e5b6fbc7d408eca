CONSTANTS
  None = None
  IntMax = 127
  Token <- MCToken
  Lines <- MCLines
  Callbacks = {c1, c2}
  MaxLines = 3
SPECIFICATION HSpec
INVARIANT
  BareDataCounts
