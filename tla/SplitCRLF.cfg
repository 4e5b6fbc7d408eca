CONSTANTS
  None = None
  IntMax = 127
  Token <- MCToken
  Chunks <- SplitChunks
  MaxSize = 10
  MaxCalls = 3
  StdCallbacks = {s1}
  FnCallbacks = {}
  UserData = {}
SPECIFICATION HSpec
INVARIANT
  CutsAreInvisible
