CONSTANTS
  None = None
  IntMax = 127
  Token <- MCToken
  Chunks <- MixedChunks
  MaxSize = 6
  MaxCalls = 5
  StdCallbacks = {s1}
  FnCallbacks = {}
  UserData = {}
SPECIFICATION HSpec
INVARIANT
  FlushLeavesNoPartial
