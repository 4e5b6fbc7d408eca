CONSTANTS
  None = None
  IntMax = 127
  Token <- MCToken
  Chunks <- MixedChunks
  MaxSize = 9
  MaxCalls = 6
  StdCallbacks = {}
  FnCallbacks = {}
  UserData = {}
SPECIFICATION HSpec
INVARIANTS
  TypeOK
  NothingSpurious
  FlushDeliversTail
PROPERTIES
  SuccessMeansComplete
  RefusedExactlyWhenFull
  EveryCallReturns
