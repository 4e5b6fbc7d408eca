CONSTANTS
  None = None
  IntMax = 127
  Token <- MCToken
  Chunks <- CallbackChunks
  MaxSize = 12
  MaxCalls = 3
  StdCallbacks = {s1}
  FnCallbacks = {f1, f2}
  UserData = {u1, u2}
SPECIFICATION HSpec
INVARIANTS
  TypeOK
  LastCallbackReceives
