CONSTANTS
  None = None
  IntMax = 127
  Token <- MCToken
  Chunks <- OneMessage
  MaxSize = 9
  StdCallbacks = {s1}
  InCallback = {"parse"}
  MayThrow = FALSE
  MaxDepth = 3
  MaxCalls = 3
SPECIFICATION Spec
INVARIANTS
  MessageValidDuringCall
