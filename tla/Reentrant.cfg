CONSTANTS
  None = None
  IntMax = 127
  Token <- MCToken
  Chunks <- NestedChunks
  MaxSize = 9
  StdCallbacks = {s1}
  InCallback = {"parse", "flush", "reset", "set_callback"}
  MayThrow = TRUE
  MaxDepth = 3
  MaxCalls = 3
SPECIFICATION Spec
INVARIANTS
  TypeOK
  OneMessagePerBoundary
PROPERTIES
  MessagesAreTheirLines
  SuccessMeansAllFed
  AllCallsReturn
  RunsAsSseParser
