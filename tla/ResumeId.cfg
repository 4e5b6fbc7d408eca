CONSTANTS
  None = None
  IntMax = 127
  Token <- MCToken
  Chunks = {}
  MaxSize = 13
  StdCallbacks = {s1}
  FnCallbacks = {}
  UserData = {}
  Ids <- MCIds
  MaxChunk = 10
  MaxDrops = 3
  AsksParser = TRUE
  WholeBom = TRUE
SPECIFICATION CSpec
INVARIANTS
  ResetThenResume
CHECK_DEADLOCK FALSE
