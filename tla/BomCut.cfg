CONSTANTS
  None = None
  IntMax = 127
  Token <- MCToken
  Chunks = {}
  MaxSize = 13
  StdCallbacks = {s1}
  FnCallbacks = {}
  UserData = {}
  Ids <- MCIds
  MaxChunk = 10
  MaxDrops = 3
  AsksParser = FALSE
  WholeBom = FALSE
SPECIFICATION CSpec
INVARIANTS
  BomIsSkipped
CHECK_DEADLOCK FALSE
