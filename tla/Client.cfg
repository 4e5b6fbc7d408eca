CONSTANTS
  None = None
  IntMax = 127
  Token <- MCToken
  Chunks = {}
  MaxSize = 13
  StdCallbacks = {s1}
  FnCallbacks = {}
  UserData = {}
  Ids <- MCIds
  MaxChunk = 10
  MaxDrops = 3
  AsksParser = FALSE
  WholeBom = TRUE
SPECIFICATION CSpec
INVARIANTS
  EveryEventOnce
PROPERTIES
  AllDelivered
CHECK_DEADLOCK FALSE
