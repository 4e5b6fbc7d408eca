CONSTANTS
  None = None
  IntMax = 127
  Token <- MCToken
  Lines <- MCLines
  Callbacks = {c1, c2}
  MaxLines = 4
SPECIFICATION HSpec
INVARIANTS
  TypeOK
  CurrentIsItsBlock
  QueueKeepsEveryMessage
  CallbackSeesEveryMessage
  LastIdOfCompleted
