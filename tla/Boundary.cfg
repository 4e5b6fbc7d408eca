CONSTANTS
  ChunkLen = 3
  CR = "cr"
  LF = "lf"
  None = None
  Byte <- MCByte
  Chunks <- MCChunks
  MaxSizes = {3, 5}
SPECIFICATION Spec
INVARIANT
  BoundaryExact
