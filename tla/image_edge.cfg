CONSTANTS
  ChunkWidth = 8
  ChunkHeight = 7
  Border = 2
  U32 = 1000
  Directory = FALSE
  Commands <- OneImage
  MaxCommands = 1
SPECIFICATION Spec
CHECK_DEADLOCK FALSE
INVARIANTS
  Convolved
