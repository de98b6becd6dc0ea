CONSTANTS
  ChunkWidth = 8
  ChunkHeight = 7
  Border = 2
  U32 = 1000
  Directory = TRUE
  Commands <- Images
  MaxCommands = 2
SPECIFICATION FairSpec
CHECK_DEADLOCK FALSE
INVARIANTS
  TypeOK
  InBounds
  NoOverlap
  SavedComplete
  ConvolvedInside
  DeletedWhenAllBack
PROPERTIES
  SavedInTheEnd
