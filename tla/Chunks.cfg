CONSTANTS
  MaxLength = 7
  MaxPages = 2
  MaxSize = 6
SPECIFICATION Spec
CHECK_DEADLOCK FALSE
INVARIANTS TypeOK Covered ChunksSound EachChunkNew
PROPERTY Progress
