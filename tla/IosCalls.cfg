SPECIFICATION Spec
CONSTANTS
  FromKind = "pipe"
  ToKind = "mem"
  Initial <- Lines
  AllocFails = TRUE
  InlSize = 1
  BufSize = 4
  MostDiv = 3
  MaxSize = 2
  ChunkSize = 2
  Byte <- MCByte
  Delim = 10
  Counts = {2}
  Skips <- OneOn
  Chars = {233}
  Char = {10, 65, 233}
  CopyCounts = {0, 2}
INVARIANT TypeOK
INVARIANT InOrder
INVARIANT NothingLost
INVARIANT Complete
INVARIANT CharacterTaken
PROPERTY FromPointer
PROPERTY ToPointer
PROPERTY CallsReturn
CHECK_DEADLOCK FALSE
