SPECIFICATION Spec
CONSTANTS
  Kind = "file"
  Mode = "block"
  Modes = {}
  CanRead = TRUE
  CanWrite = TRUE
  Client = "any"
  IoErrors = FALSE
  AllocFails = FALSE
  InlSize = 2
  BufSize = 3
  MostDiv = 3
  Byte <- MCByte
  Newline = 7
  Initial <- Text3
  Payloads <- OneOrThree
  Chars = {8}
  Counts = {2, 3}
  Bufs = {}
  AsksPos = FALSE
  Skips <- OneBackTwoOn
  MaxSize = 4
INVARIANT NeverStuck
CHECK_DEADLOCK FALSE
