SPECIFICATION Spec
CONSTANTS
  Kind = "file"
  Mode = "block"
  Modes = {}
  CanRead = TRUE
  CanWrite = TRUE
  Client = "inplace"
  IoErrors = TRUE
  AllocFails = TRUE
  InlSize = 2
  BufSize = 3
  MostDiv = 3
  Byte <- MCByte
  Newline = 7
  Initial <- Text3
  Payloads <- OneOrThree
  Chars = {8}
  Counts = {2}
  Bufs = {3}
  AsksPos = TRUE
  Skips <- OneBack
  MaxSize = 3
PROPERTY FlushWrites
