SPECIFICATION Spec
CONSTANTS
  Kind = "file"
  Mode = "block"
  Modes = {"none"}
  CanRead = TRUE
  CanWrite = TRUE
  Client = "any"
  IoErrors = FALSE
  AllocFails = TRUE
  InlSize = 1
  BufSize = 2
  MostDiv = 4
  Byte = {0}
  Newline = 0
  Initial <- TwoZeros
  Payloads <- Zeros
  Chars = {0}
  Counts = {3}
  Bufs = {3}
  AsksPos = FALSE
  Skips <- OneBack
  MaxSize = 2
INVARIANT BufferBounds
CHECK_DEADLOCK FALSE
