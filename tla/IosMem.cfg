SPECIFICATION Spec
CONSTANTS
  Kind = "mem"
  Mode = "mem"
  Modes = {"line"}
  CanRead = TRUE
  CanWrite = TRUE
  Client = "seeks"
  IoErrors = FALSE
  AllocFails = TRUE
  InlSize = 2
  BufSize = 3
  MostDiv = 3
  Byte = {0, 8, 9}
  Newline = 9
  Initial <- Empty
  Payloads <- Short
  Chars = {9}
  Counts = {1, 3}
  Bufs = {3}
  AsksPos = TRUE
  Skips <- TwoBackOneOn
  MaxSize = 3
INVARIANT TypeOK
PROPERTY PointerSpec
