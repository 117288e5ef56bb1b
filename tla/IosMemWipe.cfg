SPECIFICATION Spec
CONSTANTS
  Kind = "mem"
  Mode = "mem"
  Modes = {}
  CanRead = TRUE
  CanWrite = TRUE
  Client = "any"
  IoErrors = FALSE
  AllocFails = FALSE
  InlSize = 2
  BufSize = 3
  MostDiv = 3
  Byte = {0, 8, 9}
  Newline = 9
  Initial <- Empty
  Payloads <- Short
  Chars = {9}
  Counts = {1, 3}
  Bufs = {}
  AsksPos = TRUE
  Skips <- TwoBackOneOn
  MaxSize = 3
PROPERTY PointerSpec
CHECK_DEADLOCK FALSE
