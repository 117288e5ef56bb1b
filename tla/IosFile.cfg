SPECIFICATION Spec
CONSTANTS
  Kind = "file"
  Mode = "line"
  Modes = {}
  CanRead = TRUE
  CanWrite = TRUE
  Client = "inplace"
  IoErrors = FALSE
  AllocFails = FALSE
  InlSize = 2
  BufSize = 3
  MostDiv = 3
  Byte <- MCByte
  Newline = 7
  Initial <- Text3
  Payloads <- FileLines
  Chars = {8}
  Counts = {2, 3}
  Bufs = {3}
  AsksPos = FALSE
  Skips <- OneBackTwoOn
  MaxSize = 4
INVARIANT DirtyIsValid
INVARIANT NeverStuck
INVARIANT BufferIsView
INVARIANT EofIsEnd
INVARIANT LinesGoOut
PROPERTY PointerSpec
