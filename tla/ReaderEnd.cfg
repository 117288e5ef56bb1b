SPECIFICATION Spec
CONSTANTS
  LongMax = 9999
  HashOf <- MCHashOf
  Texts <- Unclosed
  BadPatterns <- OpenGroup
PROPERTY EndReported
CHECK_DEADLOCK FALSE
