SPECIFICATION Spec
CONSTANTS
  LongMax = 9999
  HashOf <- MCHashOf
  Texts <- MCTexts
  BadPatterns <- OpenGroup
INVARIANT TypeOK
PROPERTY ReadsForms
PROPERTY Finishes
CHECK_DEADLOCK FALSE
