SPECIFICATION Spec
CONSTANTS
  Texts <- MCTexts
  NStack = 4
  MaxKept = 6
INVARIANT TypeOK
PROPERTY CReadsForms
PROPERTY CFinishes
CHECK_DEADLOCK FALSE
