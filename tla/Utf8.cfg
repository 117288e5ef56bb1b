SPECIFICATION Spec
CONSTANTS
  Texts <- MCTexts
  Sought <- MCSought
  Rooms = {0, 1, 5}
  Sizes <- MCSizes
  Spoilers <- MCSpoilers
  Printable <- MCPrintable
INVARIANT TypeOK
INVARIANT ValidMeansWellFormed
INVARIANT EscapeFits
PROPERTY TextSpec
