SPECIFICATION Spec
CONSTANTS
  Atoms <- MCAtoms
  Strings = {0, 1, 2}
  Symbols <- MCSymbols
  StringHash <- MCStringHash
  SymbolHash <- MCSymbolHash
  Golden = 20
  Xored <- MCXor
  Heap = 100
  Junk = {0, 3}
  MaxItems = 2
  MaxEntries = 1
  Items = {0, 1, 2}
  MaxObjects = 5
INVARIANT TypeOK
INVARIANT KeywordsUnique
INVARIANT CountIsPrinted
INVARIANT EqualsHash
PROPERTY PersistentSpec
VIEW View
CHECK_DEADLOCK FALSE
