SPECIFICATION Spec
CONSTANTS
  IdxSpace = 2
  Value = {0, 1, 2}
  MaxIdx = 4
  MaxEntries = 5
INVARIANT TypeOK
PROPERTY CoefsAreMemory
