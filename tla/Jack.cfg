SPECIFICATION JackSpec
CONSTANTS
  Pin <- MCPin
  TagOf <- MCTagOf
  MaxTag = 7
  TagBits = 4
INVARIANTS JackTypeOK JackKnown
PROPERTY QuietInD3
