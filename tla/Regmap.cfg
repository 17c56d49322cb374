SPECIFICATION Spec
CONSTANTS
  Reg <- MCReg
  Writeable <- MCWriteable
  Readable <- MCReadable
  Volatile <- MCVolatile
  Region <- MCRegion
  Bit = {0}
INVARIANTS TypeOK ReadersSeeWrites
PROPERTY SyncRepairs
