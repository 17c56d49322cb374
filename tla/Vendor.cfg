SPECIFICATION VendorSpec
CONSTANTS
  Family = {"idt_92hd8xx", "amdhdmi", "nvhdmi", "vt1708s"}
  Ext = {"none", "realtek"}
  Node = {20}
  Secret = 81
  Absent = 82
  Parm = {0, 255}
  Reply = {7}
INVARIANT VendorTypeOK
PROPERTY VerbsAreRegisters
