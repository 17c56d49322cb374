SPECIFICATION Spec
CONSTANTS
  Node <- MCNode
  Ch = {"left"}
  SetIdx = {0, 1, 2}
  GetIdx = {0, 1, 3}
  Gain = {0, 1, 2, 127}
  Sel = {0, 1, 2}
  PinCtl = {0, 64}
INVARIANTS TypeOK AmpInRange NothingBeyondConnections
