SPECIFICATION Spec
CONSTANTS
  Ref = {r1, r2, r3}
  Driver = {d1, d2}
  NoDriver = NoDriver
INVARIANTS TypeOK CountIsHolders HeldStaysAwake ActiveChipUp IdleIsSuspended
PROPERTY FlipsOnlyForUse
