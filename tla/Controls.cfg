SPECIFICATION Spec
CONSTANTS
  Ctl <- MCCtl
  Jack <- MCJack
  Chmap <- MCChmap
  NameOf <- MCNameOf
  Count <- MCCount
  Index = {0}
  Name = {"HP Jack", "Other"}
  MaxRenamed = 1
  NULL = NULL
INVARIANTS TypeOK IdsUnique NumbersKeepMeaning ChmapLinked JackTold
CHECK_DEADLOCK FALSE
