SPECIFICATION ShellSpec
CONSTANTS
  Begins <- MCBegins
  Input <- MCInput
  HintOption <- MCHintOption
  Work <- MCWork
  Again <- MCAgain
  MAX_HINTS = 2
  MaxOptions = 2
  MaxTold = 5
  MaxSteps = 2
INVARIANTS ShellTypeOK HintsLast
PROPERTY WorkRuns
CHECK_DEADLOCK FALSE
