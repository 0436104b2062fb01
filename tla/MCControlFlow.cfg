SPECIFICATION Spec
CONSTANTS
  Scripts <- AllScripts
  Vars <- TheVars
  MAX_LOOPS = 4
  CASE_CAP = 3
INVARIANT RunsAsWritten
PROPERTY EveryCallEnds
CHECK_DEADLOCK FALSE
