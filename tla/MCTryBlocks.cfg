SPECIFICATION Spec
CONSTANTS
  c1 = c1
  c2 = c2
  Callers = {c1}
  Categories <- TheCategories
  Scripts <- AllScripts
  None = none
  Again = again
  Global = global
INVARIANT RunsAsWritten
PROPERTY EveryCallEnds
CHECK_DEADLOCK FALSE
