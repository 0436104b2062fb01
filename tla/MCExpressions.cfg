SPECIFICATION Spec
CONSTANTS
  WORD = 8
  SCRIPTS <- MCScripts
INVARIANTS OneValue TypedOperands AsMeant
CHECK_DEADLOCK FALSE
