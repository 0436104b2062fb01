CONSTANTS
  a = a
  b = b
  Vars = {a, b}
  Numbers = {1, 2}
  FirstCap = 4
  RangeEnd = 2
  Statements <- SomeStatements
  MaxSteps = 3
  None = None
SYMMETRY Symmetry
SPECIFICATION Spec
INVARIANTS OwnApart
PROPERTIES AsMeant OnlyShared
CHECK_DEADLOCK FALSE
