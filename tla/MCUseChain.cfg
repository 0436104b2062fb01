CONSTANTS
  g1 = g1
  g2 = g2
  g3 = g3
  g4 = g4
  a = a
  b = b
  c = c
  d = d
  Goroutines = {g1, g2, g3, g4}
  Names = {a, b, c, d}
  None = None
  Plans <- SomePlans
SPECIFICATION Spec
INVARIANTS TwiceOnlyCrossed StuckOnlyInEnum
PROPERTIES ChainSpec CallsReturn
CHECK_DEADLOCK FALSE
