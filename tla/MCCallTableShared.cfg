SPECIFICATION Spec
CONSTANTS
  NoValue = nil
  Modulus = 7
  LastDef = 2
  Freq = 2
  ShyCall = 1
  ShyTask = 2
  Goroutines = {main, t1}
  Tasks = {t1}
  MaxDepth = 2
INVARIANT RunningApart
