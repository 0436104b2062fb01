SPECIFICATION Spec
CONSTANTS
  NoValue = nil
  Modulus = 7
  LastDef = 2
  Freq = 2
  ShyCall = 2
  ShyTask = 3
  Goroutines = {task}
  Tasks = {task}
  MaxDepth = 3
INVARIANTS
  TypeOK
  OneCallPerSlot
  ResultIntact
PROPERTY PoolSpec
