SPECIFICATION AsyncSpec
CONSTANTS
  Goroutines = {t1, t2}
  Tasks = {t1, t2}
  NoValue = nil
  Modulus = 5
  LastDef = 2
  Freq = 2
  ShyCall = 1
  ShyTask = 1
  MaxDepth = 1
  UserKeys = {k1}
  NoTask = notask
INVARIANTS
  HandlesLive
  ConcurrentExact
  DefinitionsKept
  NoSlotLeak
PROPERTY WaitsEnd
CHECK_DEADLOCK FALSE
