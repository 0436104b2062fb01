SPECIFICATION Spec
CONSTANTS
  Goroutines = {g1, g2, g3}
  Winch = winch
  Nobody = nobody
  MaxNest = 2
INVARIANTS
  TypeOK
  DepthMatchesOpen
  NoSelfDeadlock
  AcquirerHolds
PROPERTIES
  WaitersProceed
