SPECIFICATION Spec
CONSTANTS
  script = script
  task = task
  web = web
  Producers <- TheProducers
  Web <- TheWeb
  Script = script
  MaxRequests <- Requests
  MaxStarts = 2
  QueueSize = 2
INVARIANTS
  QueueServed
  OneFate
  CriticalKept
  InOrder
PROPERTY OffReturns
CHECK_DEADLOCK FALSE
