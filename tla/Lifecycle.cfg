SPECIFICATION LifecycleFairSpec
CONSTANTS
  Thread = {p1}
  Window = 2
  I64Max = 3
  MaxTime = 1
  Worker = {w1}
  BatchSize = 2
  MaxRows = 2
  MaxFaults = 1
  MaxStarts = 2
INVARIANTS
  LifecycleTypeOK
  
PROPERTIES
  UpServesAll
  ShutdownStops
  SignalEnds
CHECK_DEADLOCK FALSE
