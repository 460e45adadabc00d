SPECIFICATION Spec
CONSTANTS
  Thread = {p1}
  Window = 2
  I64Max = 3
  MaxTime = 1
  Worker = {w1}
  BatchSize = 1
  MaxRows = 2
  MaxFaults = 0
INVARIANT WokenForWork
CHECK_DEADLOCK FALSE
