\* Two processes whose workers share the name worker-0.
CONSTANTS
  FailureThreshold = 2
  OpenDuration = 1
  MaxI32 = 2147483647
  BaseDelay = 1
  MaxDelay = 1
  MaxAttempts = 2
  MaxShift = 30
  MaxWord = 1000
  d1 = d1
  d2 = d2
  e1 = e1
  Node = {n1, n2}
  WorkerCount = 1
  Delivery = {d1}
  Endpoint = {e1}
  EndpointOf <- OneDelivery
  Poison = {}
  NoDelivery = NoDelivery
  BatchSize = 1
  LockSecs = 1
  RecheckSecs = 1
  MaxTime = 3
  MaxOps = 0
SPECIFICATION Spec
INVARIANTS Fenced
