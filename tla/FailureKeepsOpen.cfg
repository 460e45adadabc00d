\* One process with two workers and two deliveries of one endpoint.
CONSTANTS
  FailureThreshold = 2
  OpenDuration = 1
  MaxI32 = 2147483647
  BaseDelay = 1
  MaxDelay = 1
  MaxAttempts = 3
  MaxShift = 30
  MaxWord = 1000
  d1 = d1
  d2 = d2
  e1 = e1
  Node = {n1}
  WorkerCount = 2
  Delivery = {d1, d2}
  Endpoint = {e1}
  EndpointOf <- OneEndpoint
  Poison = {}
  NoDelivery = NoDelivery
  BatchSize = 1
  LockSecs = 2
  RecheckSecs = 1
  MaxTime = 1
  MaxOps = 0
SPECIFICATION Spec
PROPERTIES FailureKeepsOpen
