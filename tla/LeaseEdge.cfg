\* The shortest lease that gives no warning, and statements that take no time.
CONSTANTS
  FailureThreshold = 1
  OpenDuration = 1
  MaxI32 = 1
  BaseDelay = 1
  MaxDelay = 1
  MaxAttempts = 2
  MaxShift = 30
  MaxWord = 1000
  d1 = d1
  d2 = d2
  e1 = e1
  Worker = {w1}
  Nobody = Nobody
  Delivery = {d1}
  Endpoint = {e1}
  EndpointOf <- OneEndpoint
  NoDelivery = NoDelivery
  BatchSize = 1
  LockSecs = 2
  HttpTimeout = 2
  DbTime = 0
  RecheckSecs = 1
  MaxFaults = 0
  MaxOps = 0
SPECIFICATION FairSpec
PROPERTIES UnwarnedSettles
