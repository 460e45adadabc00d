\* One process with two workers; the lease outlasts a batch of two.
CONSTANTS
  FailureThreshold = 1
  OpenDuration = 2
  MaxI32 = 1
  BaseDelay = 1
  MaxDelay = 1
  MaxAttempts = 2
  MaxShift = 30
  MaxWord = 1000
  d1 = d1
  d2 = d2
  e1 = e1
  Worker = {w1, w2}
  Nobody = Nobody
  Delivery = {d1, d2}
  Endpoint = {e1}
  EndpointOf <- OneEndpoint
  NoDelivery = NoDelivery
  BatchSize = 2
  LockSecs = 5
  HttpTimeout = 1
  DbTime = 1
  RecheckSecs = 1
  MaxFaults = 1
  MaxOps = 1
SPECIFICATION FairSpec
INVARIANTS TypeOK LeaseOutlasts
PROPERTIES Settles
