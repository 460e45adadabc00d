\* One process with two workers that claim up to two deliveries, one of which cannot be sent.
CONSTANTS
  FailureThreshold = 2
  OpenDuration = 1
  MaxI32 = 2147483647
  BaseDelay = 1
  MaxDelay = 1
  MaxAttempts = 2
  MaxShift = 30
  MaxWord = 1000
  d1 = d1
  d2 = d2
  e1 = e1
  Node = {n1}
  WorkerCount = 2
  Delivery = {d1, d2}
  Endpoint = {e1}
  EndpointOf <- OneEndpoint
  Poison = {d2}
  NoDelivery = NoDelivery
  BatchSize = 2
  LockSecs = 1
  RecheckSecs = 1
  MaxTime = 2
  MaxOps = 1
SPECIFICATION Spec
INVARIANTS TypeOK Fenced LeaseCoherent CountsAttempts DeadOnlyExhausted SucceededRecorded CircuitCoherent
PROPERTIES FailedProbeReopens KeepsContract
