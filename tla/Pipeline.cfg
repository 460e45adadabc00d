\* One message, one endpoint, one worker; the message may be accepted twice.
SPECIFICATION PipelineFairSpec
CONSTANTS
  r1 = r1
  acme = acme
  own = own
  Null = Null
  NoOwner = NoOwner
  Handler = {h1}
  Request = {r1}
  About <- OneMessage
  Owner = {acme}
  Scope <- Scopes
  OwnerOf <- ScopeOwner
  Endpoint = {e1}
  Type <- Types
  Pattern <- Patterns
  Covers <- Matches
  TypeLists <- Lists
  MaxFaults = 1
  MaxOps = 3
  FailureThreshold = 1
  OpenDuration = 1
  MaxI32 = 1
  BaseDelay = 1
  MaxDelay = 1
  MaxAttempts = 2
  MaxShift = 30
  MaxWord = 1000
  Worker = {w1}
  Nobody = Nobody
  NoDelivery = NoDelivery
  BatchSize = 2
  LockSecs = 3
  HttpTimeout = 1
  DbTime = 0
  RecheckSecs = 1
INVARIANTS TypeOK FanOutExact ExtraIsFault CommittedTogether AckedIsQueued
PROPERTIES AcceptedIsSettled
