\* Two handlers, three webhooks of one source.
SPECIFICATION FairSpec
CONSTANTS
  r1 = r1
  r2 = r2
  r3 = r3
  shop = shop
  own = own
  Null = Null
  NoOwner = NoOwner
  Handler = {h1, h2}
  Request = {r1, r2, r3}
  About <- Hooks
  Owner = {shop}
  Scope = {own}
  OwnerOf <- TenantScope
  Endpoint = {e1}
  Type = {"sent"}
  Pattern = {"all"}
  Covers <- EveryType
  TypeLists = {}
  MaxFaults = 2
  MaxOps = 2
INVARIANTS
  AckedIsStored
  BridgedOnce
PROPERTY
  EventuallyAcked
CHECK_DEADLOCK FALSE
