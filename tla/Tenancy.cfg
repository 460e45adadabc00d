\* Two tenants with one name for a consumer and one slug between them.
SPECIFICATION Spec
CONSTANTS
  Conn = {c1, c2}
  Key = {k1}
  Tenant = {t1, t2}
  Uid = {u1}
  Slug = {s1}
  ConsumerId = {a1, a2}
  EndpointId = {e1, e2}
  SourceId = {i1}
  EventId = {m1}
  Null = Null
SYMMETRY Symmetry
INVARIANTS TypeOK Coherent ShowsOwn
PROPERTY WritesOwn
