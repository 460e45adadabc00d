---------------------------- MODULE TenancyProofs ----------------------------
(***************************************************************************)
(* Tenants stay apart, for any numbers of tenants, keys, calls and rows.   *)
(*                                                                         *)
(* What the second statement of a call may rely on is that the row which   *)
(* the first one found keeps its tenant (Kept), so that it still belongs   *)
(* to the tenant of the call (Trusted).                                    *)
(***************************************************************************)
EXTENDS Tenancy, TLAPS

USE ZenonT(5), SMTT(20), ZenonT(30), SMTT(60), TenancyAssumption

TableTypes ==
  /\ keys \in [Key -> Owner]
  /\ consumers \in [ConsumerId -> [tenant : Owner, uid : Uid]]
  /\ endpoints \in [EndpointId -> [tenant : Owner, consumer : ConsumerId \cup {Null},
                                   disabled : BOOLEAN]]
  /\ sources \in [SourceId -> [tenant : Owner, slug : Slug]]
  /\ events \in [EventId -> [tenant : Owner, consumer : ConsumerId \cup {Null}]]
  /\ deliveries \in [Delivery -> [tenant : Owner, queued : BOOLEAN]]

Phase == {"idle", "handler", "source", "consumer", "event", "delivery"}

CallTypes ==
  /\ phase \in [Conn -> Phase]
  /\ who \in [Conn -> Owner]
  /\ held \in [Conn -> Id]
  /\ shown \in [Conn -> SUBSET Tenant]

\* The row that a call in phase p holds exists and is the tenant t's.
Right(p, id, t) ==
  /\ t \in Tenant
  /\ p = "source" => id \in SourceId /\ sources[id].tenant = t
  /\ p = "consumer" => id \in ConsumerId /\ consumers[id].tenant = t
  /\ p = "event" => id \in EventId /\ events[id].tenant = t
  /\ p = "delivery" => id \in Delivery /\ deliveries[id].tenant = t

Trusted == \A c \in Conn : phase[c] # "idle" => Right(phase[c], held[c], who[c])

\* Only rows that exist refer to a consumer.
Rooted ==
  /\ \A i \in EndpointId : endpoints[i].tenant = Null => endpoints[i].consumer = Null
  /\ \A i \in EventId : events[i].tenant = Null => events[i].consumer = Null

TenancyInv == TableTypes /\ CallTypes /\ Trusted /\ Rooted /\ Coherent /\ ShowsOwn

\* What a step never does to a row that exists.
Kept ==
  /\ \A i \in ConsumerId : consumers[i].tenant # Null => consumers'[i] = consumers[i]
  /\ \A i \in SourceId : sources[i].tenant # Null => sources'[i] = sources[i]
  /\ \A i \in EventId : events[i].tenant # Null => events'[i] = events[i]
  /\ \A d \in Delivery : deliveries[d].tenant # Null => deliveries'[d].tenant = deliveries[d].tenant

\* The action of WritesOwn.
Writes ==
  /\ \A i \in EndpointId : endpoints'[i] # endpoints[i] =>
       EndsFor(endpoints'[i].tenant) /\ endpoints[i].tenant \in {Null, endpoints'[i].tenant}
  /\ \A d \in Delivery : deliveries'[d] # deliveries[d] /\ deliveries'[d].queued =>
       EndsFor(deliveries'[d].tenant) /\ deliveries[d].tenant \in {Null, deliveries'[d].tenant}
  /\ \A i \in EventId : events'[i] # events[i] =>
       EndsFor(events'[i].tenant) /\ events[i].tenant = Null
  /\ \A i \in ConsumerId : consumers'[i] # consumers[i] =>
       EndsFor(consumers'[i].tenant) /\ consumers[i].tenant = Null
  /\ \A i \in SourceId : sources'[i] # sources[i] =>
       EndsFor(sources'[i].tenant) /\ sources[i].tenant = Null

-----------------------------------------------------------------------------
(* The calls: how each of the three moves keeps Trusted and ShowsOwn *)

CallsSafe == CallTypes' /\ Trusted' /\ ShowsOwn'

\* A row that was trusted is trusted after any step that keeps rows.
LEMMA StillRight ==
  ASSUME TableTypes, Kept, NEW p, NEW id, NEW t, Right(p, id, t)
  PROVE  /\ t \in Tenant
         /\ p = "source" => id \in SourceId /\ sources'[id].tenant = t
         /\ p = "consumer" => id \in ConsumerId /\ consumers'[id].tenant = t
         /\ p = "event" => id \in EventId /\ events'[id].tenant = t
         /\ p = "delivery" => id \in Delivery /\ deliveries'[id].tenant = t
  BY DEF Right, Kept, TableTypes

\* Calls that a step does not touch.
LEMMA OthersSafe ==
  ASSUME TenancyInv, Kept, NEW c \in Conn, phase[c] # "idle",
         phase'[c] = phase[c], held'[c] = held[c], who'[c] = who[c]
  PROVE  Right(phase[c], held[c], who[c])'
  BY StillRight DEF TenancyInv, Trusted, Right

LEMMA IdleSafe ==
  ASSUME TenancyInv, Kept, UNCHANGED callVars
  PROVE  CallsSafe
  <1>1. CallTypes' /\ ShowsOwn'
    BY DEF TenancyInv, CallTypes, ShowsOwn, callVars
  <1>2. Trusted'
    BY OthersSafe DEF Trusted, callVars
  <1> QED BY <1>1, <1>2 DEF CallsSafe

LEMMA BeginSafe ==
  ASSUME TenancyInv, UNCHANGED tables, NEW c \in Conn, NEW p \in Phase, NEW t, NEW id \in Id,
         Begin(c, p, t, id), Right(p, id, t)
  PROVE  CallsSafe
  <1>0. Kept
    BY DEF Kept, tables
  <1>1. CallTypes' /\ ShowsOwn'
    BY DEF TenancyInv, CallTypes, ShowsOwn, Begin, Right, Owner
  <1>2. ASSUME NEW x \in Conn, phase'[x] # "idle" PROVE Right(phase[x], held[x], who[x])'
    <2>1. CASE x = c
      <3>1. phase'[c] = p /\ held'[c] = id /\ who'[c] = t
        BY DEF Begin, TenancyInv, CallTypes
      <3> QED BY <3>1, <2>1, StillRight, <1>0 DEF Right, TenancyInv
    <2>2. CASE x # c
      BY <1>2, <2>2, OthersSafe, <1>0 DEF Begin, TenancyInv, CallTypes
    <2> QED BY <2>1, <2>2
  <1> QED BY <1>1, <1>2 DEF CallsSafe, Trusted

LEMMA FoundSafe ==
  ASSUME TenancyInv, UNCHANGED tables, NEW c \in Conn, NEW p \in Phase, NEW id \in Id,
         Found(c, p, id), Right(p, id, who[c])
  PROVE  CallsSafe
  <1>0. Kept
    BY DEF Kept, tables
  <1>1. CallTypes' /\ ShowsOwn'
    BY DEF TenancyInv, CallTypes, ShowsOwn, Found
  <1>2. ASSUME NEW x \in Conn, phase'[x] # "idle" PROVE Right(phase[x], held[x], who[x])'
    <2>1. CASE x = c
      <3>1. phase'[c] = p /\ held'[c] = id /\ who'[c] = who[c]
        BY DEF Found, TenancyInv, CallTypes
      <3> QED BY <3>1, <2>1, StillRight, <1>0 DEF Right, TenancyInv
    <2>2. CASE x # c
      BY <1>2, <2>2, OthersSafe, <1>0 DEF Found, TenancyInv, CallTypes
    <2> QED BY <2>1, <2>2
  <1> QED BY <1>1, <1>2 DEF CallsSafe, Trusted

\* An answer is safe if it only has rows of the call's tenant.
LEMMA AnswerSafe ==
  ASSUME TenancyInv, Kept, NEW c \in Conn, phase[c] # "idle",
         NEW ts, ts \subseteq {who[c], Null}, Answer(c, ts)
  PROVE  CallsSafe /\ phase'[c] = "idle"
  <1>0. who[c] \in Tenant
    BY DEF TenancyInv, Trusted, Right
  <1>1. CallTypes' /\ phase'[c] = "idle"
    BY <1>0 DEF TenancyInv, CallTypes, Answer, Phase, Id
  <1>2. ShowsOwn'
    BY <1>0 DEF TenancyInv, CallTypes, ShowsOwn, Answer
  <1>3. ASSUME NEW x \in Conn, phase'[x] # "idle" PROVE Right(phase[x], held[x], who[x])'
    BY <1>1, <1>3, OthersSafe DEF Answer, TenancyInv, CallTypes
  <1> QED BY <1>1, <1>2, <1>3 DEF CallsSafe, Trusted

-----------------------------------------------------------------------------
(* Calls that only read *)

\* A running call acts for a tenant and holds a row of it.
LEMMA CallHas ==
  ASSUME TenancyInv, NEW c \in Conn, phase[c] # "idle"
  PROVE  Right(phase[c], held[c], who[c]) /\ who[c] \in Tenant
  BY DEF TenancyInv, Trusted, Right

LEMMA LookupSafe ==
  ASSUME TenancyInv, NEW c \in Conn,
         \/ \E k \in Key : auth(c, k)
         \/ \E t \in Tenant : Cli(c, t)
         \/ \E u \in Uid : resolve_consumer(c, u)
         \/ \E i \in EventId : get_message(c, i)
         \/ \E d \in Delivery : get_delivery(c, d)
         \/ \E s \in Slug : ingest(c, s)
  PROVE  CallsSafe /\ UNCHANGED tables
  <1>0. UNCHANGED tables
    BY DEF auth, Cli, resolve_consumer, get_message, get_delivery, ingest
  <1>K. Kept
    BY <1>0 DEF Kept, tables
  <1>1. ASSUME NEW k \in Key, auth(c, k) PROVE CallsSafe
    <2>1. Right("handler", Null, keys[k]) /\ Null \in Id /\ "handler" \in Phase
      BY <1>1 DEF auth, Right, TenancyInv, TableTypes, Owner, Id, Phase
    <2> QED BY <1>1, <1>0, <2>1, BeginSafe DEF auth
  <1>2. ASSUME NEW t \in Tenant, Cli(c, t) PROVE CallsSafe
    <2>1. Right("handler", Null, t) /\ Null \in Id /\ "handler" \in Phase
      BY DEF Right, Id, Phase
    <2> QED BY <1>2, <1>0, <2>1, BeginSafe DEF Cli
  <1>3. ASSUME NEW u \in Uid, resolve_consumer(c, u) PROVE CallsSafe
    <2>0. phase[c] # "idle" /\ {} \subseteq {who[c], Null}
      BY <1>3 DEF resolve_consumer
    <2>1. ASSUME NEW i \in get_consumer(who[c], u), Found(c, "consumer", i) PROVE CallsSafe
      <3>1. Right("consumer", i, who[c]) /\ i \in Id /\ "consumer" \in Phase
        BY <2>0, CallHas DEF Right, get_consumer, Id, Phase
      <3> QED BY <2>1, <3>1, <1>0, FoundSafe
    <2>2. CASE Answer(c, {})
      BY <2>0, <2>2, <1>K, AnswerSafe
    <2> QED BY <1>3, <2>1, <2>2 DEF resolve_consumer
  <1>4. ASSUME NEW i \in EventId, get_message(c, i) PROVE CallsSafe
    <2>0. phase[c] # "idle" /\ {} \subseteq {who[c], Null}
      BY <1>4 DEF get_message
    <2>1. CASE events[i].tenant = who[c] /\ Found(c, "event", i)
      <3>1. Right("event", i, who[c]) /\ i \in Id /\ "event" \in Phase
        BY <2>0, <2>1, CallHas DEF Right, Id, Phase
      <3> QED BY <2>1, <3>1, <1>0, FoundSafe
    <2>2. CASE Answer(c, {})
      BY <2>0, <2>2, <1>K, AnswerSafe
    <2> QED BY <1>4, <2>1, <2>2 DEF get_message
  <1>5. ASSUME NEW d \in Delivery, get_delivery(c, d) PROVE CallsSafe
    <2>0. phase[c] # "idle" /\ {} \subseteq {who[c], Null}
      BY <1>5 DEF get_delivery
    <2>1. CASE deliveries[d].tenant = who[c] /\ Found(c, "delivery", d)
      <3>1. Right("delivery", d, who[c]) /\ d \in Id /\ "delivery" \in Phase
        BY <2>0, <2>1, CallHas DEF Right, Id, Phase
      <3> QED BY <2>1, <3>1, <1>0, FoundSafe
    <2>2. CASE Answer(c, {})
      BY <2>0, <2>2, <1>K, AnswerSafe
    <2> QED BY <1>5, <2>1, <2>2 DEF get_delivery
  <1>6. ASSUME NEW s \in Slug, ingest(c, s) PROVE CallsSafe
    <2>1. PICK i \in get_inbound_source_by_slug(s) : Begin(c, "source", sources[i].tenant, i)
      BY <1>6 DEF ingest
    <2>2. Right("source", i, sources[i].tenant) /\ i \in Id /\ "source" \in Phase
      BY DEF Right, get_inbound_source_by_slug, TenancyInv, TableTypes, Owner, Id, Phase
    <2> QED BY <2>1, <2>2, <1>0, BeginSafe
  <1> QED BY <1>0, <1>1, <1>2, <1>3, <1>4, <1>5, <1>6

\* The statements that select by an id which the call holds, and the lists.
LEMMA ReadSafe ==
  ASSUME TenancyInv, NEW c \in Conn,
         \/ Refuse(c)
         \/ \E i \in EndpointId : get_endpoint(c, i)
         \/ deliveries_for_event(c)
         \/ attempts_for_delivery(c)
         \/ list(c)
         \/ list_consumers(c)
         \/ list_for_consumer(c)
  PROVE  CallsSafe /\ UNCHANGED tables
  <1>0. UNCHANGED tables
    BY DEF Refuse, get_endpoint, deliveries_for_event, attempts_for_delivery, list,
           list_consumers, list_for_consumer
  <1>K. Kept
    BY <1>0 DEF Kept, tables
  <1>P. phase[c] # "idle"
    BY DEF Refuse, get_endpoint, deliveries_for_event, attempts_for_delivery, list,
           list_consumers, list_for_consumer
  <1>H. Right(phase[c], held[c], who[c]) /\ who[c] \in Tenant
    BY <1>P, CallHas
  <1>1. CASE Refuse(c)
    <2>1. {} \subseteq {who[c], Null}
      OBVIOUS
    <2> QED BY <1>1, <2>1, <1>0, <1>K, <1>P, AnswerSafe DEF Refuse
  <1>2. ASSUME NEW i \in EndpointId, get_endpoint(c, i) PROVE CallsSafe
    <2>1. {endpoints[i].tenant} \cap {who[c]} \subseteq {who[c], Null}
      OBVIOUS
    <2> QED BY <1>2, <2>1, <1>0, <1>K, <1>P, AnswerSafe DEF get_endpoint
  <1>3. CASE deliveries_for_event(c)
    <2> DEFINE mine == {x \in Delivery : x[1] = held[c]}
               ts == {events[held[c]].tenant} \cup {deliveries[d].tenant : d \in mine}
    <2>1. events[held[c]].tenant = who[c]
      BY <1>3, <1>H DEF deliveries_for_event, Right
    <2>2. ASSUME NEW d \in mine PROVE deliveries[d].tenant \in {who[c], Null}
      BY <2>1 DEF TenancyInv, Coherent
    <2>3. ts \subseteq {who[c], Null}
      BY <2>1, <2>2
    <2>4. Answer(c, ts)
      BY <1>3 DEF deliveries_for_event
    <2> HIDE DEF ts
    <2> QED BY <2>3, <2>4, <1>0, <1>K, <1>P, AnswerSafe
  <1>4. CASE attempts_for_delivery(c)
    <2>1. {deliveries[held[c]].tenant} \subseteq {who[c], Null}
      BY <1>4, <1>H DEF attempts_for_delivery, Right
    <2> QED BY <1>4, <2>1, <1>0, <1>K, <1>P, AnswerSafe DEF attempts_for_delivery
  <1>5. CASE list(c)
    <2>1. PICK seen \in {Tenants(events, EventId), Tenants(endpoints, EndpointId),
                         Tenants(sources, SourceId)} : Answer(c, seen \cap {who[c]})
      BY <1>5 DEF list
    <2> DEFINE ts == seen \cap {who[c]}
    <2>2. ts \subseteq {who[c], Null} /\ Answer(c, ts)
      BY <2>1
    <2> HIDE DEF ts
    <2> QED BY <2>2, <1>0, <1>K, <1>P, AnswerSafe
  <1>6. ASSUME NEW i \in ConsumerId, consumers[i].tenant = who[c]
        PROVE  /\ Tenants(consumers, {i}) \subseteq {who[c], Null}
               /\ Tenants(endpoints, Of(endpoints, EndpointId, i)) \subseteq {who[c], Null}
               /\ Tenants(events, Of(events, EventId, i)) \subseteq {who[c], Null}
    <2>1. Tenants(consumers, {i}) \subseteq {who[c], Null}
      BY <1>6 DEF Tenants
    <2>2. ASSUME NEW j \in Of(endpoints, EndpointId, i) PROVE endpoints[j].tenant = who[c]
      BY <1>6 DEF Of, TenancyInv, Coherent
    <2>3. ASSUME NEW j \in Of(events, EventId, i) PROVE events[j].tenant = who[c]
      BY <1>6 DEF Of, TenancyInv, Coherent
    <2> QED BY <2>1, <2>2, <2>3 DEF Tenants
  <1>7. CASE list_consumers(c)
    <2> DEFINE mine == {i \in ConsumerId : consumers[i].tenant = who[c]}
               of(i) == Tenants(consumers, {i}) \cup Tenants(endpoints, Of(endpoints, EndpointId, i))
                          \cup Tenants(events, Of(events, EventId, i))
               ts == UNION {of(i) : i \in mine}
    <2>1. Answer(c, ts)
      BY <1>7 DEF list_consumers
    <2>2. ASSUME NEW i \in mine PROVE of(i) \subseteq {who[c], Null}
      BY <1>6
    <2> HIDE DEF of
    <2>3. ts \subseteq {who[c], Null}
      BY <2>2
    <2> HIDE DEF ts
    <2> QED BY <2>1, <2>3, <1>0, <1>K, <1>P, AnswerSafe
  <1>8. CASE list_for_consumer(c)
    <2>1. held[c] \in ConsumerId /\ consumers[held[c]].tenant = who[c]
      BY <1>8, <1>H DEF list_for_consumer, Right
    <2>2. PICK seen \in {Tenants(consumers, {held[c]}),
                         Tenants(endpoints, Of(endpoints, EndpointId, held[c])),
                         Tenants(events, Of(events, EventId, held[c]))} : Answer(c, seen)
      BY <1>8 DEF list_for_consumer
    <2>3. seen \subseteq {who[c], Null}
      BY <2>1, <2>2, <1>6
    <2>4. Answer(c, seen)
      BY <2>2
    <2> QED BY <2>3, <2>4, <1>0, <1>K, <1>P, AnswerSafe
  <1> QED BY <1>0, <1>1, <1>2, <1>3, <1>4, <1>5, <1>7, <1>8

-----------------------------------------------------------------------------
(* Calls that write *)

TablesSafe == TableTypes' /\ Rooted' /\ Coherent' /\ Kept

LEMMA SameTables ==
  ASSUME TenancyInv, UNCHANGED tables
  PROVE  TablesSafe /\ Writes
  BY DEF TenancyInv, TablesSafe, TableTypes, Rooted, Coherent, Kept, Writes, tables

\* What a call writes for its own tenant when it ends.
LEMMA Ends ==
  ASSUME TenancyInv, NEW c \in Conn, phase[c] # "idle", phase'[c] = "idle"
  PROVE  EndsFor(who[c])
  BY DEF EndsFor

LEMMA CreateConsumerSafe ==
  ASSUME TenancyInv, NEW c \in Conn, NEW uid \in Uid, create_consumer(c, uid)
  PROVE  TablesSafe /\ CallsSafe /\ Writes
  <1>1. phase[c] # "idle" /\ {who[c]} \subseteq {who[c], Null}
    BY DEF create_consumer
  <1>2. who[c] \in Tenant
    BY <1>1, CallHas
  <1>3. \/ UNCHANGED consumers
        \/ \E i \in ConsumerId :
             /\ consumers[i].tenant = Null
             /\ consumers' = [consumers EXCEPT ![i] = [tenant |-> who[c], uid |-> uid]]
    BY DEF create_consumer
  <1>4. UNCHANGED <<keys, endpoints, sources, events, deliveries>> /\ Answer(c, {who[c]})
    BY DEF create_consumer
  <1>5. TableTypes' /\ Kept
    BY <1>2, <1>3, <1>4 DEF TenancyInv, TableTypes, Kept, Owner
  <1>6. CallsSafe /\ phase'[c] = "idle"
    BY <1>1, <1>4, <1>5, AnswerSafe
  <1>7. Rooted'
    BY <1>4 DEF TenancyInv, Rooted
  <1>8. Coherent'
    <2>1. \A i \in ConsumerId : consumers[i].tenant # Null => consumers'[i] = consumers[i]
      BY <1>5 DEF Kept
    <2>2. ASSUME NEW i \in EndpointId, endpoints[i].consumer # Null
          PROVE  endpoints[i].tenant = consumers'[endpoints[i].consumer].tenant
      BY <2>1, <2>2 DEF TenancyInv, TableTypes, Rooted, Coherent
    <2>3. ASSUME NEW i \in EventId, events[i].consumer # Null
          PROVE  events[i].tenant = consumers'[events[i].consumer].tenant
      BY <2>1, <2>3 DEF TenancyInv, TableTypes, Rooted, Coherent
    <2> QED BY <1>4, <2>2, <2>3 DEF TenancyInv, Coherent
  <1>9. Writes
    <2>1. EndsFor(who[c])
      BY <1>1, <1>6, Ends
    <2>2. ASSUME NEW i \in ConsumerId, consumers'[i] # consumers[i]
          PROVE  consumers'[i].tenant = who[c] /\ consumers[i].tenant = Null
      BY <1>3, <2>2 DEF TenancyInv, TableTypes
    <2> QED BY <1>4, <2>1, <2>2 DEF Writes
  <1> QED BY <1>5, <1>6, <1>7, <1>8, <1>9 DEF TablesSafe

LEMMA CreateSourceSafe ==
  ASSUME TenancyInv, NEW c \in Conn, NEW s \in Slug, create_inbound_source(c, s)
  PROVE  TablesSafe /\ CallsSafe /\ Writes
  <1>1. phase[c] # "idle" /\ {who[c]} \subseteq {who[c], Null} /\ {} \subseteq {who[c], Null}
    BY DEF create_inbound_source
  <1>2. who[c] \in Tenant
    BY <1>1, CallHas
  <1>3. \/ UNCHANGED sources
        \/ \E i \in SourceId :
             /\ sources[i].tenant = Null
             /\ sources' = [sources EXCEPT ![i] = [tenant |-> who[c], slug |-> s]]
    BY DEF create_inbound_source
  <1>4. /\ UNCHANGED <<keys, consumers, endpoints, events, deliveries>>
        /\ Answer(c, {who[c]}) \/ Answer(c, {})
    BY DEF create_inbound_source
  <1>5. TableTypes' /\ Kept
    BY <1>2, <1>3, <1>4 DEF TenancyInv, TableTypes, Kept, Owner
  <1>6. CallsSafe /\ phase'[c] = "idle"
    BY <1>1, <1>4, <1>5, AnswerSafe
  <1>7. Rooted' /\ Coherent'
    BY <1>4 DEF TenancyInv, Rooted, Coherent
  <1>8. Writes
    <2>1. EndsFor(who[c])
      BY <1>1, <1>6, Ends
    <2>2. ASSUME NEW i \in SourceId, sources'[i] # sources[i]
          PROVE  sources'[i].tenant = who[c] /\ sources[i].tenant = Null
      BY <1>3, <2>2 DEF TenancyInv, TableTypes
    <2> QED BY <1>4, <2>1, <2>2 DEF Writes
  <1> QED BY <1>5, <1>6, <1>7, <1>8 DEF TablesSafe

\* A call that resolved a consumer has one of its tenant.
LEMMA ScopeOwned ==
  ASSUME TenancyInv, NEW c \in Conn, phase[c] # "idle"
  PROVE  scope(c) = Null \/ (scope(c) \in ConsumerId /\ consumers[scope(c)].tenant = who[c])
  BY CallHas DEF scope, Right

LEMMA CreateEndpointSafe ==
  ASSUME TenancyInv, NEW c \in Conn, create_endpoint(c)
  PROVE  TablesSafe /\ CallsSafe /\ Writes
  <1>1. phase[c] # "idle" /\ {who[c]} \subseteq {who[c], Null}
    BY DEF create_endpoint
  <1>2. who[c] \in Tenant
    BY <1>1, CallHas
  <1>3. PICK i \in EndpointId :
          /\ endpoints[i].tenant = Null
          /\ endpoints' = [endpoints EXCEPT ![i] =
                             [tenant |-> who[c], consumer |-> scope(c), disabled |-> FALSE]]
    BY DEF create_endpoint
  <1>4. UNCHANGED <<keys, consumers, sources, events, deliveries>> /\ Answer(c, {who[c]})
    BY DEF create_endpoint
  <1>S. scope(c) = Null \/ (scope(c) \in ConsumerId /\ consumers[scope(c)].tenant = who[c])
    BY <1>1, ScopeOwned
  <1>5. TableTypes' /\ Kept
    BY <1>2, <1>3, <1>4, <1>S DEF TenancyInv, TableTypes, Kept, Owner
  <1>6. CallsSafe /\ phase'[c] = "idle"
    BY <1>1, <1>4, <1>5, AnswerSafe
  <1>E. /\ endpoints'[i].tenant = who[c] /\ endpoints'[i].consumer = scope(c)
        /\ \A j \in EndpointId : j # i => endpoints'[j] = endpoints[j]
    BY <1>3 DEF TenancyInv, TableTypes
  <1>7. Rooted'
    BY <1>2, <1>4, <1>E DEF TenancyInv, Rooted
  <1>8. Coherent'
    <2>1. ASSUME NEW j \in EndpointId, endpoints'[j].consumer # Null
          PROVE  endpoints'[j].tenant = consumers[endpoints'[j].consumer].tenant
      BY <1>S, <1>E, <2>1 DEF TenancyInv, Coherent
    <2>2. ASSUME NEW d \in Delivery, deliveries[d].tenant # Null
          PROVE  endpoints'[d[2]] = endpoints[d[2]]
      BY <1>3, <1>E, <2>2 DEF TenancyInv, Coherent, Delivery
    <2>3. ASSUME NEW d \in Delivery, deliveries[d].tenant # Null
          PROVE  /\ deliveries[d].tenant = events[d[1]].tenant
                 /\ deliveries[d].tenant = endpoints'[d[2]].tenant
                 /\ events[d[1]].consumer = endpoints'[d[2]].consumer
      BY <2>2, <2>3 DEF TenancyInv, Coherent
    <2>4. \A j \in EventId : events[j].consumer # Null =>
            events[j].tenant = consumers[events[j].consumer].tenant
      BY DEF TenancyInv, Coherent
    <2> QED BY <1>4, <2>1, <2>3, <2>4 DEF Coherent
  <1>9. Writes
    <2>1. EndsFor(who[c])
      BY <1>1, <1>6, Ends
    <2> QED BY <1>3, <1>4, <1>E, <2>1 DEF Writes
  <1> QED BY <1>5, <1>6, <1>7, <1>8, <1>9 DEF TablesSafe

LEMMA UpdateEndpointSafe ==
  ASSUME TenancyInv, NEW c \in Conn, NEW i \in EndpointId, NEW b \in BOOLEAN,
         update_endpoint(c, i, b)
  PROVE  TablesSafe /\ CallsSafe /\ Writes
  <1>1. phase[c] # "idle" /\ {} \subseteq {who[c], Null}
    BY DEF update_endpoint
  <1>2. UNCHANGED <<keys, consumers, sources, events, deliveries>>
    BY DEF update_endpoint
  <1>3. \/ /\ endpoints[i].tenant = who[c] /\ Answer(c, {endpoints[i].tenant})
           /\ endpoints' = [endpoints EXCEPT ![i].disabled = b]
        \/ UNCHANGED endpoints /\ Answer(c, {})
    BY DEF update_endpoint
  <1>T. endpoints' \in [EndpointId -> [tenant : Owner, consumer : ConsumerId \cup {Null},
                                       disabled : BOOLEAN]]
    BY <1>3 DEF TenancyInv, TableTypes
  <1>4. TableTypes' /\ Kept
    BY <1>2, <1>T DEF TenancyInv, TableTypes, Kept
  <1>5. \A j \in EndpointId : /\ endpoints'[j].tenant = endpoints[j].tenant
                              /\ endpoints'[j].consumer = endpoints[j].consumer
    BY <1>3 DEF TenancyInv, TableTypes
  <1>6. CallsSafe /\ phase'[c] = "idle"
    <2>1. CASE endpoints[i].tenant = who[c] /\ Answer(c, {endpoints[i].tenant})
      <3>1. {endpoints[i].tenant} \subseteq {who[c], Null}
        BY <2>1
      <3> QED BY <1>1, <1>4, <2>1, <3>1, AnswerSafe
    <2>2. CASE Answer(c, {})
      BY <1>1, <1>4, <2>2, AnswerSafe
    <2> QED BY <1>3, <2>1, <2>2
  <1>7. Rooted'
    BY <1>2, <1>5 DEF TenancyInv, Rooted
  <1>8. Coherent'
    BY <1>2, <1>5 DEF TenancyInv, Coherent, Delivery
  <1>9. Writes
    <2>1. EndsFor(who[c])
      BY <1>1, <1>6, Ends
    <2>2. ASSUME NEW j \in EndpointId, endpoints'[j] # endpoints[j]
          PROVE  endpoints[j].tenant = who[c] /\ endpoints'[j].tenant = who[c]
      BY <1>3, <1>5, <2>2 DEF TenancyInv, TableTypes
    <2> QED BY <1>2, <2>1, <2>2 DEF Writes
  <1> QED BY <1>4, <1>6, <1>7, <1>8, <1>9 DEF TablesSafe

\* The event and its deliveries get the tenant and the consumer of the call.
LEMMA EnqueueSafe ==
  ASSUME TenancyInv, NEW c \in Conn, phase[c] # "idle", NEW consumer \in ConsumerId \cup {Null},
         consumer # Null => consumers[consumer].tenant = who[c],
         enqueue_message(c, who[c], consumer)
  PROVE  TablesSafe /\ CallsSafe /\ Writes
  <1>2. who[c] \in Tenant /\ {who[c]} \subseteq {who[c], Null}
    BY CallHas
  <1>3. PICK i \in EventId, targets \in SUBSET active(who[c], consumer) :
          /\ events[i].tenant = Null
          /\ events' = [events EXCEPT ![i] = [tenant |-> who[c], consumer |-> consumer]]
          /\ deliveries' = [d \in Delivery |->
                              IF d[1] = i /\ d[2] \in targets
                                THEN [tenant |-> who[c], queued |-> TRUE] ELSE deliveries[d]]
    BY DEF enqueue_message
  <1>4. UNCHANGED <<keys, consumers, endpoints, sources>> /\ Answer(c, {who[c]})
    BY DEF enqueue_message
  <1>5. /\ events'[i].tenant = who[c] /\ events'[i].consumer = consumer
        /\ \A j \in EventId : j # i => events'[j] = events[j]
    BY <1>3 DEF TenancyInv, TableTypes
  <1>6. ASSUME NEW d \in Delivery, d[1] = i PROVE deliveries[d].tenant = Null
    BY <1>3, <1>6 DEF TenancyInv, Coherent
  <1>7. ASSUME NEW d \in Delivery
        PROVE  \/ deliveries'[d] = deliveries[d]
               \/ /\ d[1] = i /\ deliveries[d].tenant = Null
                  /\ deliveries'[d] = [tenant |-> who[c], queued |-> TRUE]
                  /\ endpoints[d[2]].tenant = who[c]
                  /\ endpoints[d[2]].consumer = consumer
    BY <1>3, <1>6 DEF active
  <1>8. TableTypes'
    <2>1. events' \in [EventId -> [tenant : Owner, consumer : ConsumerId \cup {Null}]]
      BY <1>2, <1>3 DEF TenancyInv, TableTypes, Owner
    <2>2. deliveries' \in [Delivery -> [tenant : Owner, queued : BOOLEAN]]
      BY <1>2, <1>3 DEF TenancyInv, TableTypes, Owner
    <2> QED BY <1>4, <2>1, <2>2 DEF TenancyInv, TableTypes
  <1>9. Kept
    BY <1>3, <1>4, <1>5, <1>7 DEF Kept
  <1>10. CallsSafe /\ phase'[c] = "idle"
    BY <1>2, <1>4, <1>9, AnswerSafe
  <1>11. Rooted'
    BY <1>2, <1>4, <1>5 DEF TenancyInv, Rooted
  <1>12. Coherent'
    <2>1. ASSUME NEW j \in EventId, events'[j].consumer # Null
          PROVE  events'[j].tenant = consumers[events'[j].consumer].tenant
      BY <1>5, <2>1 DEF TenancyInv, Coherent
    <2>2. ASSUME NEW d \in Delivery, deliveries'[d].tenant # Null
          PROVE  /\ deliveries'[d].tenant = events'[d[1]].tenant
                 /\ deliveries'[d].tenant = endpoints[d[2]].tenant
                 /\ events'[d[1]].consumer = endpoints[d[2]].consumer
      <3>1. d[1] \in EventId
        BY DEF Delivery
      <3>2. CASE deliveries'[d] = deliveries[d]
        <4>1. d[1] # i
          BY <1>6, <2>2, <3>2
        <4> QED BY <1>5, <2>2, <3>1, <3>2, <4>1 DEF TenancyInv, Coherent
      <3>3. CASE deliveries'[d] # deliveries[d]
        BY <1>5, <1>7, <3>3
      <3> QED BY <3>2, <3>3
    <2>3. \A j \in EndpointId : endpoints[j].consumer # Null =>
            endpoints[j].tenant = consumers[endpoints[j].consumer].tenant
      BY DEF TenancyInv, Coherent
    <2> QED BY <1>4, <2>1, <2>2, <2>3 DEF Coherent
  <1>13. Writes
    <2>1. EndsFor(who[c])
      BY <1>10, Ends
    <2>2. ASSUME NEW d \in Delivery, deliveries'[d] # deliveries[d]
          PROVE  deliveries'[d].tenant = who[c] /\ deliveries[d].tenant = Null
      BY <1>7, <2>2
    <2>3. ASSUME NEW j \in EventId, events'[j] # events[j]
          PROVE  events'[j].tenant = who[c] /\ events[j].tenant = Null
      BY <1>3, <1>5, <2>3
    <2> QED BY <1>4, <2>1, <2>2, <2>3 DEF Writes
  <1> QED BY <1>8, <1>9, <1>10, <1>11, <1>12, <1>13 DEF TablesSafe

LEMMA MessageSafe ==
  ASSUME TenancyInv, NEW c \in Conn, create_message(c) \/ accept(c)
  PROVE  TablesSafe /\ CallsSafe /\ Writes
  <1>1. phase[c] # "idle"
    BY DEF create_message, accept
  <1>2. CASE create_message(c)
    <2>1. /\ scope(c) \in ConsumerId \cup {Null}
          /\ scope(c) # Null => consumers[scope(c)].tenant = who[c]
      BY <1>1, ScopeOwned
    <2>2. enqueue_message(c, who[c], scope(c))
      BY <1>2 DEF create_message
    <2> HIDE DEF scope
    <2> QED BY <1>1, <2>1, <2>2, EnqueueSafe
  <1>3. CASE accept(c)
    <2>1. sources[held[c]].tenant = who[c]
      BY <1>3, <1>1, CallHas DEF accept, Right
    <2>2. enqueue_message(c, who[c], Null)
      BY <1>3, <2>1 DEF accept
    <2> QED BY <1>1, <2>2, EnqueueSafe
  <1> QED BY <1>2, <1>3

\* Writes to a row's queue columns: replay by its tenant, settling by a worker.
LEMMA QueueSafe ==
  ASSUME TenancyInv, NEW d \in Delivery, NEW b \in BOOLEAN,
         deliveries' = [deliveries EXCEPT ![d].queued = b],
         UNCHANGED <<keys, consumers, endpoints, sources, events>>
  PROVE  TablesSafe /\ \A x \in Delivery : x # d => deliveries'[x] = deliveries[x]
  <1>1. deliveries' \in [Delivery -> [tenant : Owner, queued : BOOLEAN]]
    BY DEF TenancyInv, TableTypes
  <1>2. \A x \in Delivery : /\ deliveries'[x].tenant = deliveries[x].tenant
                            /\ x # d => deliveries'[x] = deliveries[x]
    BY DEF TenancyInv, TableTypes
  <1>3. TableTypes' /\ Rooted' /\ Kept
    BY <1>1, <1>2 DEF TenancyInv, TableTypes, Rooted, Kept
  <1>4. Coherent'
    BY <1>2 DEF TenancyInv, Coherent
  <1> QED BY <1>2, <1>3, <1>4 DEF TablesSafe

LEMMA ReplaySafe ==
  ASSUME TenancyInv, NEW c \in Conn, reset_for_replay(c)
  PROVE  TablesSafe /\ CallsSafe /\ Writes
  <1>1. phase[c] # "idle" /\ {} \subseteq {who[c], Null}
    BY DEF reset_for_replay
  <1>2. held[c] \in Delivery /\ deliveries[held[c]].tenant = who[c]
    BY <1>1, CallHas DEF reset_for_replay, Right
  <1>3. /\ deliveries' = [deliveries EXCEPT ![held[c]].queued = TRUE]
        /\ UNCHANGED <<keys, consumers, endpoints, sources, events>> /\ Answer(c, {})
    BY DEF reset_for_replay
  <1>4. TablesSafe /\ \A x \in Delivery : x # held[c] => deliveries'[x] = deliveries[x]
    BY <1>2, <1>3, QueueSafe
  <1>5. CallsSafe /\ phase'[c] = "idle"
    BY <1>1, <1>3, <1>4, AnswerSafe DEF TablesSafe
  <1>6. deliveries'[held[c]].tenant = who[c]
    BY <1>2, <1>3 DEF TenancyInv, TableTypes
  <1>7. EndsFor(who[c])
    BY <1>1, <1>5, Ends
  <1>8. Writes
    BY <1>2, <1>3, <1>4, <1>6, <1>7 DEF Writes
  <1> QED BY <1>4, <1>5, <1>8

LEMMA OutsideSafe ==
  ASSUME TenancyInv,
         \/ \E k \in Key, t \in Tenant : CreateApiKey(k, t)
         \/ \E d \in Delivery : Settle(d)
  PROVE  TablesSafe /\ CallsSafe /\ Writes
  <1>1. ASSUME NEW k \in Key, NEW t \in Tenant, CreateApiKey(k, t)
        PROVE  TablesSafe /\ CallsSafe /\ Writes
    <2>1. UNCHANGED <<consumers, endpoints, sources, events, deliveries, callVars>>
      BY <1>1 DEF CreateApiKey
    <2>2. TableTypes'
      BY <1>1, <2>1 DEF CreateApiKey, TenancyInv, TableTypes, Owner
    <2>3. Rooted' /\ Coherent' /\ Kept /\ Writes
      BY <2>1 DEF TenancyInv, Rooted, Coherent, Kept, Writes
    <2> QED BY <2>1, <2>2, <2>3, IdleSafe DEF TablesSafe
  <1>2. ASSUME NEW d \in Delivery, Settle(d)
        PROVE  TablesSafe /\ CallsSafe /\ Writes
    <2>1. /\ deliveries' = [deliveries EXCEPT ![d].queued = FALSE]
          /\ UNCHANGED <<keys, consumers, endpoints, sources, events, callVars>>
      BY <1>2 DEF Settle
    <2>2. TablesSafe /\ \A x \in Delivery : x # d => deliveries'[x] = deliveries[x]
      BY <2>1, QueueSafe
    <2>3. deliveries'[d].queued = FALSE
      BY <2>1 DEF TenancyInv, TableTypes
    <2>4. Writes
      BY <2>1, <2>2, <2>3 DEF Writes
    <2> QED BY <2>1, <2>2, <2>4, IdleSafe DEF TablesSafe
  <1> QED BY <1>1, <1>2

-----------------------------------------------------------------------------
(* The theorems *)

LEMMA TenancyInit ==
  ASSUME Init
  PROVE  TenancyInv
  <1>1. TableTypes
    BY DEF Init, TableTypes, Owner, Delivery
  <1>2. CallTypes
    BY DEF Init, CallTypes, Phase, Owner, Id
  <1>3. Trusted /\ Rooted /\ ShowsOwn
    BY DEF Init, Trusted, Rooted, ShowsOwn
  <1>4. Coherent
    BY DEF Init, Coherent
  <1> QED BY <1>1, <1>2, <1>3, <1>4 DEF TenancyInv

LEMMA TenancyStep ==
  ASSUME TenancyInv, [Next]_vars
  PROVE  TenancyInv' /\ Writes
  <1>1. ASSUME NEW c \in Conn, Call(c) PROVE TablesSafe /\ CallsSafe /\ Writes
    BY <1>1, LookupSafe, ReadSafe, SameTables, CreateConsumerSafe, CreateSourceSafe,
       CreateEndpointSafe, UpdateEndpointSafe, MessageSafe, ReplaySafe DEF Call
  <1>2. CASE UNCHANGED vars
    <2>1. TablesSafe /\ Writes
      BY <1>2, SameTables DEF vars
    <2>2. CallsSafe
      BY <1>2, <2>1, IdleSafe DEF vars, TablesSafe
    <2> QED BY <2>1, <2>2 DEF TablesSafe, CallsSafe, TenancyInv
  <1>3. CASE Next
    BY <1>1, <1>3, OutsideSafe DEF Next, TablesSafe, CallsSafe, TenancyInv
  <1> QED BY <1>2, <1>3

\* The inductive invariant.
LEMMA TenancyInvariant == Spec => []TenancyInv
  BY TenancyInit, TenancyStep, PTL DEF Spec

\* The tables and the calls are well-typed; the row a call holds is of its kind.
THEOREM TenancyTyped == Spec => []TypeOK
  <1>1. TenancyInv => TypeOK
    BY DEF TenancyInv, TableTypes, CallTypes, Phase, Trusted, Right, TypeOK
  <1> QED BY <1>1, TenancyInvariant, PTL

\* Rows that refer to each other agree on tenant and consumer.
THEOREM RowsCohere == Spec => []Coherent
  <1>1. TenancyInv => Coherent
    BY DEF TenancyInv
  <1> QED BY <1>1, TenancyInvariant, PTL

\* No answer has a row of another tenant.
THEOREM AnswersShowOwn == Spec => []ShowsOwn
  <1>1. TenancyInv => ShowsOwn
    BY DEF TenancyInv
  <1> QED BY <1>1, TenancyInvariant, PTL

\* No call writes a row of another tenant.
THEOREM CallsWriteOwn == Spec => WritesOwn
  <1>1. TenancyInv /\ [Next]_vars => [Writes]_vars
    BY TenancyStep
  <1>2. TenancyInv /\ [Next]_vars => TenancyInv'
    BY TenancyStep
  <1> QED BY <1>1, <1>2, TenancyInvariant, PTL DEF Spec, WritesOwn, Writes

=============================================================================
