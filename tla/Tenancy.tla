------------------------------- MODULE Tenancy -------------------------------
(***************************************************************************)
(* The tables that tenants share, and the API and CLI calls on them        *)
(* (api.rs, main.rs, store.rs).  No constraint of the schema ties a row's  *)
(* tenant_id to that of the rows it refers to, and about half of the calls *)
(* take two statements of which only the first looks at the tenant: that   *)
(* tenants stay apart rests on how the statements follow each other.       *)
(*                                                                         *)
(* A call is authenticated, may look a row up, and ends with a statement   *)
(* whose rows it returns.  Ids are UUIDs: any unused one.  Of a row there  *)
(* is what the calls select by; of an answer, whose rows are in it.        *)
(***************************************************************************)
EXTENDS Naturals, FiniteSets

CONSTANTS
  Conn,        \* calls that run at once
  Key,         \* API keys
  Tenant,
  Uid,         \* names that tenants give to consumers
  Slug,        \* names of inbound sources
  ConsumerId, EndpointId, SourceId, EventId,
  Null         \* SQL NULL, and no row

ASSUME TenancyAssumption ==
  /\ Uid # {} /\ Slug # {}
  /\ Null \notin Tenant \cup ConsumerId \cup EndpointId \cup SourceId \cup EventId

VARIABLES
  keys,        \* api_keys
  consumers,
  endpoints,
  sources,     \* inbound_sources
  events,
  deliveries,
  phase,       \* where each call stands
  who,         \* the tenant it acts for
  held,        \* the id that its first statement found
  shown        \* tenants with a row in its answer

tables == <<keys, consumers, endpoints, sources, events, deliveries>>
callVars == <<phase, who, held, shown>>
vars == <<tables, callVars>>

\* UNIQUE (event_id, endpoint_id)
Delivery == EventId \X EndpointId

Owner == Tenant \cup {Null}

Id == SourceId \cup ConsumerId \cup EventId \cup Delivery \cup {Null}

\* "source", "consumer", "event", "delivery": what the first statement found.
TypeOK ==
  /\ keys \in [Key -> Owner]
  /\ consumers \in [ConsumerId -> [tenant : Owner, uid : Uid]]
  /\ endpoints \in [EndpointId -> [tenant : Owner, consumer : ConsumerId \cup {Null},
                                   disabled : BOOLEAN]]
  /\ sources \in [SourceId -> [tenant : Owner, slug : Slug]]
  /\ events \in [EventId -> [tenant : Owner, consumer : ConsumerId \cup {Null}]]
  /\ deliveries \in [Delivery -> [tenant : Owner, queued : BOOLEAN]]
  /\ phase \in [Conn -> {"idle", "handler", "source", "consumer", "event", "delivery"}]
  /\ who \in [Conn -> Owner]
  /\ held \in [Conn -> Id]
  /\ shown \in [Conn -> SUBSET Tenant]
  /\ \A c \in Conn :
       /\ phase[c] # "idle" => who[c] \in Tenant
       /\ phase[c] = "source" => held[c] \in SourceId
       /\ phase[c] = "consumer" => held[c] \in ConsumerId
       /\ phase[c] = "event" => held[c] \in EventId
       /\ phase[c] = "delivery" => held[c] \in Delivery

Init ==
  /\ keys = [k \in Key |-> Null]
  /\ consumers = [i \in ConsumerId |-> [tenant |-> Null, uid |-> CHOOSE u \in Uid : TRUE]]
  /\ endpoints = [i \in EndpointId |-> [tenant |-> Null, consumer |-> Null, disabled |-> FALSE]]
  /\ sources = [i \in SourceId |-> [tenant |-> Null, slug |-> CHOOSE s \in Slug : TRUE]]
  /\ events = [i \in EventId |-> [tenant |-> Null, consumer |-> Null]]
  /\ deliveries = [d \in Delivery |-> [tenant |-> Null, queued |-> FALSE]]
  /\ phase = [c \in Conn |-> "idle"]
  /\ who = [c \in Conn |-> Null]
  /\ held = [c \in Conn |-> Null]
  /\ shown = [c \in Conn |-> {}]

-----------------------------------------------------------------------------
(* How calls begin and end *)

Begin(c, where, t, id) ==
  /\ phase[c] = "idle"
  /\ phase' = [phase EXCEPT ![c] = where]
  /\ who' = [who EXCEPT ![c] = t]
  /\ held' = [held EXCEPT ![c] = id]
  /\ shown' = [shown EXCEPT ![c] = {}]

\* The bearer token's tenant; an unknown key gets a 401.
auth(c, k) ==
  /\ keys[k] # Null /\ Begin(c, "handler", keys[k], Null)
  /\ UNCHANGED tables

\* A command of the CLI names the tenant.  (It then takes one of the create
\* operations below; what else a call may do from here is more than it does.)
Cli(c, t) == Begin(c, "handler", t, Null) /\ UNCHANGED tables

\* insert_api_key: ON CONFLICT (key_hash) DO NOTHING.
CreateApiKey(k, t) ==
  /\ keys[k] = Null
  /\ keys' = [keys EXCEPT ![k] = t]
  /\ UNCHANGED <<consumers, endpoints, sources, events, deliveries, callVars>>

\* The first of two statements has found a row.
Found(c, where, id) ==
  /\ phase' = [phase EXCEPT ![c] = where]
  /\ held' = [held EXCEPT ![c] = id]
  /\ UNCHANGED <<who, shown>>

\* An answer with rows of the tenants ts; of none with an error.
Answer(c, ts) ==
  /\ phase' = [phase EXCEPT ![c] = "idle"]
  /\ held' = [held EXCEPT ![c] = Null]
  /\ shown' = [shown EXCEPT ![c] = ts \ {Null}]
  /\ UNCHANGED who

\* A call ends without effect: rate-limited, invalid, a wrong signature, a
\* webhook that was accepted before, a failed statement or a rollback.
Refuse(c) == phase[c] # "idle" /\ Answer(c, {}) /\ UNCHANGED tables

-----------------------------------------------------------------------------
(* Consumers *)

\* Mutant: the lookup forgets the tenant.
get_consumer_any(t, uid) == {i \in ConsumerId : consumers[i].tenant # Null /\ consumers[i].uid = uid}

get_consumer(t, uid) == {i \in ConsumerId : consumers[i].tenant = t /\ consumers[i].uid = uid}

\* Get or create; the unique index makes it one step.  (Labels are left out.)
create_consumer(c, uid) ==
  /\ phase[c] = "handler"
  /\ \/ get_consumer(who[c], uid) # {} /\ UNCHANGED consumers
     \/ /\ get_consumer(who[c], uid) = {}
        /\ \E i \in ConsumerId :
             /\ consumers[i].tenant = Null
             /\ consumers' = [consumers EXCEPT ![i] = [tenant |-> who[c], uid |-> uid]]
  /\ Answer(c, {who[c]})
  /\ UNCHANGED <<keys, endpoints, sources, events, deliveries>>

\* Mutant: goes on without a consumer.
resolve_consumer_unwrapped(c, uid) ==
  /\ phase[c] = "handler"
  /\ \/ \E i \in get_consumer(who[c], uid) : Found(c, "consumer", i)
     \/ get_consumer(who[c], uid) = {} /\ Found(c, "consumer", Null)
  /\ UNCHANGED tables

resolve_consumer(c, uid) ==
  /\ phase[c] = "handler"
  /\ \/ \E i \in get_consumer(who[c], uid) : Found(c, "consumer", i)
     \/ get_consumer(who[c], uid) = {} /\ Answer(c, {})
  /\ UNCHANGED tables

\* The consumer's id where one was resolved, else the tenant itself.
scope(c) == IF phase[c] = "consumer" THEN held[c] ELSE Null

-----------------------------------------------------------------------------
(* Endpoints *)

create_endpoint(c) ==
  /\ phase[c] \in {"handler", "consumer"}
  /\ \E i \in EndpointId :
       /\ endpoints[i].tenant = Null
       /\ endpoints' = [endpoints EXCEPT ![i] =
                          [tenant |-> who[c], consumer |-> scope(c), disabled |-> FALSE]]
  /\ Answer(c, {who[c]})
  /\ UNCHANGED <<keys, consumers, sources, events, deliveries>>

\* Mutant: WHERE id = $1.
update_endpoint_any(c, i, disabled) ==
  /\ phase[c] = "handler" /\ endpoints[i].tenant # Null
  /\ endpoints' = [endpoints EXCEPT ![i].disabled = disabled]
  /\ Answer(c, {endpoints[i].tenant})
  /\ UNCHANGED <<keys, consumers, sources, events, deliveries>>

\* WHERE id = $1 AND tenant_id = $2, else a 404.
update_endpoint(c, i, disabled) ==
  /\ phase[c] = "handler"
  /\ \/ /\ endpoints[i].tenant = who[c]
        /\ endpoints' = [endpoints EXCEPT ![i].disabled = disabled]
        /\ Answer(c, {endpoints[i].tenant})
     \/ endpoints[i].tenant # who[c] /\ UNCHANGED endpoints /\ Answer(c, {})
  /\ UNCHANGED <<keys, consumers, sources, events, deliveries>>

\* A row of another tenant is filtered out like a missing one.
get_endpoint(c, i) ==
  /\ phase[c] = "handler"
  /\ Answer(c, {endpoints[i].tenant} \cap {who[c]})
  /\ UNCHANGED tables

-----------------------------------------------------------------------------
(* Messages *)

\* active_endpoints_for_scope
active(t, consumer) ==
  {i \in EndpointId : /\ endpoints[i].tenant = t /\ ~endpoints[i].disabled
                      /\ endpoints[i].consumer = consumer}

\* The transaction of enqueue_message or accept: the event and a delivery to each
\* active endpoint that subscribes to its type (see Ingest), here any of them.
enqueue_message(c, t, consumer) ==
  /\ \E i \in EventId, targets \in SUBSET active(t, consumer) :
       /\ events[i].tenant = Null
       /\ events' = [events EXCEPT ![i] = [tenant |-> t, consumer |-> consumer]]
       /\ deliveries' = [d \in Delivery |->
                           IF d[1] = i /\ d[2] \in targets
                             THEN [tenant |-> t, queued |-> TRUE] ELSE deliveries[d]]
  /\ Answer(c, {t})
  /\ UNCHANGED <<keys, consumers, endpoints, sources>>

create_message(c) ==
  phase[c] \in {"handler", "consumer"} /\ enqueue_message(c, who[c], scope(c))

\* Mutant: any event that exists.
get_message_any(c, i) ==
  /\ phase[c] = "handler" /\ events[i].tenant # Null
  /\ Found(c, "event", i)
  /\ UNCHANGED tables

get_message(c, i) ==
  /\ phase[c] = "handler"
  /\ \/ events[i].tenant = who[c] /\ Found(c, "event", i)
     \/ events[i].tenant # who[c] /\ Answer(c, {})
  /\ UNCHANGED tables

\* The second statement selects by event_id alone.
deliveries_for_event(c) ==
  /\ phase[c] = "event"
  /\ Answer(c, {events[held[c]].tenant}
                 \cup {deliveries[d].tenant : d \in {x \in Delivery : x[1] = held[c]}})
  /\ UNCHANGED tables

\* get_delivery or require_delivery, and the comparison of tenants.
get_delivery(c, d) ==
  /\ phase[c] = "handler"
  /\ \/ deliveries[d].tenant = who[c] /\ Found(c, "delivery", d)
     \/ deliveries[d].tenant # who[c] /\ Answer(c, {})
  /\ UNCHANGED tables

\* Attempts belong to their delivery.
attempts_for_delivery(c) ==
  /\ phase[c] = "delivery"
  /\ Answer(c, {deliveries[held[c]].tenant})
  /\ UNCHANGED tables

\* WHERE id = $1
reset_for_replay(c) ==
  /\ phase[c] = "delivery"
  /\ deliveries' = [deliveries EXCEPT ![held[c]].queued = TRUE]
  /\ Answer(c, {})
  /\ UNCHANGED <<keys, consumers, endpoints, sources, events>>

\* A worker settles a delivery (see Dispatcher).
Settle(d) ==
  /\ deliveries[d].queued
  /\ deliveries' = [deliveries EXCEPT ![d].queued = FALSE]
  /\ UNCHANGED <<keys, consumers, endpoints, sources, events, callVars>>

-----------------------------------------------------------------------------
(* Inbound sources *)

get_inbound_source_by_slug(s) == {i \in SourceId : sources[i].tenant # Null /\ sources[i].slug = s}

\* slug is UNIQUE across tenants: a taken one is a 409.
create_inbound_source(c, s) ==
  /\ phase[c] = "handler"
  /\ \/ /\ get_inbound_source_by_slug(s) = {}
        /\ \E i \in SourceId :
             /\ sources[i].tenant = Null
             /\ sources' = [sources EXCEPT ![i] = [tenant |-> who[c], slug |-> s]]
        /\ Answer(c, {who[c]})
     \/ get_inbound_source_by_slug(s) # {} /\ UNCHANGED sources /\ Answer(c, {})
  /\ UNCHANGED <<keys, consumers, endpoints, events, deliveries>>

\* A webhook acts for the tenant of its source; an unknown slug gets a 401.
ingest(c, s) ==
  /\ \E i \in get_inbound_source_by_slug(s) : Begin(c, "source", sources[i].tenant, i)
  /\ UNCHANGED tables

\* The signature is right: the webhook is bridged to the tenant's own endpoints.
accept(c) == phase[c] = "source" /\ enqueue_message(c, sources[held[c]].tenant, Null)

-----------------------------------------------------------------------------
(* Lists *)

Tenants(table, S) == {table[i].tenant : i \in S}

Of(table, S, consumer) == {i \in S : table[i].tenant # Null /\ table[i].consumer = consumer}

\* list_events, list_endpoints, list_inbound_sources: WHERE tenant_id = $1.
list(c) ==
  /\ phase[c] = "handler"
  /\ \E seen \in {Tenants(events, EventId), Tenants(endpoints, EndpointId),
                  Tenants(sources, SourceId)} :
       Answer(c, seen \cap {who[c]})
  /\ UNCHANGED tables

\* The rows are the tenant's, the counts go by consumer_id alone.
list_consumers(c) ==
  LET mine == {i \in ConsumerId : consumers[i].tenant = who[c]} IN
  /\ phase[c] = "handler"
  /\ Answer(c, UNION {Tenants(consumers, {i}) \cup Tenants(endpoints, Of(endpoints, EndpointId, i))
                        \cup Tenants(events, Of(events, EventId, i)) : i \in mine})
  /\ UNCHANGED tables

\* get_consumer_handler, list_endpoints_for_consumer, list_events_for_consumer:
\* by the id that was resolved.
list_for_consumer(c) ==
  /\ phase[c] = "consumer"
  /\ \E seen \in {Tenants(consumers, {held[c]}),
                  Tenants(endpoints, Of(endpoints, EndpointId, held[c])),
                  Tenants(events, Of(events, EventId, held[c]))} : Answer(c, seen)
  /\ UNCHANGED tables

-----------------------------------------------------------------------------

Call(c) ==
  \/ \E k \in Key : auth(c, k)
  \/ \E t \in Tenant : Cli(c, t)
  \/ \E u \in Uid : create_consumer(c, u) \/ resolve_consumer(c, u)
  \/ create_endpoint(c)
  \/ \E i \in EndpointId : get_endpoint(c, i) \/ \E b \in BOOLEAN : update_endpoint(c, i, b)
  \/ create_message(c)
  \/ \E i \in EventId : get_message(c, i)
  \/ deliveries_for_event(c)
  \/ \E d \in Delivery : get_delivery(c, d)
  \/ attempts_for_delivery(c)
  \/ reset_for_replay(c)
  \/ \E s \in Slug : create_inbound_source(c, s) \/ ingest(c, s)
  \/ accept(c)
  \/ Refuse(c)
  \/ list(c) \/ list_consumers(c) \/ list_for_consumer(c)

Next ==
  \/ \E c \in Conn : Call(c)
  \/ \E k \in Key, t \in Tenant : CreateApiKey(k, t)
  \/ \E d \in Delivery : Settle(d)

Spec == Init /\ [][Next]_vars

-----------------------------------------------------------------------------
(* Properties *)

\* "A message published to a consumer fans out ONLY to that consumer's endpoints,
\* so one merchant's events never reach another's": rows that refer to each
\* other agree on tenant and consumer, although only the code sees to it.
Coherent ==
  /\ \A i \in EndpointId : endpoints[i].consumer # Null =>
       endpoints[i].tenant = consumers[endpoints[i].consumer].tenant
  /\ \A i \in EventId : events[i].consumer # Null =>
       events[i].tenant = consumers[events[i].consumer].tenant
  /\ \A d \in Delivery : deliveries[d].tenant # Null =>
       /\ deliveries[d].tenant = events[d[1]].tenant
       /\ deliveries[d].tenant = endpoints[d[2]].tenant
       /\ events[d[1]].consumer = endpoints[d[2]].consumer

\* "Tenant isolation: never expose another tenant's event": an answer only has
\* rows of the tenant that the call acts for, those that its second statement
\* selects without looking at the tenant included.
ShowsOwn == \A c \in Conn : shown[c] \subseteq {who[c]}

\* A call that ends now and acts for t.
EndsFor(t) == \E c \in Conn : phase[c] # "idle" /\ phase'[c] = "idle" /\ who[c] = t

\* A call only writes rows of its own tenant and makes none for another, and no
\* call moves a row from one tenant to another.
WritesOwn ==
  [][/\ \A i \in EndpointId : endpoints'[i] # endpoints[i] =>
          EndsFor(endpoints'[i].tenant) /\ endpoints[i].tenant \in {Null, endpoints'[i].tenant}
     /\ \A d \in Delivery : deliveries'[d] # deliveries[d] /\ deliveries'[d].queued =>
          EndsFor(deliveries'[d].tenant) /\ deliveries[d].tenant \in {Null, deliveries'[d].tenant}
     /\ \A i \in EventId : events'[i] # events[i] =>
          EndsFor(events'[i].tenant) /\ events[i].tenant = Null
     /\ \A i \in ConsumerId : consumers'[i] # consumers[i] =>
          EndsFor(consumers'[i].tenant) /\ consumers[i].tenant = Null
     /\ \A i \in SourceId : sources'[i] # sources[i] =>
          EndsFor(sources'[i].tenant) /\ sources[i].tenant = Null]_vars

=============================================================================
