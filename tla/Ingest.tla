------------------------------- MODULE Ingest -------------------------------
(***************************************************************************)
(* How dropless accepts work: the outbox (outbox.rs), the inbox (inbox.rs) *)
(* and the handlers of api.rs around them.                                 *)
(*                                                                         *)
(* A request is a producer's message or a provider's webhook; its client   *)
(* sends it again until it is answered with a 2xx.  A handler serves one   *)
(* request with one transaction of READ COMMITTED statements.  Its writes  *)
(* show when it commits and vanish when it fails; the one thing that other *)
(* transactions feel before is the entry of an inbound row in the unique   *)
(* index inbound_events_dedup_idx, on which an equal insert waits.         *)
(***************************************************************************)
EXTENDS Naturals, Sequences, FiniteSets

CONSTANTS
  Handler,    \* concurrent requests in the server
  Request,    \* messages and webhooks of the clients
  About,      \* what each request says: see RequestInfo
  Owner,      \* consumers and inbound sources that can be registered
  NoOwner,    \* a request that names neither
  Scope,      \* pairs of tenant_id and consumer_id
  OwnerOf,    \* the consumer that a scope belongs to, or NoOwner
  Endpoint,   \* ids of endpoint rows
  Type,       \* event types
  Pattern,    \* subscription patterns
  Covers,     \* the event types that a pattern covers
  TypeLists,  \* the lists of patterns that operators use
  Null,       \* SQL NULL
  MaxFaults,  \* bound: failures and premature resends in one behaviour
  MaxOps      \* bound: operator calls in one behaviour

Provider == {"producer", "stripe", "github", "hmac"}

\* id is the provider's event id (Null if it sends none), body stands for the
\* hash of the body.
RequestInfo ==
  [provider : Provider, owner : Owner \cup {NoOwner}, scope : Scope, type : Type,
   id : Nat \cup {Null}, body : Nat]

ASSUME IngestAssumption ==
  /\ About \in [Request -> RequestInfo]
  /\ NoOwner \notin Owner
  /\ OwnerOf \in [Scope -> Owner \cup {NoOwner}]
  /\ Covers \in [Pattern -> SUBSET Type]
  /\ TypeLists \subseteq SUBSET Pattern
  /\ Null \notin Scope /\ Null \notin Nat /\ Null \notin TypeLists
  /\ MaxFaults \in Nat /\ MaxOps \in Nat

VARIABLES
  known,      \* consumers and sources registered so far
  endpoints,  \* endpoint rows; scope is Null until the row is inserted
  events,     \* committed events in commit order, with their deliveries
  pc,         \* where each handler stands
  serving,    \* the request it serves
  todo,       \* endpoints its transaction has still to insert a delivery for
  draft,      \* endpoints it has inserted a delivery for
  acked,      \* requests answered with a 2xx
  faults,     \* failures and premature resends so far
  ops,        \* operator calls so far
  must,       \* history: endpoints that wanted the request all the time
  may         \* history: endpoints that wanted it at some time

txVars == <<todo, draft>>
handlerVars == <<pc, serving, txVars>>
vars == <<known, endpoints, events, handlerVars, acked, faults, ops, must, may>>

Webhook(r) == About[r].provider # "producer"

\* The dedup key that `ingest' derives, per source.  A producer's message has
\* none: only inbound_events has the unique index.
dedup_key(r) ==
  LET a == About[r] IN
  <<a.owner, IF a.provider = "github" \/ a.id = Null THEN <<"body", a.body>>
                                                      ELSE <<"id", a.id>>>>

EndpointRow ==
  [scope : Scope \cup {Null}, disabled : BOOLEAN, types : TypeLists \cup {Null}]

EventRow ==
  [req : Request, to : SUBSET Endpoint, must : SUBSET Endpoint, may : SUBSET Endpoint]

\* "resolve": looking up the consumer or the source
\* "dedup", "event", "scope", "fan": before the insert of the inbound row, the
\* insert of the event, the snapshot of the endpoints, the next delivery
\* "reply": committed, the answer is not sent yet
PC == {"idle", "resolve", "dedup", "event", "scope", "fan", "reply"}

TypeOK ==
  /\ known \subseteq Owner
  /\ endpoints \in [Endpoint -> EndpointRow]
  /\ events \in Seq(EventRow)
  /\ pc \in [Handler -> PC]
  /\ serving \in [Handler -> Request]
  /\ todo \in [Handler -> SUBSET Endpoint]
  /\ draft \in [Handler -> SUBSET Endpoint]
  /\ acked \subseteq Request
  /\ faults \in Nat /\ ops \in Nat
  /\ must \in [Handler -> SUBSET Endpoint]
  /\ may \in [Handler -> SUBSET Endpoint]

Init ==
  /\ known = {}
  /\ endpoints = [e \in Endpoint |-> [scope |-> Null, disabled |-> FALSE, types |-> Null]]
  /\ events = << >>
  /\ pc = [h \in Handler |-> "idle"]
  /\ serving = [h \in Handler |-> CHOOSE r \in Request : TRUE]
  /\ todo = [h \in Handler |-> {}]
  /\ draft = [h \in Handler |-> {}]
  /\ acked = {}
  /\ faults = 0 /\ ops = 0
  /\ must = [h \in Handler |-> {}]
  /\ may = [h \in Handler |-> {}]

-----------------------------------------------------------------------------
(* Fan-out *)

\* Endpoint::subscribes_to: no list and the empty list mean every type.
subscribes_to(types, t) ==
  types = Null \/ types = {} \/ \E p \in types : t \in Covers[p]

active_endpoints_for_scope(s) ==
  {e \in Endpoint : endpoints[e].scope = s /\ ~endpoints[e].disabled}

targets(r) ==
  {e \in active_endpoints_for_scope(About[r].scope) :
     subscribes_to(endpoints[e].types, About[r].type)}

\* What the operator asked for, with the rows eps: the endpoints of the
\* request's own scope that are enabled and subscribed to its type.
Wanting(eps, r) ==
  {e \in Endpoint :
     LET row == eps[e] IN
     /\ row.scope = About[r].scope
     /\ row.disabled = FALSE
     /\ row.types \notin {Null, {}} => About[r].type \in UNION {Covers[p] : p \in row.types}}

-----------------------------------------------------------------------------
(* One request *)

Fault == faults < MaxFaults /\ faults' = faults + 1

\* The client sends a request; it may also lose patience and send it again
\* while it is served.
Receive(h, r) ==
  /\ pc[h] = "idle" /\ r \notin acked
  /\ \/ (\A g \in Handler : pc[g] # "idle" => serving[g] # r) /\ UNCHANGED faults
     \/ (\E g \in Handler : pc[g] # "idle" /\ serving[g] = r) /\ Fault
  /\ pc' = [pc EXCEPT ![h] = "resolve"]
  /\ serving' = [serving EXCEPT ![h] = r]
  /\ must' = [must EXCEPT ![h] = Wanting(endpoints, r)]
  /\ may' = [may EXCEPT ![h] = Wanting(endpoints, r)]
  /\ UNCHANGED <<known, endpoints, events, txVars, acked, ops>>

\* The handler is done; the client sees a 2xx or not.
Finish(h, ok) ==
  /\ pc' = [pc EXCEPT ![h] = "idle"]
  /\ acked' = IF ok THEN acked \cup {serving[h]} ELSE acked
  /\ todo' = [todo EXCEPT ![h] = {}]
  /\ draft' = [draft EXCEPT ![h] = {}]
  /\ must' = [must EXCEPT ![h] = {}]
  /\ may' = [may EXCEPT ![h] = {}]
  /\ UNCHANGED serving

\* resolve_consumer (404 without the consumer), get_inbound_source_by_slug (401
\* without the source); the transaction begins.
Resolve(h) ==
  LET r == serving[h] IN
  /\ pc[h] = "resolve"
  /\ \/ /\ About[r].owner \in known \cup {NoOwner}
        /\ pc' = [pc EXCEPT ![h] = IF Webhook(r) THEN "dedup" ELSE "event"]
        /\ UNCHANGED <<serving, txVars, acked, must, may>>
     \/ About[r].owner \notin known \cup {NoOwner} /\ Finish(h, FALSE)
  /\ UNCHANGED <<known, endpoints, events, faults, ops>>

Stored(k) ==
  \E i \in 1 .. Len(events) : Webhook(events[i].req) /\ dedup_key(events[i].req) = k

\* An open transaction has inserted an inbound row with the key.
Locked(k) ==
  \E g \in Handler :
    /\ pc[g] \in {"event", "scope", "fan"}
    /\ Webhook(serving[g]) /\ dedup_key(serving[g]) = k

\* Mutant: a SELECT before the insert, without the unique index.
insert_inbound_event_unlocked(h) ==
  /\ pc[h] = "dedup"
  /\ \/ Stored(dedup_key(serving[h])) /\ Finish(h, TRUE)
     \/ /\ ~Stored(dedup_key(serving[h]))
        /\ pc' = [pc EXCEPT ![h] = "event"]
        /\ UNCHANGED <<serving, txVars, acked, must, may>>
  /\ UNCHANGED <<known, endpoints, events, faults, ops>>

\* Mutant: an uncommitted row already counts as a duplicate.
insert_inbound_event_eager(h) ==
  LET taken == Stored(dedup_key(serving[h])) \/ Locked(dedup_key(serving[h])) IN
  /\ pc[h] = "dedup"
  /\ \/ taken /\ Finish(h, TRUE)
     \/ /\ ~taken
        /\ pc' = [pc EXCEPT ![h] = "event"]
        /\ UNCHANGED <<serving, txVars, acked, must, may>>
  /\ UNCHANGED <<known, endpoints, events, faults, ops>>

\* Mutant: a duplicate is answered with an error.
insert_inbound_event_conflict(h) ==
  /\ pc[h] = "dedup" /\ ~Locked(dedup_key(serving[h]))
  /\ \/ Stored(dedup_key(serving[h])) /\ Finish(h, FALSE)
     \/ /\ ~Stored(dedup_key(serving[h]))
        /\ pc' = [pc EXCEPT ![h] = "event"]
        /\ UNCHANGED <<serving, txVars, acked, must, may>>
  /\ UNCHANGED <<known, endpoints, events, faults, ops>>

\* INSERT ... ON CONFLICT DO NOTHING waits while an equal row is uncommitted.
insert_inbound_event(h) ==
  LET k == dedup_key(serving[h]) IN
  /\ pc[h] = "dedup" /\ ~Locked(k)
  /\ \/ Stored(k) /\ Finish(h, TRUE)
     \/ /\ ~Stored(k)
        /\ pc' = [pc EXCEPT ![h] = "event"]
        /\ UNCHANGED <<serving, txVars, acked, must, may>>
  /\ UNCHANGED <<known, endpoints, events, faults, ops>>

insert_event(h) ==
  /\ pc[h] = "event"
  /\ pc' = [pc EXCEPT ![h] = "scope"]
  /\ UNCHANGED <<known, endpoints, events, serving, txVars, acked, faults, ops, must, may>>

\* The SELECT sees what is committed now, not what was when the request came.
Snapshot(h) ==
  /\ pc[h] = "scope"
  /\ todo' = [todo EXCEPT ![h] = targets(serving[h])]
  /\ pc' = [pc EXCEPT ![h] = "fan"]
  /\ UNCHANGED <<known, endpoints, events, serving, draft, acked, faults, ops, must, may>>

insert_delivery(h, e) ==
  /\ pc[h] = "fan" /\ e \in todo[h]
  /\ todo' = [todo EXCEPT ![h] = @ \ {e}]
  /\ draft' = [draft EXCEPT ![h] = @ \cup {e}]
  /\ UNCHANGED <<known, endpoints, events, pc, serving, acked, faults, ops, must, may>>

\* Mutant: commits before the last delivery is inserted.
Commit_partial(h) ==
  /\ pc[h] = "fan"
  /\ events' = Append(events, [req |-> serving[h], to |-> draft[h],
                               must |-> must[h], may |-> may[h]])
  /\ pc' = [pc EXCEPT ![h] = "reply"]
  /\ UNCHANGED <<known, endpoints, serving, txVars, acked, faults, ops, must, may>>

\* link_inbound_event and COMMIT.
Commit(h) ==
  /\ pc[h] = "fan" /\ todo[h] = {}
  /\ events' = Append(events, [req |-> serving[h], to |-> draft[h],
                               must |-> must[h], may |-> may[h]])
  /\ pc' = [pc EXCEPT ![h] = "reply"]
  /\ UNCHANGED <<known, endpoints, serving, txVars, acked, faults, ops, must, may>>

\* Mutant: waking the workers is part of the answer, and fails.
Reply_pings(h) ==
  /\ pc[h] = "reply"
  /\ Finish(h, FALSE)
  /\ UNCHANGED <<known, endpoints, events, faults, ops>>

\* 201 Created or 202 Accepted; the ping that wakes the workers is not awaited.
Reply(h) ==
  /\ pc[h] = "reply"
  /\ Finish(h, TRUE)
  /\ UNCHANGED <<known, endpoints, events, faults, ops>>

\* Mutant: the handler answers 202 before it knows how the transaction ends.
Fail_accepted(h) ==
  /\ pc[h] # "idle" /\ Fault
  /\ Finish(h, TRUE)
  /\ UNCHANGED <<known, endpoints, events, ops>>

\* The handler answers 4xx (rate limit, signature) or 5xx, the connection breaks
\* or the process dies; an open transaction rolls back, a committed one stays.
Fail(h) ==
  /\ pc[h] # "idle" /\ Fault
  /\ Finish(h, FALSE)
  /\ UNCHANGED <<known, endpoints, events, ops>>

-----------------------------------------------------------------------------
(* Operators *)

OperatorCall == ops < MaxOps /\ ops' = ops + 1

\* create_consumer (get or create), create_inbound_source.
Register(o) ==
  /\ OperatorCall /\ o \notin known
  /\ known' = known \cup {o}
  /\ UNCHANGED <<endpoints, events, handlerVars, acked, faults, must, may>>

\* The history of the requests in flight when the endpoint rows become eps.
Witness(eps) ==
  LET busy == {h \in Handler : pc[h] # "idle"} IN
  /\ must' = [h \in Handler |-> IF h \in busy THEN must[h] \cap Wanting(eps, serving[h]) ELSE {}]
  /\ may' = [h \in Handler |-> IF h \in busy THEN may[h] \cup Wanting(eps, serving[h]) ELSE {}]

create_endpoint(e, s, types) ==
  /\ OperatorCall
  /\ endpoints[e].scope = Null
  /\ OwnerOf[s] \in known \cup {NoOwner}
  /\ endpoints' = [endpoints EXCEPT ![e] = [scope |-> s, disabled |-> FALSE, types |-> types]]
  /\ Witness(endpoints')
  /\ UNCHANGED <<known, events, handlerVars, acked, faults>>

\* Mutant: the PATCH overwrites what it leaves out.
coalesce_overwrite(new, old) == new

\* COALESCE: a field that the PATCH leaves out keeps its value.
coalesce(new, old) == IF new = Null THEN old ELSE new

update_endpoint(e, disabled, types) ==
  /\ OperatorCall
  /\ endpoints[e].scope # Null
  /\ endpoints' = [endpoints EXCEPT ![e] =
                     [scope |-> @.scope, disabled |-> coalesce(disabled, @.disabled),
                      types |-> coalesce(types, @.types)]]
  /\ Witness(endpoints')
  /\ UNCHANGED <<known, events, handlerVars, acked, faults>>

HandlerStep(h) ==
  \/ Resolve(h)
  \/ insert_inbound_event(h)
  \/ insert_event(h)
  \/ Snapshot(h)
  \/ \E e \in Endpoint : insert_delivery(h, e)
  \/ Commit(h)
  \/ Reply(h)

Next ==
  \/ \E h \in Handler : HandlerStep(h) \/ Fail(h)
  \/ \E h \in Handler, r \in Request : Receive(h, r)
  \/ \E o \in Owner : Register(o)
  \/ \E e \in Endpoint, s \in Scope, types \in TypeLists \cup {Null} :
       create_endpoint(e, s, types)
  \/ \E e \in Endpoint, disabled \in BOOLEAN \cup {Null}, types \in TypeLists \cup {Null} :
       update_endpoint(e, disabled, types)

Spec == Init /\ [][Next]_vars

\* The server runs its handlers.  Clients do not give up, and the server has a
\* task for every request (Handler is a bound of the model), so one that keeps
\* sending is served again and again.
Fairness ==
  /\ \A h \in Handler : WF_vars(HandlerStep(h))
  /\ \A r \in Request : SF_vars(\E h \in Handler : Receive(h, r))

FairSpec == Spec /\ Fairness

-----------------------------------------------------------------------------
(* Properties *)

\* Fan-out is complete and never strays, whatever operators change while the
\* transaction runs: an event reaches every endpoint that wanted it all along,
\* and none that at no time did (another scope's, a disabled one, one that is
\* not subscribed).
FanOutExact ==
  \A i \in 1 .. Len(events) :
    events[i].must \subseteq events[i].to /\ events[i].to \subseteq events[i].may

\* A 2xx is only sent for what is committed: the request's own event, or for a
\* `duplicate' the event of an equal webhook.
AckedIsStored ==
  \A r \in acked :
    \/ \E i \in 1 .. Len(events) : events[i].req = r
    \/ Webhook(r) /\ Stored(dedup_key(r))

\* A webhook is bridged at most once, however often and however concurrently
\* its provider sends it.
BridgedOnce ==
  \A i, j \in 1 .. Len(events) :
    LET r == events[i].req
        q == events[j].req
    IN Webhook(r) /\ Webhook(q) /\ dedup_key(r) = dedup_key(q) => i = j

\* Nothing is accepted twice for nothing: beyond one event for each request there
\* are no more than there were failures and premature resends, because a handler
\* that has committed cannot but answer with a 2xx, unless it fails.
ExtraIsFault == Len(events) <= Cardinality(Request) + faults

\* A request for a registered owner is accepted in the end: failures roll back,
\* so no lock or half-done transaction keeps the client from succeeding later.
EventuallyAcked ==
  \A r \in Request : About[r].owner \in known \cup {NoOwner} ~> r \in acked

=============================================================================
