--------------------------- MODULE PipelineProofs ---------------------------
(***************************************************************************)
(* The inductive invariant of Ingest and its safety theorems: types, the   *)
(* unique index that bridges a webhook at most once, answers and fan-out,  *)
(* and how often a request can be committed, for any number of handlers,   *)
(* requests, owners and endpoints.  Then the same for Pipeline, where      *)
(* workers send what the handlers commit: an event and its deliveries      *)
(* appear together, whatever workers, crashes and replays do to the rows.  *)
(***************************************************************************)
EXTENDS Pipeline, FiniteSetTheorems, TLAPS

USE ZenonT(5), SMTT(20), ZenonT(30), SMTT(60), IngestAssumption

\* A transaction has inserted its first row and is still open.
Open(h) == pc[h] \in {"event", "scope", "fan"}

Committed(r) == \E i \in 1 .. Len(events) : events[i].req = r

\* The unique index: the key of an open transaction is neither stored nor held
\* by another one.
Exclusive ==
  \A h \in Handler : Open(h) /\ Webhook(serving[h]) =>
    /\ ~Stored(dedup_key(serving[h]))
    /\ \A g \in Handler : g # h /\ Open(g) /\ Webhook(serving[g]) =>
         dedup_key(serving[g]) # dedup_key(serving[h])

\* Why a handler may answer with a 2xx.
ReplyCommitted ==
  \A h \in Handler :
    /\ pc[h] = "reply" => Committed(serving[h])
    /\ pc[h] = "dedup" => Webhook(serving[h])

\* The history sets enclose what the endpoint rows say now.
Enclosed ==
  \A h \in Handler : pc[h] # "idle" =>
    /\ must[h] \subseteq Wanting(endpoints, serving[h])
    /\ Wanting(endpoints, serving[h]) \subseteq may[h]

\* What a transaction has inserted and has yet to insert.
Drafts ==
  \A h \in Handler :
    /\ pc[h] = "fan" => /\ must[h] \subseteq draft[h] \cup todo[h]
                        /\ draft[h] \cup todo[h] \subseteq may[h]
    /\ pc[h] \notin {"fan", "reply"} => draft[h] = {}

IngestInv ==
  /\ Exclusive /\ BridgedOnce
  /\ ReplyCommitted /\ AckedIsStored
  /\ Enclosed /\ Drafts /\ FanOutExact

-----------------------------------------------------------------------------
(* Type correctness *)

LEMMA InitType == ASSUME Request # {} PROVE Init => TypeOK
<1> SUFFICES ASSUME Init PROVE TypeOK
  OBVIOUS
<1>1. (CHOOSE r \in Request : TRUE) \in Request
  OBVIOUS
<1> QED
  BY <1>1 DEF Init, TypeOK, PC, EndpointRow

LEMMA FinishType ==
  ASSUME TypeOK, NEW h \in Handler, NEW ok \in BOOLEAN, Finish(h, ok)
  PROVE  /\ pc' \in [Handler -> PC] /\ serving' \in [Handler -> Request]
         /\ todo' \in [Handler -> SUBSET Endpoint]
         /\ draft' \in [Handler -> SUBSET Endpoint]
         /\ acked' \subseteq Request
         /\ must' \in [Handler -> SUBSET Endpoint]
         /\ may' \in [Handler -> SUBSET Endpoint]
<1>1. pc' \in [Handler -> PC] /\ serving' \in [Handler -> Request] /\ acked' \subseteq Request
  BY DEF Finish, TypeOK, PC
<1>2. todo' \in [Handler -> SUBSET Endpoint] /\ draft' \in [Handler -> SUBSET Endpoint]
  BY DEF Finish, TypeOK
<1>3. must' \in [Handler -> SUBSET Endpoint] /\ may' \in [Handler -> SUBSET Endpoint]
  BY DEF Finish, TypeOK
<1> QED
  BY <1>1, <1>2, <1>3

LEMMA WantingType == \A eps, r : Wanting(eps, r) \subseteq Endpoint
BY DEF Wanting

LEMMA HandlerType ==
  ASSUME TypeOK, NEW h \in Handler, HandlerStep(h) \/ Fail(h)
  PROVE  TypeOK'
<1>1. CASE Resolve(h)
  BY Zenon, <1>1, FinishType DEF Resolve, TypeOK, PC, txVars
<1>2. CASE insert_inbound_event(h)
  BY Zenon, <1>2, FinishType DEF insert_inbound_event, TypeOK, PC, txVars
<1>3. CASE insert_event(h)
  BY <1>3 DEF insert_event, TypeOK, PC, txVars
<1>4. CASE Snapshot(h)
  <2>1. targets(serving[h]) \subseteq Endpoint
    BY DEF targets, active_endpoints_for_scope
  <2> QED
    BY <1>4, <2>1 DEF Snapshot, TypeOK, PC
<1>5. CASE \E e \in Endpoint : insert_delivery(h, e)
  BY <1>5 DEF insert_delivery, TypeOK
<1>6. CASE Commit(h)
  <2>1. [req |-> serving[h], to |-> draft[h], must |-> must[h], may |-> may[h]] \in EventRow
    BY DEF TypeOK, EventRow
  <2>2. events' \in Seq(EventRow)
    BY <1>6, <2>1 DEF Commit, TypeOK
  <2> QED
    BY <1>6, <2>2 DEF Commit, TypeOK, PC, txVars
<1>7. CASE Reply(h)
  <2>1. Finish(h, TRUE) /\ UNCHANGED <<known, endpoints, events, faults, ops>>
    BY Zenon, <1>7 DEF Reply
  <2>2. TRUE \in BOOLEAN
    OBVIOUS
  <2> QED
    BY Zenon, <2>1, <2>2, FinishType DEF TypeOK
<1>8. CASE Fail(h)
  <2>1. /\ Finish(h, FALSE) /\ faults' = faults + 1
        /\ UNCHANGED <<known, endpoints, events, ops>>
    BY Zenon, <1>8 DEF Fail, Fault
  <2>2. FALSE \in BOOLEAN
    OBVIOUS
  <2> QED
    <3>1. faults' \in Nat
      BY <2>1 DEF TypeOK
    <3> QED
      BY Zenon, <2>1, <2>2, <3>1, FinishType DEF TypeOK
<1> QED
  BY <1>1, <1>2, <1>3, <1>4, <1>5, <1>6, <1>7, <1>8 DEF HandlerStep

LEMMA OperatorType ==
  ASSUME TypeOK,
         \/ \E o \in Owner : Register(o)
         \/ \E e \in Endpoint, s \in Scope, types \in TypeLists \cup {Null} :
              create_endpoint(e, s, types)
         \/ \E e \in Endpoint, disabled \in BOOLEAN \cup {Null},
              types \in TypeLists \cup {Null} : update_endpoint(e, disabled, types)
  PROVE  TypeOK'
<1>1. CASE \E o \in Owner : Register(o)
  BY <1>1 DEF Register, OperatorCall, TypeOK, handlerVars, txVars
<1>2. ASSUME Witness(endpoints')
      PROVE  must' \in [Handler -> SUBSET Endpoint] /\ may' \in [Handler -> SUBSET Endpoint]
  BY <1>2, WantingType DEF Witness, TypeOK
<1>3. CASE \E e \in Endpoint, s \in Scope, types \in TypeLists \cup {Null} :
             create_endpoint(e, s, types)
  <2>1. PICK e \in Endpoint, s \in Scope, types \in TypeLists \cup {Null} :
          create_endpoint(e, s, types)
    BY <1>3
  <2>2. endpoints' \in [Endpoint -> EndpointRow]
    BY <2>1 DEF create_endpoint, TypeOK, EndpointRow
  <2> QED
    BY <1>2, <2>1, <2>2 DEF create_endpoint, OperatorCall, TypeOK, handlerVars, txVars
<1>4. CASE \E e \in Endpoint, disabled \in BOOLEAN \cup {Null},
             types \in TypeLists \cup {Null} : update_endpoint(e, disabled, types)
  <2>1. PICK e \in Endpoint, disabled \in BOOLEAN \cup {Null},
             types \in TypeLists \cup {Null} : update_endpoint(e, disabled, types)
    BY <1>4
  <2>2. endpoints[e] \in EndpointRow
    BY DEF TypeOK
  <2>3. coalesce(disabled, endpoints[e].disabled) \in BOOLEAN
    <3>1. endpoints[e].disabled \in BOOLEAN
      BY <2>2 DEF EndpointRow
    <3> QED
      BY <3>1, Zenon DEF coalesce
  <2>4. coalesce(types, endpoints[e].types) \in TypeLists \cup {Null}
    BY <2>2 DEF EndpointRow, coalesce
  <2>5. [scope |-> endpoints[e].scope, disabled |-> coalesce(disabled, endpoints[e].disabled),
         types |-> coalesce(types, endpoints[e].types)] \in EndpointRow
    BY <2>2, <2>3, <2>4 DEF EndpointRow
  <2>6. endpoints' \in [Endpoint -> EndpointRow]
    BY <2>1, <2>5 DEF update_endpoint, TypeOK
  <2> QED
    BY <1>2, <2>1, <2>6 DEF update_endpoint, OperatorCall, TypeOK, handlerVars, txVars
<1> QED
  BY <1>1, <1>3, <1>4

LEMMA ReceiveType ==
  ASSUME TypeOK, NEW h \in Handler, NEW r \in Request, Receive(h, r)
  PROVE  TypeOK'
BY WantingType DEF Receive, Fault, TypeOK, PC, txVars

LEMMA NextType == TypeOK /\ [Next]_vars => TypeOK'
<1> SUFFICES ASSUME TypeOK, [Next]_vars PROVE TypeOK'
  OBVIOUS
<1>1. CASE UNCHANGED vars
  BY <1>1 DEF vars, handlerVars, txVars, TypeOK
<1>2. CASE \E h \in Handler : HandlerStep(h) \/ Fail(h)
  BY <1>2, HandlerType
<1>3. CASE \E h \in Handler, r \in Request : Receive(h, r)
  BY <1>3, ReceiveType
<1> QED
  BY <1>1, <1>2, <1>3, OperatorType DEF Next

\* The tables and the handlers keep their types, whatever the clients and the
\* operators do.
THEOREM IngestTyped == ASSUME Request # {} PROVE Spec => []TypeOK
<1>1. Init => TypeOK
  BY InitType
<1> QED
  BY <1>1, NextType, PTL DEF Spec

-----------------------------------------------------------------------------
(* The unique index *)

\* A row that is stored stays stored, and only a commit adds one.
LEMMA EventsStep ==
  ASSUME TypeOK, TypeOK', [Next]_vars
  PROVE  \/ events' = events
         \/ \E h \in Handler : Commit(h)
<1>1. CASE \E h \in Handler : HandlerStep(h) \/ Fail(h)
  BY Zenon, <1>1 DEF HandlerStep, Resolve, insert_inbound_event, insert_event, Snapshot,
              insert_delivery, Reply, Fail
<1>2. CASE \E h \in Handler, r \in Request : Receive(h, r)
  BY <1>2 DEF Receive
<1>3. CASE UNCHANGED vars
  BY <1>3 DEF vars
<1> QED
  BY <1>1, <1>2, <1>3 DEF Next, Register, create_endpoint, update_endpoint

LEMMA Appended ==
  ASSUME TypeOK, NEW h \in Handler, Commit(h)
  PROVE  /\ Len(events') = Len(events) + 1
         /\ \A i \in 1 .. Len(events) : events'[i] = events[i]
         /\ events'[Len(events) + 1] = [req |-> serving[h], to |-> draft[h],
                                        must |-> must[h], may |-> may[h]]
         /\ Len(events) \in Nat
<1>1. events \in Seq(EventRow)
  BY DEF TypeOK
<1> QED
  BY <1>1 DEF Commit

LEMMA StoredStep ==
  ASSUME TypeOK, TypeOK', [Next]_vars, NEW k
  PROVE  /\ Stored(k) => Stored(k)'
         /\ \A r : Committed(r) => Committed(r)'
         /\ ~Stored(k) /\ Stored(k)' =>
              \E h \in Handler : Commit(h) /\ Webhook(serving[h]) /\ dedup_key(serving[h]) = k
<1>1. CASE events' = events
  BY <1>1 DEF Stored, Committed
<1>2. CASE \E h \in Handler : Commit(h)
  <2>1. PICK h \in Handler : Commit(h)
    BY <1>2
  <2> DEFINE n == Len(events)
  <2>2. /\ Len(events') = n + 1 /\ n \in Nat
        /\ \A i \in 1 .. n : events'[i] = events[i]
        /\ events'[n + 1].req = serving[h]
    <3> HIDE DEF n
    <3>1. events'[n + 1] = [req |-> serving[h], to |-> draft[h], must |-> must[h], may |-> may[h]]
      BY <2>1, Appended DEF n
    <3>2. events'[n + 1].req = serving[h]
      BY <3>1
    <3> QED
      BY Zenon, <2>1, <3>2, Appended DEF n
  <2> HIDE DEF n
  <2>3. Stored(k) => Stored(k)'
    BY <2>2 DEF Stored, n
  <2>4. \A r : Committed(r) => Committed(r)'
    BY <2>2 DEF Committed, n
  <2>5. ASSUME ~Stored(k), Stored(k)'
        PROVE  Webhook(serving[h]) /\ dedup_key(serving[h]) = k
    <3>1. PICK i \in 1 .. (n + 1) : Webhook(events'[i].req) /\ dedup_key(events'[i].req) = k
      BY <2>2, <2>5 DEF Stored, n
    <3>2. i \notin 1 .. n
      BY <2>2, <2>5, <3>1 DEF Stored, n
    <3>3. i = n + 1
      BY <2>2, <3>1, <3>2
    <3> QED
      BY <2>2, <3>1, <3>3
  <2> QED
    BY <2>1, <2>3, <2>4, <2>5
<1> QED
  BY <1>1, <1>2, EventsStep

\* An open transaction stays with its request, and opens through the insert of
\* its first row.
LEMMA OpenStep ==
  ASSUME TypeOK, TypeOK', [Next]_vars, NEW h \in Handler, Open(h)', Webhook(serving[h])'
  PROVE  /\ serving'[h] = serving[h]
         /\ ~Commit(h)
         /\ \/ Open(h)
            \/ /\ insert_inbound_event(h)
               /\ ~Stored(dedup_key(serving[h])) /\ ~Locked(dedup_key(serving[h]))
               /\ events' = events
               /\ \A g \in Handler \ {h} : pc'[g] = pc[g] /\ serving'[g] = serving[g]
<1>1. CASE \E g \in Handler : HandlerStep(g) \/ Fail(g)
  <2>1. PICK g \in Handler : HandlerStep(g) \/ Fail(g)
    BY <1>1
  <2>2. CASE g # h
    BY Zenon, <2>1, <2>2 DEF HandlerStep, Resolve, insert_inbound_event, insert_event, Snapshot,
                      insert_delivery, Commit, Reply, Fail, Finish, Open, TypeOK
  <2>3. CASE g = h
    <3>1. CASE insert_inbound_event(h)
      BY <3>1 DEF insert_inbound_event, Finish, Open, TypeOK, Commit
    <3>2. CASE Resolve(h)
      BY <3>2 DEF Resolve, Finish, Open, Webhook, TypeOK, Commit
    <3>3. CASE insert_event(h) \/ Snapshot(h) \/ \E e \in Endpoint : insert_delivery(h, e)
      BY <3>3 DEF insert_event, Snapshot, insert_delivery, Open, TypeOK, Commit
    <3>4. CASE Commit(h) \/ Reply(h) \/ Fail(h)
      BY <3>4 DEF Commit, Reply, Fail, Finish, Open, TypeOK
    <3> QED
      BY <2>1, <2>3, <3>1, <3>2, <3>3, <3>4 DEF HandlerStep
  <2> QED
    BY Zenon, <2>2, <2>3
<1>2. CASE \E g \in Handler, r \in Request : Receive(g, r)
  <2>1. PICK g \in Handler, r \in Request : Receive(g, r)
    BY <1>2
  <2>2. /\ pc' = [pc EXCEPT ![g] = "resolve"]
        /\ serving' = [serving EXCEPT ![g] = r]
    BY <2>1 DEF Receive
  <2>3. /\ pc \in [Handler -> PC] /\ serving \in [Handler -> Request]
        /\ pc'[h] \in {"event", "scope", "fan"}
    BY DEF TypeOK, Open
  <2>4. pc'[h] = pc[h] /\ serving'[h] = serving[h]
    BY <2>2, <2>3
  <2>5. ~Commit(h)
    BY <2>3 DEF Commit
  <2> QED
    BY <2>3, <2>4, <2>5 DEF Open
<1>3. CASE UNCHANGED vars
  BY <1>3 DEF vars, handlerVars, Open, Commit, TypeOK
<1> QED
  BY <1>1, <1>2, <1>3 DEF Next, Register, create_endpoint, update_endpoint, handlerVars,
                          Open, Commit, TypeOK

LEMMA ExclusiveStep ==
  ASSUME TypeOK, TypeOK', [Next]_vars, Exclusive
  PROVE  Exclusive'
<1> SUFFICES ASSUME NEW h \in Handler, Open(h)', Webhook(serving[h])'
             PROVE  /\ ~Stored(dedup_key(serving[h]))'
                    /\ \A g \in Handler : g # h /\ Open(g)' /\ Webhook(serving[g])' =>
                         dedup_key(serving[g])' # dedup_key(serving[h])'
  BY DEF Exclusive
<1> PICK k : k = dedup_key(serving[h])
  OBVIOUS
<1>1. serving'[h] = serving[h] /\ ~Commit(h) /\ dedup_key(serving[h])' = k /\ Webhook(serving[h])
  BY OpenStep DEF dedup_key, Webhook
<1>2. ASSUME NEW g \in Handler, Open(g)', Webhook(serving[g])'
      PROVE  serving'[g] = serving[g] /\ Webhook(serving[g])
             /\ dedup_key(serving[g])' = dedup_key(serving[g])
  BY Zenon, <1>2, OpenStep DEF dedup_key, Webhook
<1>3. ~Stored(k)
  BY <1>1, OpenStep DEF Exclusive
<1>4. ASSUME Stored(k)' PROVE FALSE
  <2>1. PICK g \in Handler : Commit(g) /\ Webhook(serving[g]) /\ dedup_key(serving[g]) = k
    BY <1>3, <1>4, StoredStep
  <2>2. g # h /\ Open(g) /\ events' # events
    <3>1. Len(events') = Len(events) + 1 /\ Len(events) \in Nat
      BY Zenon, <2>1, Appended
    <3> QED
      <4>1. events' # events
        BY <3>1
      <4> QED
        BY Zenon, <1>1, <2>1, <4>1 DEF Commit, Open
  <2>3. Open(h)
    BY <2>2, OpenStep
  <2> QED
    BY <1>1, <2>1, <2>2, <2>3 DEF Exclusive
<1>5. ASSUME NEW g \in Handler, g # h, Open(g)', Webhook(serving[g])'
      PROVE  dedup_key(serving[g])' # dedup_key(serving[h])'
  <2>1. CASE Open(h) /\ Open(g)
    BY <1>1, <1>2, <1>5, <2>1 DEF Exclusive
  <2>2. CASE ~Open(h)
    <3>1. ~Locked(k) /\ Open(g)
      BY <1>5, <2>2, OpenStep DEF Open
    <3> QED
      BY <1>1, <1>2, <1>5, <3>1 DEF Locked, Open
  <2>3. CASE ~Open(g)
    <3>1. ~Locked(dedup_key(serving[g])) /\ Open(h)
      BY <1>5, <2>3, OpenStep DEF Open
    <3> QED
      BY <1>1, <1>2, <1>5, <3>1 DEF Locked, Open
  <2> QED
    BY <2>1, <2>2, <2>3
<1>6. ~Stored(dedup_key(serving[h]))'
  BY <1>1, <1>4 DEF Stored
<1> QED
  BY <1>5, <1>6

LEMMA BridgedStep ==
  ASSUME TypeOK, TypeOK', [Next]_vars, Exclusive, BridgedOnce
  PROVE  BridgedOnce'
<1>1. CASE events' = events
  BY <1>1 DEF BridgedOnce
<1>2. CASE \E h \in Handler : Commit(h)
  <2>1. PICK h \in Handler : Commit(h)
    BY <1>2
  <2> DEFINE n == Len(events)
  <2>2. events'[n + 1].req = serving[h]
    <3> HIDE DEF n
    <3>1. events'[n + 1] = [req |-> serving[h], to |-> draft[h], must |-> must[h], may |-> may[h]]
      BY <2>1, Appended DEF n
    <3> QED
      BY <3>1
  <2>3. Len(events') = n + 1 /\ n \in Nat /\ \A i \in 1 .. n : events'[i] = events[i]
    BY Zenon, <2>1, Appended
  <2>4. Webhook(serving[h]) => ~Stored(dedup_key(serving[h]))
    BY <2>1 DEF Exclusive, Open, Commit
  <2>5. ASSUME NEW i \in 1 .. n, Webhook(events[i].req), Webhook(serving[h])
        PROVE  dedup_key(events[i].req) # dedup_key(serving[h])
    BY <2>4, <2>5 DEF Stored
  <2> SUFFICES ASSUME NEW i \in 1 .. (n + 1), NEW j \in 1 .. (n + 1),
                      Webhook(events'[i].req), Webhook(events'[j].req),
                      dedup_key(events'[i].req) = dedup_key(events'[j].req)
               PROVE  i = j
    BY <2>3 DEF BridgedOnce
  <2> HIDE DEF n
  <2>6. CASE i \in 1 .. n /\ j \in 1 .. n
    BY <2>3, <2>6 DEF BridgedOnce, n
  <2>7. CASE i \in 1 .. n /\ j = n + 1
    BY <2>2, <2>3, <2>5, <2>7
  <2>8. CASE i = n + 1 /\ j \in 1 .. n
    BY <2>2, <2>3, <2>5, <2>8
  <2> QED
    BY <2>3, <2>6, <2>7, <2>8
<1> QED
  BY <1>1, <1>2, EventsStep

-----------------------------------------------------------------------------
(* Answers *)

LEMMA ReplyStep ==
  ASSUME TypeOK, TypeOK', [Next]_vars, ReplyCommitted
  PROVE  ReplyCommitted'
<1>0. ASSUME NEW h \in Handler, pc'[h] = "dedup" PROVE Webhook(serving[h])'
  <2>1. CASE \E g \in Handler : HandlerStep(g) \/ Fail(g)
    BY <1>0, <2>1 DEF HandlerStep, Resolve, insert_inbound_event, insert_event, Snapshot,
                      insert_delivery, Commit, Reply, Fail, Finish, TypeOK, ReplyCommitted, Webhook
  <2>2. CASE \E g \in Handler, r \in Request : Receive(g, r)
    BY <1>0, <2>2 DEF Receive, TypeOK, ReplyCommitted, Webhook
  <2> QED
    BY <1>0, <2>1, <2>2 DEF Next, vars, Register, create_endpoint, update_endpoint, handlerVars,
                            ReplyCommitted, Webhook
<1> SUFFICES ASSUME NEW h \in Handler, pc'[h] = "reply" PROVE Committed(serving[h])'
  BY <1>0 DEF ReplyCommitted
<1>1. serving'[h] = serving[h] /\ (pc[h] = "reply" \/ Commit(h))
  <2>1. CASE \E g \in Handler : HandlerStep(g) \/ Fail(g)
    BY <2>1 DEF HandlerStep, Resolve, insert_inbound_event, insert_event, Snapshot,
                insert_delivery, Commit, Reply, Fail, Finish, TypeOK
  <2>2. CASE \E g \in Handler, r \in Request : Receive(g, r)
    BY <2>2 DEF Receive, TypeOK
  <2> QED
    BY <2>1, <2>2 DEF Next, vars, Register, create_endpoint, update_endpoint, handlerVars
<1>2. CASE pc[h] = "reply"
  <2>1. Committed(serving[h])
    BY <1>2 DEF ReplyCommitted
  <2> QED
    BY Zenon, <1>1, <2>1, StoredStep DEF Committed
<1>3. CASE Commit(h)
  <2> DEFINE n == Len(events)
  <2> HIDE DEF n
  <2>1. events'[n + 1] = [req |-> serving[h], to |-> draft[h], must |-> must[h], may |-> may[h]]
    BY <1>3, Appended DEF n
  <2>2. events'[n + 1].req = serving[h]
    BY <2>1
  <2>3. n + 1 \in 1 .. Len(events')
    <3>1. Len(events') = n + 1 /\ n \in Nat
      BY Zenon, <1>3, Appended DEF n
    <3> QED
      BY <3>1
  <2> QED
    BY <1>1, <2>2, <2>3 DEF Committed
<1> QED
  BY <1>1, <1>2, <1>3

LEMMA AckedStep ==
  ASSUME TypeOK, TypeOK', [Next]_vars, ReplyCommitted, AckedIsStored
  PROVE  AckedIsStored'
<1> SUFFICES ASSUME NEW r \in acked'
             PROVE  Committed(r)' \/ (Webhook(r) /\ Stored(dedup_key(r))')
  BY DEF AckedIsStored, Committed, Stored
<1>1. Committed(r) \/ (Webhook(r) /\ Stored(dedup_key(r)))
  <2>1. CASE r \in acked
    BY <2>1 DEF AckedIsStored, Committed
  <2>2. CASE r \notin acked
    <3>1. PICK h \in Handler : HandlerStep(h) \/ Fail(h)
      BY <2>2 DEF Next, vars, Receive, Register, create_endpoint, update_endpoint
    <3>2. r = serving[h] /\ \/ pc[h] = "reply"
                            \/ pc[h] = "dedup" /\ Stored(dedup_key(r))
      BY <2>2, <3>1 DEF HandlerStep, Resolve, insert_inbound_event, insert_event, Snapshot,
                        insert_delivery, Commit, Reply, Fail, Finish
    <3>3. pc[h] = "dedup" => Webhook(r)
      BY <3>2 DEF ReplyCommitted
    <3> QED
      BY <3>2, <3>3 DEF ReplyCommitted
  <2> QED
    BY <2>1, <2>2
<1> QED
  BY <1>1, StoredStep

-----------------------------------------------------------------------------
(* Fan-out *)

\* The query and the filter select exactly the endpoints that want the request.
LEMMA TargetsWanting ==
  ASSUME TypeOK, NEW r \in Request
  PROVE  targets(r) = Wanting(endpoints, r)
<1>1. ASSUME NEW e \in Endpoint
      PROVE  e \in targets(r) <=> e \in Wanting(endpoints, r)
  <2> DEFINE ep_row == endpoints[e]
             t == About[r].type
  <2>1. ep_row.disabled \in BOOLEAN
    BY DEF TypeOK, EndpointRow
  <2>2. subscribes_to(ep_row.types, t) <=>
          (ep_row.types \notin {Null, {}} => t \in UNION {Covers[p] : p \in ep_row.types})
    BY DEF subscribes_to
  <2>3. e \in targets(r) <=>
          ep_row.scope = About[r].scope /\ ~ep_row.disabled /\ subscribes_to(ep_row.types, t)
    BY DEF targets, active_endpoints_for_scope
  <2>4. e \in Wanting(endpoints, r) <=>
          /\ ep_row.scope = About[r].scope /\ ep_row.disabled = FALSE
          /\ ep_row.types \notin {Null, {}} => t \in UNION {Covers[p] : p \in ep_row.types}
    BY DEF Wanting
  <2>5. ~ep_row.disabled <=> ep_row.disabled = FALSE
    BY <2>1
  <2> QED
    BY <2>2, <2>3, <2>4, <2>5, Zenon
<1>2. targets(r) \subseteq Endpoint /\ Wanting(endpoints, r) \subseteq Endpoint
  BY DEF targets, active_endpoints_for_scope, Wanting
<1> QED
  BY Zenon, <1>1, <1>2

LEMMA EnclosedStep ==
  ASSUME TypeOK, TypeOK', [Next]_vars, Enclosed
  PROVE  Enclosed'
<1> SUFFICES ASSUME NEW h \in Handler, pc'[h] # "idle"
             PROVE  /\ must'[h] \subseteq Wanting(endpoints', serving'[h])
                    /\ Wanting(endpoints', serving'[h]) \subseteq may'[h]
  BY DEF Enclosed
<1>1. CASE \E g \in Handler : HandlerStep(g) \/ Fail(g)
  <2>1. /\ pc[h] # "idle" /\ serving'[h] = serving[h] /\ endpoints' = endpoints
        /\ must'[h] = must[h] /\ may'[h] = may[h]
    BY <1>1 DEF HandlerStep, Resolve, insert_inbound_event, insert_event, Snapshot,
                insert_delivery, Commit, Reply, Fail, Finish, TypeOK
  <2> QED
    BY <2>1 DEF Enclosed
<1>2. CASE \E g \in Handler, r \in Request : Receive(g, r)
  <2>1. PICK g \in Handler, r \in Request : Receive(g, r)
    BY <1>2
  <2>2. CASE g = h
    BY <2>1, <2>2 DEF Receive, TypeOK
  <2>3. CASE g # h
    <3>1. /\ pc[h] # "idle" /\ serving'[h] = serving[h] /\ endpoints' = endpoints
          /\ must'[h] = must[h] /\ may'[h] = may[h]
      BY <2>1, <2>3 DEF Receive, TypeOK
    <3> QED
      BY <3>1 DEF Enclosed
  <2> QED
    BY <2>2, <2>3
<1>3. CASE Witness(endpoints') /\ UNCHANGED handlerVars
  <2>1. pc[h] # "idle" /\ serving'[h] = serving[h]
    BY <1>3 DEF handlerVars
  <2>2. /\ must'[h] = must[h] \cap Wanting(endpoints', serving[h])
        /\ may'[h] = may[h] \cup Wanting(endpoints', serving[h])
    BY <1>3, <2>1 DEF Witness
  <2> QED
    BY <2>1, <2>2
<1>4. CASE UNCHANGED <<endpoints, handlerVars, must, may>>
  BY <1>4 DEF Enclosed, handlerVars
<1> QED
  BY <1>1, <1>2, <1>3, <1>4 DEF Next, vars, Register, create_endpoint, update_endpoint

LEMMA DraftsStep ==
  ASSUME TypeOK, TypeOK', [Next]_vars, Enclosed, Drafts
  PROVE  Drafts'
<1> SUFFICES ASSUME NEW h \in Handler
             PROVE  /\ pc'[h] = "fan" => /\ must'[h] \subseteq draft'[h] \cup todo'[h]
                                         /\ draft'[h] \cup todo'[h] \subseteq may'[h]
                    /\ pc'[h] \notin {"fan", "reply"} => draft'[h] = {}
  BY DEF Drafts
<1>1. CASE \E g \in Handler : HandlerStep(g) \/ Fail(g)
  <2>1. PICK g \in Handler : HandlerStep(g) \/ Fail(g)
    BY <1>1
  <2>2. CASE g # h
    BY <2>1, <2>2 DEF HandlerStep, Resolve, insert_inbound_event, insert_event, Snapshot,
                      insert_delivery, Commit, Reply, Fail, Finish, TypeOK, Drafts, txVars
  <2>3. CASE Snapshot(h)
    <3>1. serving[h] \in Request
      BY DEF TypeOK
    <3>2. todo'[h] = Wanting(endpoints, serving[h]) /\ draft'[h] = {}
      BY <2>3, <3>1, TargetsWanting DEF Snapshot, Drafts, TypeOK
    <3>3. must[h] \subseteq Wanting(endpoints, serving[h]) /\ Wanting(endpoints, serving[h]) \subseteq may[h]
      BY <2>3 DEF Snapshot, Enclosed
    <3>4. must' = must /\ may' = may /\ pc'[h] = "fan"
      BY <2>3 DEF Snapshot, TypeOK
    <3> QED
      BY <3>2, <3>3, <3>4
  <2>4. CASE \E e \in Endpoint : insert_delivery(h, e)
    <3>1. PICK e \in Endpoint : insert_delivery(h, e)
      BY <2>4
    <3>2. pc[h] = "fan" /\ UNCHANGED <<pc, must, may>>
      BY <3>1 DEF insert_delivery
    <3>3. e \in todo[h] /\ todo'[h] = todo[h] \ {e} /\ draft'[h] = draft[h] \cup {e}
      BY <3>1 DEF insert_delivery, TypeOK
    <3>4. draft'[h] \cup todo'[h] = draft[h] \cup todo[h]
      BY <3>3
    <3> QED
      BY <3>2, <3>4 DEF Drafts
  <2>5. CASE Resolve(h) \/ insert_inbound_event(h) \/ Reply(h) \/ Fail(h)
    BY <2>5 DEF Resolve, insert_inbound_event, Reply, Fail, Finish, Drafts, TypeOK, txVars
  <2>6. CASE insert_event(h) \/ Commit(h)
    BY Zenon, <2>6 DEF insert_event, Commit, Drafts, TypeOK, txVars
  <2> QED
    BY <2>1, <2>2, <2>3, <2>4, <2>5, <2>6 DEF HandlerStep
<1>2. CASE \E g \in Handler, r \in Request : Receive(g, r)
  <2>1. PICK g \in Handler, r \in Request : Receive(g, r)
    BY <1>2
  <2>2. draft' = draft /\ todo' = todo
    BY <2>1 DEF Receive, txVars
  <2>3. CASE g = h
    <3>1. pc[h] = "idle" /\ pc'[h] \notin {"fan", "reply"}
      BY <2>1, <2>3 DEF Receive, TypeOK
    <3> QED
      BY <2>2, <3>1 DEF Drafts
  <2>4. CASE g # h
    <3>1. pc'[h] = pc[h] /\ must'[h] = must[h] /\ may'[h] = may[h]
      BY <2>1, <2>4 DEF Receive, TypeOK
    <3> QED
      BY <2>2, <3>1 DEF Drafts
  <2> QED
    BY <2>3, <2>4
<1>3. CASE Witness(endpoints') /\ UNCHANGED handlerVars
  <2>1. pc'[h] = pc[h] /\ draft'[h] = draft[h] /\ todo'[h] = todo[h]
    BY <1>3 DEF handlerVars, txVars
  <2>2. pc[h] # "idle" => must'[h] \subseteq must[h] /\ may[h] \subseteq may'[h]
    BY <1>3 DEF Witness
  <2> QED
    BY <2>1, <2>2 DEF Drafts
<1>4. CASE UNCHANGED <<handlerVars, must, may>>
  BY <1>4 DEF Drafts, handlerVars, txVars
<1> QED
  BY <1>1, <1>2, <1>3, <1>4 DEF Next, vars, Register, create_endpoint, update_endpoint

LEMMA FanOutStep ==
  ASSUME TypeOK, TypeOK', [Next]_vars, Drafts, FanOutExact
  PROVE  FanOutExact'
<1>1. CASE events' = events
  BY <1>1 DEF FanOutExact
<1>2. CASE \E h \in Handler : Commit(h)
  <2>1. PICK h \in Handler : Commit(h)
    BY <1>2
  <2> DEFINE n == Len(events)
             new == [req |-> serving[h], to |-> draft[h], must |-> must[h], may |-> may[h]]
  <2> HIDE DEF n
  <2>2. new.must \subseteq new.to /\ new.to \subseteq new.may
    BY <2>1 DEF Commit, Drafts
  <2> HIDE DEF new
  <2>3. /\ Len(events') = n + 1 /\ n \in Nat /\ events'[n + 1] = new
        /\ \A i \in 1 .. n : events'[i] = events[i]
    BY <2>1, Appended DEF n, new
  <2> SUFFICES ASSUME NEW i \in 1 .. (n + 1)
               PROVE  events'[i].must \subseteq events'[i].to /\ events'[i].to \subseteq events'[i].may
    BY <2>3 DEF FanOutExact
  <2>4. CASE i \in 1 .. n
    BY <2>3, <2>4 DEF FanOutExact, n
  <2>5. CASE i = n + 1
    BY <2>2, <2>3, <2>5
  <2> QED
    BY <2>3, <2>4, <2>5
<1> QED
  BY <1>1, <1>2, EventsStep

-----------------------------------------------------------------------------

LEMMA InitInv == Init => IngestInv
<1> SUFFICES ASSUME Init PROVE IngestInv
  OBVIOUS
<1>1. Len(events) = 0
  BY DEF Init
<1>2. Exclusive /\ ReplyCommitted /\ Enclosed /\ Drafts
  <2>1. \A h \in Handler : pc[h] = "idle" /\ draft[h] = {}
    BY DEF Init
  <2>2. Exclusive
    BY <2>1 DEF Exclusive, Open
  <2>3. ReplyCommitted /\ Enclosed
    BY <2>1 DEF ReplyCommitted, Enclosed
  <2>4. Drafts
    BY <2>1 DEF Drafts
  <2> QED
    BY <2>2, <2>3, <2>4
<1>3. BridgedOnce /\ FanOutExact
  BY <1>1 DEF BridgedOnce, FanOutExact
<1>4. AckedIsStored
  BY DEF Init, AckedIsStored
<1> QED
  BY <1>2, <1>3, <1>4 DEF IngestInv

LEMMA NextInv == TypeOK /\ TypeOK' /\ IngestInv /\ [Next]_vars => IngestInv'
BY ExclusiveStep, BridgedStep, ReplyStep, AckedStep, EnclosedStep, DraftsStep, FanOutStep
   DEF IngestInv

\* The inductive invariant: the unique index makes open transactions exclusive,
\* and the history of each request encloses what its transaction inserts.
THEOREM IngestInvariant == ASSUME Request # {} PROVE Spec => [](TypeOK /\ IngestInv)
<1>1. Init => TypeOK /\ IngestInv
  BY InitType, InitInv
<1>2. TypeOK /\ IngestInv /\ [Next]_vars => (TypeOK /\ IngestInv)'
  BY NextType, NextInv
<1> QED
  BY <1>1, <1>2, PTL DEF Spec

\* A webhook is bridged at most once, for any number of concurrent handlers,
\* redeliveries, failures and crashes.
THEOREM WebhooksBridgedOnce == ASSUME Request # {} PROVE Spec => []BridgedOnce
BY IngestInvariant, PTL DEF IngestInv

\* A 2xx is only ever sent for a committed event.
THEOREM AcksAreStored == ASSUME Request # {} PROVE Spec => []AckedIsStored
BY IngestInvariant, PTL DEF IngestInv

\* Fan-out is complete and exact, whatever operators change meanwhile.
THEOREM FanOutIsExact == ASSUME Request # {} PROVE Spec => []FanOutExact
BY IngestInvariant, PTL DEF IngestInv

-----------------------------------------------------------------------------
(* How often a request is committed *)

USE PipelineAssumption

\* Handlers that may yet commit, and requests that a client has still to send.
Underway == {h \in Handler : pc[h] \notin {"idle", "reply"}}

Waiting == {r \in Request \ acked : \A h \in Handler : pc[h] # "idle" => serving[h] # r}

\* Every event, every handler underway and every waiting request is paid for, by
\* a request of its own or by a fault.
Paid == Len(events) + Cardinality(Underway) + Cardinality(Waiting)
          <= Cardinality(Request) + faults

LEMMA Sizes ==
  ASSUME NEW S, IsFiniteSet(S), NEW A \in SUBSET S, NEW B \in SUBSET S
  PROVE  /\ Cardinality(A) \in Nat /\ Cardinality(B) \in Nat
         /\ B \subseteq A => Cardinality(B) <= Cardinality(A)
         /\ \A x : B \subseteq A \cup {x} => Cardinality(B) <= Cardinality(A) + 1
         /\ \A x \in A : B \subseteq A \ {x} => Cardinality(B) <= Cardinality(A) - 1
<1>1. IsFiniteSet(A) /\ IsFiniteSet(B)
  BY FS_Subset
<1>2. Cardinality(A) \in Nat /\ Cardinality(B) \in Nat
  BY <1>1, FS_CardinalityType
<1>3. ASSUME NEW x, B \subseteq A \cup {x} PROVE Cardinality(B) <= Cardinality(A) + 1
  <2>1. IsFiniteSet(A \cup {x}) /\ Cardinality(A \cup {x}) <= Cardinality(A) + 1
    <3>1. CASE x \in A
      <4>1. A \cup {x} = A
        BY <3>1
      <4>2. IsFiniteSet(A \cup {x}) /\ Cardinality(A \cup {x}) = Cardinality(A)
        BY Zenon, <1>1, <4>1
      <4> QED
        BY SMT, <1>2, <4>2
    <3>2. CASE x \notin A
      <4>1. IsFiniteSet(A \cup {x}) /\ Cardinality(A \cup {x}) = Cardinality(A) + 1
        BY <1>1, <3>2, FS_AddElement
      <4> QED
        BY SMT, <1>2, <4>1
    <3> QED
      BY <3>1, <3>2
  <2>2. Cardinality(B) <= Cardinality(A \cup {x}) /\ Cardinality(A \cup {x}) \in Nat
    BY <1>3, <2>1, FS_Subset, FS_CardinalityType
  <2> QED
    BY <1>2, <2>1, <2>2
<1>4. ASSUME NEW x \in A, B \subseteq A \ {x} PROVE Cardinality(B) <= Cardinality(A) - 1
  <2>1. IsFiniteSet(A \ {x}) /\ Cardinality(A \ {x}) = Cardinality(A) - 1
    BY <1>1, FS_RemoveElement
  <2> QED
    BY <1>4, <2>1, FS_Subset
<1> QED
  BY <1>1, <1>2, <1>3, <1>4, FS_Subset

LEMMA PaidSizes ==
  /\ Underway \in SUBSET Handler /\ Waiting \in SUBSET Request
  /\ (Underway \in SUBSET Handler)' /\ (Waiting \in SUBSET Request)'
BY DEF Underway, Waiting

\* What a step does to the account, in four ways.
LEMMA Unspent ==
  ASSUME TypeOK, TypeOK', Paid, Len(events') = Len(events), faults' >= faults,
         Underway' \subseteq Underway, Waiting' \subseteq Waiting
  PROVE  Paid'
<1>1. /\ Cardinality(Underway) \in Nat /\ Cardinality(Underway') \in Nat
      /\ Cardinality(Underway') <= Cardinality(Underway)
  BY PaidSizes, Sizes
<1>2. /\ Cardinality(Waiting) \in Nat /\ Cardinality(Waiting') \in Nat
      /\ Cardinality(Waiting') <= Cardinality(Waiting)
  BY PaidSizes, Sizes
<1>3. Cardinality(Request) \in Nat /\ Len(events) \in Nat /\ faults \in Nat /\ faults' \in Nat
  BY FS_CardinalityType DEF TypeOK
<1> QED
  BY <1>1, <1>2, <1>3 DEF Paid

LEMMA ReceivePays ==
  ASSUME TypeOK, TypeOK', Paid, NEW h \in Handler, NEW r \in Request, Receive(h, r)
  PROVE  Paid'
<1>1. /\ pc[h] = "idle" /\ events' = events /\ acked' = acked /\ r \notin acked
      /\ pc'[h] = "resolve" /\ serving'[h] = r
      /\ \A g \in Handler \ {h} : pc'[g] = pc[g] /\ serving'[g] = serving[g]
  BY DEF Receive, TypeOK
<1>2. Underway' \subseteq Underway \cup {h} /\ Waiting' \subseteq Waiting /\ r \notin Waiting'
  BY <1>1 DEF Underway, Waiting
<1>3. /\ Cardinality(Underway) \in Nat /\ Cardinality(Underway') \in Nat
      /\ Cardinality(Underway') <= Cardinality(Underway) + 1
  BY <1>2, PaidSizes, Sizes
<1>4. /\ Cardinality(Waiting) \in Nat /\ Cardinality(Waiting') \in Nat
      /\ Cardinality(Waiting') <= Cardinality(Waiting)
      /\ r \in Waiting => Cardinality(Waiting') <= Cardinality(Waiting) - 1
  <2>1. r \in Waiting => Waiting' \subseteq Waiting \ {r}
    BY <1>2
  <2> QED
    BY <1>2, <2>1, PaidSizes, Sizes
<1>5. (r \in Waiting /\ faults' = faults) \/ faults' = faults + 1
  BY <1>1 DEF Receive, Fault, Waiting
<1>6. Cardinality(Request) \in Nat /\ Len(events) \in Nat /\ faults \in Nat
  BY FS_CardinalityType DEF TypeOK
<1> QED
  BY <1>1, <1>3, <1>4, <1>5, <1>6 DEF Paid

LEMMA CommitPays ==
  ASSUME TypeOK, TypeOK', Paid, NEW h \in Handler, Commit(h)
  PROVE  Paid'
<1>1. /\ pc[h] = "fan" /\ pc'[h] = "reply" /\ acked' = acked /\ serving' = serving
      /\ faults' = faults /\ \A g \in Handler \ {h} : pc'[g] = pc[g]
  BY DEF Commit, TypeOK
<1>2. h \in Underway /\ Underway' \subseteq Underway \ {h} /\ Waiting' \subseteq Waiting
  BY <1>1 DEF Underway, Waiting
<1>3. /\ Cardinality(Underway) \in Nat /\ Cardinality(Underway') \in Nat
      /\ Cardinality(Underway') <= Cardinality(Underway) - 1
  BY <1>2, PaidSizes, Sizes
<1>4. /\ Cardinality(Waiting) \in Nat /\ Cardinality(Waiting') \in Nat
      /\ Cardinality(Waiting') <= Cardinality(Waiting)
  BY <1>2, PaidSizes, Sizes
<1>5. Len(events') = Len(events) + 1 /\ Len(events) \in Nat
  BY Appended
<1>6. Cardinality(Request) \in Nat /\ faults \in Nat
  BY FS_CardinalityType DEF TypeOK
<1> QED
  BY <1>1, <1>3, <1>4, <1>5, <1>6 DEF Paid

\* A handler that ends without a 2xx gives the request back to its client; it had
\* not committed, or it failed.
LEMMA RefusalPays ==
  ASSUME TypeOK, TypeOK', Paid, NEW h \in Handler, Finish(h, FALSE), events' = events,
         (h \in Underway /\ faults' = faults) \/ faults' = faults + 1
  PROVE  Paid'
<1>1. /\ pc'[h] = "idle" /\ acked' = acked /\ serving' = serving
      /\ \A g \in Handler \ {h} : pc'[g] = pc[g]
  BY DEF Finish, TypeOK
<1>2. Underway' \subseteq Underway \ {h} /\ Waiting' \subseteq Waiting \cup {serving[h]}
  BY <1>1 DEF Underway, Waiting
<1>3. /\ Cardinality(Underway) \in Nat /\ Cardinality(Underway') \in Nat
      /\ Cardinality(Underway') <= Cardinality(Underway)
      /\ h \in Underway => Cardinality(Underway') <= Cardinality(Underway) - 1
  <2>1. Underway' \subseteq Underway
    BY <1>2
  <2> QED
    BY <1>2, <2>1, PaidSizes, Sizes
<1>4. /\ Cardinality(Waiting) \in Nat /\ Cardinality(Waiting') \in Nat
      /\ Cardinality(Waiting') <= Cardinality(Waiting) + 1
  BY <1>2, PaidSizes, Sizes
<1>5. Cardinality(Request) \in Nat /\ Len(events) \in Nat /\ faults \in Nat
  BY FS_CardinalityType DEF TypeOK
<1> QED
  BY <1>3, <1>4, <1>5 DEF Paid

LEMMA AnswerPays ==
  ASSUME TypeOK, TypeOK', Paid, NEW h \in Handler, Finish(h, TRUE), events' = events,
         faults' = faults
  PROVE  Paid'
<1>1. /\ pc'[h] = "idle" /\ acked' = acked \cup {serving[h]} /\ serving' = serving
      /\ \A g \in Handler \ {h} : pc'[g] = pc[g]
  BY DEF Finish, TypeOK
<1>2. Underway' \subseteq Underway /\ Waiting' \subseteq Waiting
  BY <1>1 DEF Underway, Waiting
<1>3. Len(events') = Len(events) /\ faults' >= faults
  BY DEF TypeOK
<1> QED
  BY <1>2, <1>3, Unspent

LEMMA PaidStep ==
  ASSUME TypeOK, TypeOK', Paid, [Next]_vars
  PROVE  Paid'
<1>1. ASSUME NEW h \in Handler, HandlerStep(h) \/ Fail(h) PROVE Paid'
  <2>1. CASE Resolve(h)
    <3>1. CASE Finish(h, FALSE)
      <4>1. h \in Underway /\ events' = events /\ faults' = faults
        BY <2>1 DEF Resolve, Underway
      <4> QED
        BY <3>1, <4>1, RefusalPays
    <3>2. CASE ~Finish(h, FALSE)
      <4>1. /\ pc[h] = "resolve" /\ pc'[h] \in {"dedup", "event"}
            /\ \A g \in Handler \ {h} : pc'[g] = pc[g]
            /\ UNCHANGED <<events, serving, acked, faults>>
        BY <2>1, <3>2 DEF Resolve, TypeOK
      <4>2. Underway' \subseteq Underway /\ Waiting' \subseteq Waiting
        BY <4>1 DEF Underway, Waiting
      <4>3. Len(events') = Len(events) /\ faults' >= faults
        BY <4>1 DEF TypeOK
      <4> QED
        BY <4>2, <4>3, Unspent
    <3> QED
      BY <3>1, <3>2
  <2>2. CASE (insert_inbound_event(h) /\ Finish(h, TRUE)) \/ Reply(h)
    <3>1. Finish(h, TRUE) /\ events' = events /\ faults' = faults
      BY <2>2 DEF insert_inbound_event, Reply
    <3> QED
      BY <3>1, AnswerPays
  <2>3. CASE \/ insert_inbound_event(h) /\ ~Finish(h, TRUE)
             \/ insert_event(h) \/ Snapshot(h) \/ \E e \in Endpoint : insert_delivery(h, e)
    <3>1. /\ pc[h] \in {"dedup", "event", "scope", "fan"}
          /\ pc'[h] \in {"dedup", "event", "scope", "fan"}
          /\ \A g \in Handler \ {h} : pc'[g] = pc[g]
      BY <2>3 DEF insert_inbound_event, insert_event, Snapshot, insert_delivery, TypeOK
    <3>2. UNCHANGED <<events, serving, acked, faults>>
      BY <2>3 DEF insert_inbound_event, insert_event, Snapshot, insert_delivery
    <3>3. Underway' \subseteq Underway /\ Waiting' \subseteq Waiting
      BY <3>1, <3>2 DEF Underway, Waiting
    <3>4. Len(events') = Len(events) /\ faults' >= faults
      BY <3>2 DEF TypeOK
    <3> QED
      BY <3>3, <3>4, Unspent
  <2>4. CASE Commit(h)
    BY <2>4, CommitPays
  <2>5. CASE Fail(h)
    <3>1. Finish(h, FALSE) /\ events' = events /\ faults' = faults + 1
      BY <2>5 DEF Fail, Fault
    <3> QED
      BY <3>1, RefusalPays
  <2> QED
    BY <1>1, <2>1, <2>2, <2>3, <2>4, <2>5 DEF HandlerStep
<1>2. CASE \E h \in Handler, r \in Request : Receive(h, r)
  BY <1>2, ReceivePays
<1>3. ASSUME UNCHANGED <<events, pc, serving, acked, faults>> PROVE Paid'
  BY <1>3 DEF Paid, Underway, Waiting
<1>4. CASE ~(\E h \in Handler : HandlerStep(h) \/ Fail(h))
             /\ ~(\E h \in Handler, r \in Request : Receive(h, r))
  <2>1. UNCHANGED <<events, pc, serving, acked, faults>>
    BY Zenon, <1>4 DEF Next, Register, create_endpoint, update_endpoint, vars, handlerVars
  <2> QED
    BY <1>3, <2>1
<1> QED
  BY <1>1, <1>2, <1>4

LEMMA PaidInit == Init => Paid
<1> SUFFICES ASSUME Init PROVE Paid
  OBVIOUS
<1>1. Underway = {} /\ Waiting = Request /\ Len(events) = 0 /\ faults = 0
  BY DEF Init, Underway, Waiting
<1>2. Cardinality({}) = 0 /\ Cardinality(Request) \in Nat
  BY FS_EmptySet, FS_CardinalityType
<1> QED
  BY <1>1, <1>2 DEF Paid

LEMMA PaidBounds == TypeOK /\ Paid => ExtraIsFault
<1>1. Cardinality(Underway) \in Nat /\ Cardinality(Waiting) \in Nat
  BY PaidSizes, Sizes
<1>2. Cardinality(Request) \in Nat
  BY FS_CardinalityType
<1> QED
  BY <1>1, <1>2 DEF Paid, ExtraIsFault, TypeOK

\* Each event beyond one for every request goes back to a failure or to a client
\* that sent again too early.
THEOREM ExtraEventsAreFaults == ASSUME Request # {} PROVE Spec => []ExtraIsFault
<1>1. Init => TypeOK /\ Paid
  BY InitType, PaidInit
<1>2. (TypeOK /\ Paid) /\ [Next]_vars => (TypeOK /\ Paid)'
  BY NextType, PaidStep
<1> QED
  BY <1>1, <1>2, PaidBounds, PTL DEF Spec

-----------------------------------------------------------------------------
(* The pipeline *)

Present(d) == row[d].status # "absent"

\* A row that is not committed is leased to nobody, so no worker writes it.
Rows ==
  /\ DOMAIN row = Delivery
  /\ \A d \in Delivery : ~Present(d) => row[d].by = Nobody

PipelineInv == TypeOK /\ IngestInv /\ Rows /\ CommittedTogether

LEMMA Positions ==
  ASSUME NEW d \in Delivery
  PROVE  d[1] \in Nat /\ d[1] >= 1
<1>1. Cardinality(Request) \in Nat
  BY FS_CardinalityType
<1> QED
  BY <1>1 DEF Delivery

\* What workers, time, crashes and operators do to delivery rows: none appears
\* and none vanishes.
RowsKept == Rows' /\ \A d \in Delivery : Present(d)' <=> Present(d)

LEMMA SendRows ==
  ASSUME Rows, NEW w \in Worker, L!WorkerStep(w) \/ L!DbError(w)
  PROVE  RowsKept
<1> USE DEF RowsKept, Rows, Present
<1>1. CASE L!Claim(w)
  <2>1. PICK S \in SUBSET {d \in Delivery : L!Due(d)} :
          row' = [d \in Delivery |->
                    IF d \in S THEN [status |-> "in_progress", next |-> row[d].next, by |-> w,
                                     left |-> LockSecs, tries |-> row[d].tries]
                               ELSE row[d]]
    BY <1>1 DEF L!Claim
  <2>2. \A d \in S : Present(d)
    BY DEF L!Due
  <2> QED
    BY <2>1, <2>2
<1>2. ASSUME NEW r, r.status # "absent", row[cur[w]].by = w,
             row' = [row EXCEPT ![cur[w]] = r]
      PROVE  RowsKept
  <2>1. cur[w] \in Delivery => Present(cur[w])
    BY <1>2
  <2> QED
    BY <1>2, <2>1
<1>3. CASE L!Defer(w)
  <2>1. CASE L!Holds(w, cur[w])
    <3> DEFINE r == L!Released("failed", wait[w], row[cur[w]].tries)
    <3>1. row' = [row EXCEPT ![cur[w]] = r] /\ row[cur[w]].by = w
      BY <1>3, <2>1 DEF L!Defer, L!Holds
    <3>2. r.status # "absent"
      BY DEF L!Released
    <3> HIDE DEF r
    <3> QED
      BY <1>2, <3>1, <3>2
  <2>2. CASE ~L!Holds(w, cur[w])
    BY <1>3, <2>2 DEF L!Defer
  <2> QED
    BY <2>1, <2>2
<1>4. CASE L!Record(w)
  <2>1. row[cur[w]].by = w
    BY <1>4 DEF L!Record, L!Holds
  <2>2. \E s \in {"succeeded", "failed", "dead"} : \E n, k :
          row' = [row EXCEPT ![cur[w]] = L!Released(s, n, k)]
    BY <1>4 DEF L!Record
  <2>3. \A s \in {"succeeded", "failed", "dead"} : \A n, k :
          L!Released(s, n, k).status # "absent"
    BY DEF L!Released
  <2> QED
    BY <1>2, <2>1, <2>2, <2>3
<1>5. CASE \/ \E d \in Delivery : L!Begin(w, d)
           \/ L!AcquireProbe(w) \/ L!Respond(w) \/ L!Abandon(w) \/ L!DbError(w)
  <2>1. row' = row
    BY Zenon, <1>5 DEF L!Begin, L!AcquireProbe, L!Respond, L!Abandon, L!DbError
  <2> QED
    BY <2>1
<1> QED
  BY <1>1, <1>3, <1>4, <1>5 DEF L!WorkerStep

LEMMA OtherRows ==
  ASSUME Rows,
         \/ L!Tick \/ L!Crash \/ UNCHANGED row
         \/ \E d \in Delivery : L!Replay(d)
         \/ \E e, b : L!SetDisabled(e, b)
  PROVE  RowsKept
<1> USE DEF RowsKept, Rows, Present
<1>1. CASE L!Tick
  BY <1>1 DEF L!Tick
<1>2. CASE L!Crash \/ UNCHANGED row \/ \E e, b : L!SetDisabled(e, b)
  <2>1. row' = row
    BY Zenon, <1>2 DEF L!Crash, L!SetDisabled
  <2> QED
    BY <2>1
<1>3. ASSUME NEW d \in Delivery, L!Replay(d) PROVE RowsKept
  BY <1>3 DEF L!Replay, L!Released
<1> QED
  BY <1>1, <1>2, <1>3

\* A step that leaves the requests' part of the database alone.
LEMMA Aside ==
  ASSUME TypeOK, IngestInv,
         UNCHANGED <<known, endpoints, events, handlerVars, acked, must, may>>
  PROVE  IngestInv'
<1> USE DEF handlerVars, txVars
<1>1. Exclusive' /\ BridgedOnce'
  BY DEF IngestInv, Exclusive, BridgedOnce, Open, Stored
<1>2. ReplyCommitted' /\ AckedIsStored'
  BY DEF IngestInv, ReplyCommitted, Committed, AckedIsStored, Stored
<1>3. Enclosed' /\ Drafts' /\ FanOutExact'
  BY DEF IngestInv, Enclosed, Drafts, FanOutExact
<1> QED
  BY <1>1, <1>2, <1>3 DEF IngestInv

\* A step of the pipeline is one of Ingest, or keeps all but its counters.
LEMMA IngestPart ==
  ASSUME TypeOK, IngestInv, [PipelineNext]_allVars
  PROVE  /\ TypeOK' /\ IngestInv'
         /\ [Next]_vars \/ UNCHANGED <<known, endpoints, events, handlerVars, acked, must, may>>
<1>1. CASE [Next]_vars
  BY <1>1, NextType, NextInv
<1>2. CASE Disturb
  <2>1. faults' \in Nat /\ ops' \in Nat
    BY <1>2 DEF Disturb, TypeOK, L!Crash, L!DbError, L!Replay, L!Fault, L!OperatorCall
  <2>2. UNCHANGED <<known, endpoints, events, handlerVars, acked, must, may>>
    BY <1>2 DEF Disturb
  <2>3. TypeOK'
    BY <2>1, <2>2 DEF TypeOK, handlerVars, txVars
  <2> QED
    BY <2>2, <2>3, Aside
<1>3. CASE ~Disturb
  <2>1. [Next]_vars
    BY Zenon, <1>3 DEF PipelineNext, Handle, Resend, Patch, Send, Elapse, Next, allVars
  <2> QED
    BY <1>1, <2>1
<1> QED
  BY <1>2, <1>3

\* No event is committed: neither does a delivery appear.
LEMMA NothingCommitted ==
  ASSUME CommittedTogether, RowsKept, events' = events
  PROVE  CommittedTogether'
BY DEF CommittedTogether, RowsKept, Present

\* A commit adds one event and the rows that its transaction held back.
LEMMA CommitTogether ==
  ASSUME TypeOK, Rows, CommittedTogether, NEW h \in Handler, Commit(h),
         \/ Drafted(h) # {} /\ L!Enqueue(Drafted(h))
         \/ Drafted(h) = {} /\ UNCHANGED row
  PROVE  Rows' /\ CommittedTogether'
<1>1. /\ DOMAIN row' = Delivery
      /\ \A d \in Delivery :
           row'[d] = IF d \in Drafted(h) THEN L!Released("pending", 0, 0) ELSE row[d]
  BY DEF L!Enqueue, Rows
<1>2. ASSUME NEW d \in Delivery
      PROVE  /\ Present(d)' <=> Present(d) \/ d \in Drafted(h)
             /\ ~Present(d)' => row'[d].by = Nobody
  BY <1>1 DEF Present, L!Released, Rows
<1>3. ASSUME NEW d \in Delivery
      PROVE  /\ d[1] <= Len(events') /\ d[2] \in events'[d[1]].to
               <=> \/ d[1] <= Len(events) /\ d[2] \in events[d[1]].to
                   \/ d \in Drafted(h)
  <2>0. /\ Len(events) \in Nat /\ Len(events') = Len(events) + 1
        /\ \A i \in 1 .. Len(events) : events'[i] = events[i]
        /\ events'[Len(events) + 1].to = draft[h]
    <3>1. events'[Len(events) + 1] = [req |-> serving[h], to |-> draft[h],
                                      must |-> must[h], may |-> may[h]]
      BY Zenon, Appended
    <3>2. events'[Len(events) + 1].to = draft[h]
      BY <3>1
    <3> QED
      BY Zenon, <3>2, Appended
  <2>1. d[1] \in Nat /\ d[1] >= 1 /\ Len(events) \in Nat /\ Len(events') = Len(events) + 1
    BY <2>0, Positions
  <2>2. CASE d[1] <= Len(events)
    <3>1. events'[d[1]] = events[d[1]]
      BY <2>0, <2>1, <2>2
    <3> QED
      BY <2>1, <2>2, <3>1 DEF Drafted
  <2>3. CASE d[1] = Len(events) + 1
    <3>1. events'[d[1]].to = draft[h]
      BY <2>0, <2>3
    <3> QED
      BY <2>1, <2>3, <3>1 DEF Drafted
  <2>4. CASE d[1] > Len(events) + 1
    BY <2>1, <2>4 DEF Drafted
  <2> QED
    BY <2>1, <2>2, <2>3, <2>4
<1>4. Rows'
  BY <1>1, <1>2 DEF Rows
<1> QED
  BY <1>2, <1>3, <1>4 DEF CommittedTogether, Present

LEMMA PipelineStep ==
  ASSUME PipelineInv, [PipelineNext]_allVars
  PROVE  PipelineInv'
<1>1. TypeOK' /\ IngestInv'
  BY IngestPart DEF PipelineInv
<1>2. ASSUME events' = events, RowsKept PROVE PipelineInv'
  BY <1>1, <1>2, NothingCommitted DEF PipelineInv, RowsKept
<1>3. ASSUME NEW h \in Handler, Handle(h) PROVE PipelineInv'
  <2>1. CASE Commit(h)
    <3>1. \/ Drafted(h) # {} /\ L!Enqueue(Drafted(h))
          \/ Drafted(h) = {} /\ UNCHANGED row
      BY <1>3, <2>1 DEF Handle, sendVars
    <3> QED
      BY <1>1, <2>1, <3>1, CommitTogether DEF PipelineInv
  <2>2. CASE ~Commit(h)
    <3>1. events' = events
      BY Zenon, <1>3, <2>2 DEF Handle, HandlerStep, Resolve, insert_inbound_event, insert_event,
         Snapshot, insert_delivery, Reply
    <3>2. UNCHANGED row
      BY <1>3, <2>2 DEF Handle, sendVars
    <3> QED
      BY <1>2, <3>1, <3>2, OtherRows DEF PipelineInv
  <2> QED
    BY <2>1, <2>2
<1>4. ASSUME NEW w \in Worker, Send(w) PROVE PipelineInv'
  BY <1>2, <1>4, SendRows DEF Send, vars, PipelineInv
<1>5. CASE Elapse
  BY <1>2, <1>5, OtherRows DEF Elapse, vars, PipelineInv
<1>6. CASE Disturb
  BY <1>2, <1>6, OtherRows, SendRows DEF Disturb, PipelineInv
<1>7. ASSUME NEW e, NEW b, NEW types, Patch(e, b, types) PROVE PipelineInv'
  <2>1. events' = events
    BY <1>7 DEF Patch, update_endpoint
  <2>2. UNCHANGED row \/ \E x, y : L!SetDisabled(x, y)
    BY <1>7 DEF Patch, sendVars
  <2> QED
    BY <1>2, <2>1, <2>2, OtherRows DEF PipelineInv
<1>8. CASE \/ \E h \in Handler : Fail(h) /\ UNCHANGED sendVars
           \/ \E h \in Handler, r \in Request : Resend(h, r)
           \/ \E o \in Owner : Register(o) /\ UNCHANGED sendVars
           \/ \E e \in Endpoint, s \in Scope, types \in TypeLists \cup {Null} :
                create_endpoint(e, s, types) /\ UNCHANGED sendVars
           \/ UNCHANGED allVars
  <2>1. events' = events /\ UNCHANGED row
    BY Zenon, <1>8 DEF Fail, Resend, Receive, Register, create_endpoint, sendVars, allVars, vars
  <2> QED
    BY <1>2, <2>1, OtherRows DEF PipelineInv
<1> QED
  BY Zenon, <1>3, <1>4, <1>5, <1>6, <1>7, <1>8 DEF PipelineNext

LEMMA PipelineStart ==
  ASSUME Request # {}, PipelineInit
  PROVE  PipelineInv
<1>1. TypeOK /\ IngestInv
  BY InitType, InitInv DEF PipelineInit
<1>2. row = [d \in Delivery |-> L!Released("absent", 0, 0)] /\ Len(events) = 0
  BY DEF PipelineInit, Init
<1>3. Rows
  BY <1>2 DEF Rows, Present, L!Released
<1>4. CommittedTogether
  <2>1. \A d \in Delivery : row[d].status = "absent" /\ ~(d[1] <= Len(events))
    BY <1>2, Positions DEF L!Released
  <2> QED
    BY <2>1 DEF CommittedTogether
<1> QED
  BY <1>1, <1>3, <1>4 DEF PipelineInv

\* The inductive invariant of the whole: what Ingest keeps, workers keep too.
THEOREM PipelineInvariant == ASSUME Request # {} PROVE PipelineSpec => []PipelineInv
BY PipelineStart, PipelineStep, PTL DEF PipelineSpec

\* The deliveries of an event are claimable from the moment that it is committed
\* and not before, and no worker, crash, replay or PATCH makes one appear or
\* vanish.
THEOREM EventsAndDeliveriesAppearTogether ==
  ASSUME Request # {}
  PROVE  PipelineSpec => []CommittedTogether
BY PipelineInvariant, PTL DEF PipelineInv

\* What the clients are promised holds with workers beside the handlers: bridged
\* once, answered only when committed, fanned out exactly.
THEOREM PromisesSurviveSending ==
  ASSUME Request # {}
  PROVE  PipelineSpec => [](TypeOK /\ BridgedOnce /\ AckedIsStored /\ FanOutExact)
<1>1. PipelineInv => TypeOK /\ BridgedOnce /\ AckedIsStored /\ FanOutExact
  BY DEF PipelineInv, IngestInv
<1> QED
  BY <1>1, PipelineInvariant, PTL

\* A client that sees a 2xx can forget its request: every endpoint that wanted it
\* all along has a delivery row.
THEOREM AnsweredIsQueued == ASSUME Request # {} PROVE PipelineSpec => []AckedIsQueued
<1>1. ASSUME PipelineInv PROVE AckedIsQueued
  <2>1. SUFFICES ASSUME NEW r \in acked
                 PROVE  \E i \in 1 .. Len(events) :
                          /\ \/ events[i].req = r
                             \/ /\ Webhook(events[i].req) /\ Webhook(r)
                                /\ dedup_key(events[i].req) = dedup_key(r)
                          /\ \A d \in Delivery :
                               d[1] = i /\ d[2] \in events[i].must => row[d].status # "absent"
    BY DEF AckedIsQueued
  <2>2. PICK i \in 1 .. Len(events) :
          \/ events[i].req = r
          \/ /\ Webhook(events[i].req) /\ Webhook(r)
             /\ dedup_key(events[i].req) = dedup_key(r)
    BY Zenon, <1>1 DEF PipelineInv, IngestInv, AckedIsStored, Stored
  <2>3. ASSUME NEW d \in Delivery, d[1] = i, d[2] \in events[i].must
        PROVE  row[d].status # "absent"
    <3>1. d[2] \in events[i].to
      BY <1>1, <2>3 DEF PipelineInv, IngestInv, FanOutExact
    <3>2. d[1] <= Len(events) /\ d[2] \in events[d[1]].to
      BY SMT, <1>1, <2>3, <3>1 DEF PipelineInv, TypeOK
    <3> QED
      BY Zenon, <1>1, <3>2 DEF PipelineInv, CommittedTogether
  <2> QED
    BY Zenon, <2>2, <2>3
<1> QED
  BY <1>1, PipelineInvariant, PTL

\* The account of commits, with the faults that workers meet beside it.
Affordable == Paid /\ faults <= MaxFaults

LEMMA AffordableStep ==
  ASSUME TypeOK, TypeOK', Affordable, [PipelineNext]_allVars,
         [Next]_vars \/ UNCHANGED <<known, endpoints, events, handlerVars, acked, must, may>>
  PROVE  Affordable'
<1>1. CASE [Next]_vars
  <2>1. faults' = faults \/ Fault
    BY Zenon, <1>1 DEF Next, HandlerStep, Fail, Receive, Resolve, insert_inbound_event,
       insert_event, Snapshot, insert_delivery, Commit, Reply, Register, create_endpoint,
       update_endpoint, vars
  <2>2. faults' <= MaxFaults
    BY SMT, <2>1, IngestAssumption DEF Fault, Affordable, TypeOK
  <2> QED
    BY <1>1, <2>2, PaidStep DEF Affordable
<1>2. CASE ~[Next]_vars
  <2>1. Disturb
    BY Zenon, <1>2 DEF PipelineNext, Handle, Resend, Patch, Send, Elapse, Next, allVars
  <2>2. faults' = faults \/ L!Fault
    BY Zenon, <2>1 DEF Disturb, L!Crash, L!DbError, L!Replay
  <2>3. faults' >= faults /\ faults' <= MaxFaults
    BY SMT, <2>2, IngestAssumption DEF L!Fault, Affordable, TypeOK
  <2>4. Underway' \subseteq Underway /\ Waiting' \subseteq Waiting /\ Len(events') = Len(events)
    BY <1>2 DEF Underway, Waiting, handlerVars
  <2> QED
    BY <2>3, <2>4, Unspent DEF Affordable
<1> QED
  BY <1>1, <1>2

\* The account balances with workers beside the handlers.
THEOREM CommitsAreAffordable == ASSUME Request # {} PROVE PipelineSpec => []Affordable
<1>1. PipelineInit => Affordable
  <2>1. PipelineInit => Init /\ faults <= MaxFaults
    BY IngestAssumption DEF PipelineInit, Init
  <2> QED
    BY <2>1, PaidInit DEF Affordable
<1>2. (PipelineInv /\ Affordable) /\ PipelineInv' /\ [PipelineNext]_allVars => Affordable'
  BY IngestPart, AffordableStep DEF PipelineInv
<1> QED
  BY <1>1, <1>2, PipelineInvariant, PTL DEF PipelineSpec

\* With crashes and failed statements of workers among the faults, each event
\* beyond one for every request is still paid for by a fault.
THEOREM ExtraEventsAreFaultsWhileSending ==
  ASSUME Request # {}
  PROVE  PipelineSpec => []ExtraIsFault
<1>1. PipelineInv /\ Affordable => ExtraIsFault
  BY PaidBounds DEF PipelineInv, Affordable
<1> QED
  BY <1>1, PipelineInvariant, CommitsAreAffordable, PTL

\* What fan-out chose is in the deliveries table, whichever event it was for.
EveryDeliveryHasARow ==
  \A i \in 1 .. Len(events) : \A e \in events[i].to :
    <<i, e>> \in Delivery /\ row[<<i, e>>].status # "absent"

\* Delivery has a row for every event that can be committed, so that no endpoint
\* that the outbox chose is left without one.
THEOREM EveryDeliveryIsStored ==
  ASSUME Request # {}
  PROVE  PipelineSpec => []EveryDeliveryHasARow
<1>1. ASSUME PipelineInv, Affordable PROVE EveryDeliveryHasARow
  <2>1. Len(events) <= Cardinality(Request) + MaxFaults /\ Len(events) \in Nat
    <3>1. Len(events) <= Cardinality(Request) + faults
      BY <1>1, PaidBounds DEF PipelineInv, Affordable, ExtraIsFault
    <3> QED
      BY <1>1, <3>1, FS_CardinalityType, IngestAssumption DEF PipelineInv, TypeOK, Affordable
  <2>2. ASSUME NEW i \in 1 .. Len(events), NEW e \in events[i].to
        PROVE  <<i, e>> \in Delivery /\ row[<<i, e>>].status # "absent"
    <3>1. events[i] \in EventRow
      BY <1>1 DEF PipelineInv, TypeOK
    <3>2. e \in Endpoint
      BY <3>1 DEF EventRow
    <3>3. i \in 1 .. Cardinality(Request) + MaxFaults
      BY <2>1, FS_CardinalityType, IngestAssumption
    <3>4. <<i, e>> \in Delivery
      BY <3>2, <3>3 DEF Delivery
    <3>5. <<i, e>>[1] = i /\ <<i, e>>[2] = e /\ i <= Len(events)
      BY <2>1
    <3> QED
      BY <1>1, <3>4, <3>5 DEF PipelineInv, CommittedTogether
  <2> QED
    BY <2>2 DEF EveryDeliveryHasARow
<1> QED
  BY <1>1, PipelineInvariant, CommitsAreAffordable, PTL

=============================================================================
