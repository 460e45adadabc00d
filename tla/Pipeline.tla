------------------------------ MODULE Pipeline ------------------------------
(***************************************************************************)
(* From a client's request to the outcome of its deliveries: Ingest and    *)
(* LeaseTiming over one database.  The transaction that commits an event   *)
(* makes its deliveries claimable at once, and the PATCH that changes what *)
(* fan-out reads also changes what workers read.                           *)
(***************************************************************************)
EXTENDS Ingest

CONSTANTS
  FailureThreshold, OpenDuration, MaxI32,                  \* of Circuit
  BaseDelay, MaxDelay, MaxAttempts, MaxShift, MaxWord,     \* of Retry
  Worker, Nobody, NoDelivery, BatchSize, LockSecs,         \* of LeaseTiming
  HttpTimeout, DbTime, RecheckSecs

ASSUME PipelineAssumption ==
  IsFiniteSet(Request) /\ IsFiniteSet(Handler) /\ Nobody \notin Worker

VARIABLES row, ep, wpc, batch, count, cur, seen, wait, post, slack, result, fresh

\* A delivery is the event's position in `events' and the endpoint.
Delivery == (1 .. Cardinality(Request) + MaxFaults) \X Endpoint

L == INSTANCE LeaseTiming WITH
       pc <- wpc, EndpointOf <- [d \in Delivery |-> d[2]]

sendVars == <<row, ep, wpc, batch, count, cur, seen, wait, post, slack, result, fresh>>
allVars == <<vars, sendVars>>

PipelineInit ==
  /\ Init
  /\ row = [d \in Delivery |-> L!Released("absent", 0, 0)]
  /\ ep = [e \in Endpoint |-> L!NewEndpoint]
  /\ wpc = [w \in Worker |-> "idle"]
  /\ batch = [w \in Worker |-> {}]
  /\ count = [w \in Worker |-> [d \in Delivery |-> 0]]
  /\ cur = [w \in Worker |-> NoDelivery]
  /\ seen = [w \in Worker |-> 0]
  /\ wait = [w \in Worker |-> 0]
  /\ post = [w \in Worker |-> 0]
  /\ slack = [w \in Worker |-> 0]
  /\ result = [w \in Worker |-> "none"]
  /\ fresh = [w \in Worker |-> {}]

-----------------------------------------------------------------------------

\* Mutant: the deliveries of an event wait for the client's next request.
Drafted_late(h) == {d \in Delivery : d[1] = Len(events) /\ d[2] \in draft[h]}

\* The delivery rows that a handler's transaction holds back until it commits.
Drafted(h) == {d \in Delivery : d[1] = Len(events) + 1 /\ d[2] \in draft[h]}

\* One step of a request; its commit publishes the event and its deliveries.
Handle(h) ==
  /\ HandlerStep(h)
  /\ \/ Commit(h) /\ Drafted(h) # {} /\ L!Enqueue(Drafted(h))
     \/ ~(Commit(h) /\ Drafted(h) # {}) /\ UNCHANGED sendVars

\* The columns that fan-out reads and the one that workers read are one row.
Patch(e, disabled, types) ==
  /\ update_endpoint(e, disabled, types)
  /\ \/ disabled = Null /\ UNCHANGED sendVars
     \/ disabled # Null /\ L!SetDisabled(e, disabled)

Resend(h, r) == Receive(h, r) /\ UNCHANGED sendVars

Send(w) ==
  /\ L!WorkerStep(w)
  /\ UNCHANGED vars

Elapse == L!Tick /\ UNCHANGED vars

\* What else happens to rows and workers: crashes, failed statements, replays.
Disturb ==
  /\ \/ L!Crash
     \/ \E w \in Worker : L!DbError(w)
     \/ \E d \in Delivery : L!Replay(d)
  /\ UNCHANGED <<known, endpoints, events, handlerVars, acked, must, may>>

PipelineNext ==
  \/ \E h \in Handler : Handle(h) \/ (Fail(h) /\ UNCHANGED sendVars)
  \/ \E h \in Handler, r \in Request : Resend(h, r)
  \/ \E o \in Owner : Register(o) /\ UNCHANGED sendVars
  \/ \E e \in Endpoint, s \in Scope, types \in TypeLists \cup {Null} :
       create_endpoint(e, s, types) /\ UNCHANGED sendVars
  \/ \E e \in Endpoint, disabled \in BOOLEAN \cup {Null}, types \in TypeLists \cup {Null} :
       Patch(e, disabled, types)
  \/ \E w \in Worker : Send(w)
  \/ Elapse
  \/ Disturb

PipelineSpec == PipelineInit /\ [][PipelineNext]_allVars

\* That of the two parts.
PipelineFairness ==
  /\ \A h \in Handler : WF_allVars(Handle(h))
  /\ \A r \in Request : SF_allVars(\E h \in Handler : Resend(h, r))
  /\ \A w \in Worker : WF_allVars(Send(w))
  /\ WF_allVars(Elapse)

PipelineFairSpec == PipelineSpec /\ PipelineFairness

-----------------------------------------------------------------------------
(* Properties *)

\* An event and its deliveries become visible together, and only with a commit.
CommittedTogether ==
  {d \in Delivery : row[d].status # "absent"}
    = {d \in Delivery : d[1] <= Len(events) /\ d[2] \in events[d[1]].to}

\* The other half of the promise: when a client sees a 2xx, every endpoint that
\* wanted its event all along has a row that workers claim, or have claimed; for a
\* duplicate webhook, those of the event that it repeats.
AckedIsQueued ==
  \A r \in acked : \E i \in 1 .. Len(events) :
    LET q == events[i].req IN
    /\ q = r \/ (Webhook(q) /\ Webhook(r) /\ dedup_key(q) = dedup_key(r))
    /\ \A d \in Delivery :
         d[1] = i /\ d[2] \in events[i].must => row[d].status # "absent"

\* The product's promise, end to end: every endpoint that wanted an acknowledged
\* event from its arrival to its commit is answered for, by a 2xx or a dead
\* letter, whatever fails, crashes, is replayed or patched on the way, unless it
\* stays disabled.
AcceptedIsSettled ==
  \A d \in Delivery :
    <>[](~ep[d[2]].disabled) =>
      (d[1] <= Len(events) /\ d[2] \in events[d[1]].must
         ~> row[d].status \in {"succeeded", "dead"})

=============================================================================
