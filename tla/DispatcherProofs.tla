-------------------------- MODULE DispatcherProofs --------------------------
(***************************************************************************)
(* Proofs about the dispatcher, for every number of nodes, workers,        *)
(* deliveries and endpoints and every value of the policies: that it is    *)
(* typed, its inductive invariant, and what a step does to what workers    *)
(* hold in memory, to the breakers and to the attempt log.                 *)
(***************************************************************************)
EXTENDS Dispatcher, TLAPS

USE ZenonT(5), SMTT(20), ZenonT(30), SMTT(60), CircuitAssumption, RetryAssumption, DispatcherAssumption

-----------------------------------------------------------------------------
(* Type correctness *)

\* A worker that processes a delivery has one.
Busy == {"load", "probe", "defer", "send", "commit"}

HasJob == \A w \in Worker : pc[w] \in Busy => cur[w] \in Delivery

TypeInv == TypeOK /\ HasJob

LEMMA NewRowType == NewRow \in Row /\ NewEndpoint \in EndpointRow
BY DEF NewRow, Row, Status, Nobody, NoTime, Instant, NewEndpoint, EndpointRow

LEMMA LeasedType ==
  ASSUME NEW r \in Row, NEW w \in Worker, now \in Nat
  PROVE  Leased(r, w) \in Row
BY DEF Leased, Row, Status, Id, Worker, WorkerId, Instant

LEMMA ReleasedType ==
  ASSUME NEW s \in Status, NEW n \in Nat, NEW k \in Nat
  PROVE  Released(s, n, k) \in Row
BY DEF Released, Row, Status, Nobody, NoTime, Instant

LEMMA SuccessType ==
  ASSUME NEW e \in EndpointRow
  PROVE  on_success(e) \in EndpointRow
BY DEF on_success, update_circuit, EndpointRow, Instant, NoTime

LEMMA FailureType ==
  ASSUME NEW e \in EndpointRow, NEW s \in EndpointRow, NEW t \in Nat
  PROVE  on_failure(e, s, t) \in EndpointRow
BY DEF on_failure, update_circuit, EndpointRow, Instant, NoTime, SaturatingSucc

LEMMA ProbeType ==
  ASSUME NEW e \in EndpointRow, NEW t \in Nat
  PROVE  acquire_probe(e, t) \in EndpointRow
BY DEF acquire_probe, update_circuit, EndpointRow, Instant

LEMMA InitType == Init => TypeInv
BY NewRowType DEF Init, TypeInv, TypeOK, HasJob, Busy, PC, Attempt

LEMMA ClaimType ==
  ASSUME TypeInv, NEW w \in Worker, Claim(w)
  PROVE  TypeInv'
<1> USE DEF TypeInv, TypeOK
<1>1. row' \in [Delivery -> Row]
  BY LeasedType DEF Claim
<1>2. count' \in [Worker -> [Delivery -> Nat]]
  BY DEF Claim, Row
<1>3. batch' \in [Worker -> SUBSET Delivery] /\ fresh' \in [Worker -> SUBSET Delivery]
  BY DEF Claim
<1>4. pc' \in [Worker -> PC] /\ HasJob'
  BY DEF Claim, PC, HasJob, Busy, jobVars
<1> QED
  BY <1>1, <1>2, <1>3, <1>4 DEF Claim, jobVars

LEMMA BeginType ==
  ASSUME TypeInv, NEW w \in Worker, NEW d \in Delivery, Begin(w, d)
  PROVE  TypeInv'
BY DEF TypeInv, TypeOK, Begin, HasJob, Busy, PC, dbVars

LEMMA StopType ==
  ASSUME TypeInv, NEW w \in Worker, Stop(w)
  PROVE  TypeInv'
BY DEF TypeInv, TypeOK, Stop, HasJob, Busy, PC, dbVars, jobVars

LEMMA DoneType ==
  ASSUME TypeInv, NEW w \in Worker, pc[w] \in Busy, Done(w)
  PROVE  /\ pc' \in [Worker -> PC]
         /\ batch' \in [Worker -> SUBSET Delivery]
         /\ count' \in [Worker -> [Delivery -> Nat]]
         /\ cur' \in [Worker -> Delivery \cup {NoDelivery}]
         /\ seen' \in [Worker -> EndpointRow]
         /\ stamp' \in [Worker -> Nat]
         /\ result' \in [Worker -> {"none", "ok", "fail", "poison"}]
         /\ fresh' \in [Worker -> SUBSET Delivery]
         /\ HasJob'
BY NewRowType DEF TypeInv, TypeOK, Done, HasJob, Busy, PC

LEMMA SkipUntil ==
  ASSUME NEW e \in EndpointRow, NEW t, gate(e, t) = "skip"
  PROVE  e.open_until \in Nat
BY DEF gate, Barred, EndpointRow, Instant

LEMMA LoadEndpointType ==
  ASSUME TypeInv, NEW w \in Worker, LoadEndpoint(w)
  PROVE  TypeInv'
<1> USE DEF TypeInv, TypeOK
<1> DEFINE e == ep[EndpointOf[cur[w]]]
<1>1. cur[w] \in Delivery /\ e \in EndpointRow
  BY DEF LoadEndpoint, HasJob, Busy
<1>2. gate(e, stamp[w]) = "skip" => e.open_until \in Nat
  BY <1>1, SkipUntil
<1>3. stamp' \in [Worker -> Nat]
  BY <1>1, <1>2 DEF LoadEndpoint
<1>4. pc' \in [Worker -> PC] /\ HasJob'
  BY Zenon, <1>1 DEF LoadEndpoint, PC, HasJob, Busy
<1> QED
  BY <1>1, <1>3, <1>4 DEF LoadEndpoint, dbVars

LEMMA AcquireProbeType ==
  ASSUME TypeInv, NEW w \in Worker, AcquireProbe(w)
  PROVE  TypeInv'
<1> USE DEF TypeInv, TypeOK
<1>1. cur[w] \in Delivery
  BY DEF AcquireProbe, HasJob, Busy
<1>2. acquire_probe(ep[EndpointOf[cur[w]]], now) \in EndpointRow
  BY <1>1, ProbeType
<1>3. ep' \in [Endpoint -> EndpointRow]
  <2>1. \/ ep' = ep
        \/ ep' = [ep EXCEPT ![EndpointOf[cur[w]]] =
                            acquire_probe(ep[EndpointOf[cur[w]]], now)]
    BY DEF AcquireProbe
  <2> QED
    BY Zenon, <1>2, <2>1
<1>4. pc' \in [Worker -> PC]
  <2>1. \E p \in PC : pc' = [pc EXCEPT ![w] = p]
    BY DEF AcquireProbe, PC
  <2> QED
    BY Zenon, <2>1
<1>5. stamp' \in [Worker -> Nat]
  <2>1. stamp' = stamp \/ stamp' = [stamp EXCEPT ![w] = stamp[w] + OpenDuration]
    BY DEF AcquireProbe
  <2>2. stamp[w] + OpenDuration \in Nat
    OBVIOUS
  <2> QED
    BY Zenon, <2>1, <2>2
<1>6. HasJob'
  BY <1>1 DEF AcquireProbe, HasJob, Busy
<1>7. UNCHANGED <<now, row, log, letters, ops, shutdown, batch, count, cur,
                  seen, result, fresh, acked>>
  BY DEF AcquireProbe
<1> QED
  BY <1>3, <1>4, <1>5, <1>6, <1>7

LEMMA DeferType ==
  ASSUME TypeInv, NEW w \in Worker, Defer(w)
  PROVE  TypeInv'
<1> USE DEF TypeInv, TypeOK
<1>1. cur[w] \in Delivery /\ pc[w] \in Busy
  BY DEF Defer, HasJob, Busy
<1>2. Released("failed", stamp[w], row[cur[w]].tries) \in Row
  BY Zenon, <1>1, ReleasedType DEF Row, Status
<1>3. row' \in [Delivery -> Row]
  BY <1>1, <1>2 DEF Defer
<1> QED
  BY Zenon, <1>1, <1>3, DoneType DEF Defer

LEMMA SendType ==
  ASSUME TypeInv, NEW w \in Worker, Unsendable(w) \/ Respond(w)
  PROVE  TypeInv'
<1> USE DEF TypeInv, TypeOK, HasJob, Busy, PC, dbVars
<1>1. CASE Unsendable(w)
  BY <1>1 DEF Unsendable
<1>2. CASE Respond(w)
  <2>1. cur[w] \in Delivery /\ acked' \in SUBSET Delivery
    BY <1>2 DEF Respond
  <2>2. result' \in [Worker -> {"none", "ok", "fail", "poison"}]
    BY Zenon, <1>2 DEF Respond
  <2> QED
    BY <1>2, <2>1, <2>2 DEF Respond
<1> QED
  BY <1>1, <1>2

LEMMA RecordType ==
  ASSUME TypeInv, NEW w \in Worker, cur[w] \in Delivery, record_attempt(w)
  PROVE  log' \in [Delivery -> Seq(Attempt)]
<1> USE DEF TypeInv, TypeOK
<1>1. [number |-> attempt_number(w), ok |-> result[w] = "ok"] \in Attempt
  BY DEF attempt_number, Attempt
<1>2. Append(log[cur[w]], [number |-> attempt_number(w), ok |-> result[w] = "ok"]) \in Seq(Attempt)
  BY <1>1
<1> QED
  BY <1>2 DEF record_attempt

LEMMA CommitType ==
  ASSUME TypeInv, NEW w \in Worker,
         \/ CommitSuccess(w) \/ CommitRetry(w) \/ CommitExhausted(w) \/ CommitPoison(w)
  PROVE  TypeInv'
<1> USE DEF TypeInv, TypeOK
<1> DEFINE d == cur[w]
<1>1. d \in Delivery /\ pc[w] \in Busy /\ Done(w)
  BY DEF CommitSuccess, CommitRetry, CommitExhausted, CommitPoison, HasJob, Busy
<1>2. attempt_number(w) \in Nat /\ row[d] \in Row /\ row[d].next \in Nat /\ row[d].tries \in Nat
  BY <1>1 DEF attempt_number, Row
<1>3. CASE CommitSuccess(w)
  <2>1. row' \in [Delivery -> Row]
    BY <1>1, <1>2, <1>3, ReleasedType DEF CommitSuccess, Status
  <2>2. ep' \in [Endpoint -> EndpointRow]
    BY <1>1, <1>3, SuccessType DEF CommitSuccess
  <2> QED
    BY Zenon, <1>1, <1>3, <2>1, <2>2, DoneType, RecordType DEF CommitSuccess
<1>4. CASE CommitRetry(w)
  <2>1. PICK t \in stamp[w] .. now, delay \in backoff(attempt_number(w)) :
          /\ row' = [row EXCEPT ![d] = Released("failed", t + delay, attempt_number(w))]
          /\ \E u \in t .. now : FailCircuit(w, u)
    BY Zenon, <1>4 DEF CommitRetry
  <2>2. t \in Nat /\ delay \in Nat
    BY <2>1 DEF backoff
  <2>3. row' \in [Delivery -> Row]
    BY <1>1, <1>2, <2>1, <2>2, ReleasedType DEF Status
  <2>4. ep' \in [Endpoint -> EndpointRow]
    <3>1. PICK u \in t .. now : FailCircuit(w, u)
      BY <2>1
    <3>2. on_failure(ep[EndpointOf[d]], seen[w], u) \in EndpointRow
      BY <1>1, <2>2, FailureType
    <3> QED
      BY <1>1, <3>1, <3>2 DEF FailCircuit
  <2>5. record_attempt(w) /\ UNCHANGED <<now, letters, ops, shutdown, acked>>
    BY <1>4 DEF CommitRetry
  <2> QED
    BY Zenon, <1>1, <2>3, <2>4, <2>5, DoneType, RecordType
<1>5. CASE CommitExhausted(w)
  <2>1. row' \in [Delivery -> Row]
    BY <1>1, <1>2, <1>5, ReleasedType DEF CommitExhausted, Status
  <2>2. ep' \in [Endpoint -> EndpointRow]
    BY <1>1, <1>5, FailureType DEF CommitExhausted, FailCircuit
  <2>3. letters' \in [Delivery -> Nat]
    BY <1>1, <1>5 DEF CommitExhausted
  <2>4. record_attempt(w) /\ UNCHANGED <<now, ops, shutdown, acked>>
    BY <1>5 DEF CommitExhausted
  <2> QED
    BY Zenon, <1>1, <2>1, <2>2, <2>3, <2>4, DoneType, RecordType
<1>6. CASE CommitPoison(w)
  <2>1. row' \in [Delivery -> Row]
    BY <1>1, <1>2, <1>6, ReleasedType DEF CommitPoison, Status
  <2> QED
    BY <1>1, <1>6, <2>1, DoneType DEF CommitPoison
<1> QED
  BY <1>3, <1>4, <1>5, <1>6

LEMMA GiveUpType ==
  ASSUME TypeInv, NEW w \in Worker, Abandon(w) \/ DbError(w)
  PROVE  TypeInv'
<1>1. pc[w] \in Busy /\ Done(w)
  BY DEF Abandon, DbError, Busy
<1>2. UNCHANGED <<now, row, ep, log, letters, ops, shutdown, acked>>
  BY DEF Abandon, DbError, dbVars
<1> QED
  BY <1>1, <1>2, DoneType DEF TypeInv, TypeOK

LEMMA EnvType ==
  ASSUME TypeInv,
         \/ \E d \in Delivery : Enqueue(d) \/ Replay(d)
         \/ \E e \in Endpoint : SetDisabled(e)
         \/ \E n \in Node : Shutdown(n)
         \/ Tick
  PROVE  TypeInv'
<1> USE DEF TypeInv, TypeOK, workerVars, jobVars, dbVars, HasJob, OperatorCall
<1>1. ASSUME NEW d \in Delivery, Enqueue(d) \/ Replay(d)
      PROVE  TypeInv'
  <2>1. row[d].tries \in Nat
    BY DEF Row
  <2>2. \A n \in Nat, k \in Nat : Released("pending", n, k) \in Row
    BY ReleasedType DEF Status
  <2>3. Enqueue(d) => row' \in [Delivery -> Row]
    BY <2>2 DEF Enqueue
  <2>4. Replay(d) => row' \in [Delivery -> Row]
    BY <2>1, <2>2 DEF Replay
  <2>5. ops' \in Nat /\ UNCHANGED <<now, ep, log, letters, shutdown, workerVars, acked>>
    BY <1>1 DEF Enqueue, Replay
  <2> QED
    BY <1>1, <2>3, <2>4, <2>5
<1>2. ASSUME NEW e \in Endpoint, SetDisabled(e)
      PROVE  TypeInv'
  <2>1. ep' \in [Endpoint -> EndpointRow]
    BY <1>2 DEF SetDisabled, EndpointRow
  <2>2. ops' \in Nat /\ UNCHANGED <<now, row, log, letters, shutdown, workerVars, acked>>
    BY <1>2 DEF SetDisabled
  <2> QED
    BY <2>1, <2>2
<1>3. ASSUME NEW n \in Node, Shutdown(n)
      PROVE  TypeInv'
  BY <1>3 DEF Shutdown
<1>4. CASE Tick
  BY <1>4 DEF Tick
<1> QED
  BY <1>1, <1>2, <1>3, <1>4

LEMMA RestartType ==
  ASSUME TypeInv, NEW n \in Node, Restart(n)
  PROVE  TypeInv'
BY NewRowType DEF TypeInv, TypeOK, Restart, HasJob, Busy, PC, dbVars

LEMMA NextType == TypeInv /\ [Next]_vars => TypeInv'
<1> SUFFICES ASSUME TypeInv, [Next]_vars
             PROVE  TypeInv'
  OBVIOUS
<1>1. ASSUME NEW w \in Worker, WorkerStep(w)
      PROVE  TypeInv'
  BY <1>1, ClaimType, BeginType, StopType, LoadEndpointType, AcquireProbeType,
     DeferType, SendType, CommitType, GiveUpType DEF WorkerStep
<1>2. CASE UNCHANGED vars
  BY <1>2 DEF TypeInv, TypeOK, HasJob, vars, dbVars, workerVars, jobVars
<1> QED
  BY <1>1, <1>2, EnvType, RestartType DEF Next

\* Every behaviour of the dispatcher is well typed, and a worker that processes
\* a delivery has one.
THEOREM TypeCorrect == Spec => [](TypeOK /\ HasJob)
BY InitType, NextType, PTL DEF Spec, TypeInv

-----------------------------------------------------------------------------
(* How a step can change the deliveries table *)

Settling == {"pending", "failed", "succeeded", "dead"}

LEMMA RowStep ==
  ASSUME TypeInv, [Next]_vars
  PROVE  \/ row' = row
         \/ \E w \in Worker, S \in SUBSET Delivery :
              /\ Claim(w)
              /\ row' = [d \in Delivery |-> IF d \in S THEN Leased(row[d], w) ELSE row[d]]
              /\ \A d \in S : row[d].status # "absent"
         \/ \E d \in Delivery, s \in Settling, n \in Nat, k \in Nat :
              row' = [row EXCEPT ![d] = Released(s, n, k)]
<1> USE DEF TypeInv, TypeOK
<1> DEFINE Settles == \E d \in Delivery, s \in Settling, n \in Nat, k \in Nat :
                        row' = [row EXCEPT ![d] = Released(s, n, k)]
<1>1. ASSUME NEW d \in Delivery, NEW s \in Settling, NEW n \in Nat, NEW k \in Nat,
             row' = [row EXCEPT ![d] = Released(s, n, k)]
      PROVE  Settles
  BY Zenon, <1>1
<1>2. \A d \in Delivery : row[d].next \in Nat /\ row[d].tries \in Nat
  BY DEF Row
<1>3. ASSUME NEW w \in Worker, WorkerStep(w)
      PROVE  \/ row' = row
             \/ \E S \in SUBSET Delivery :
                  /\ Claim(w)
                  /\ row' = [d \in Delivery |-> IF d \in S THEN Leased(row[d], w) ELSE row[d]]
                  /\ \A d \in S : row[d].status # "absent"
             \/ Settles
  <2> DEFINE d == cur[w]
  <2>1. pc[w] \in Busy => d \in Delivery
    BY DEF HasJob
  <2>2. d \in Delivery => attempt_number(w) \in Nat
    BY DEF attempt_number
  <2>3. CASE Claim(w)
    BY Zenon, <2>3 DEF Claim, FirstDue, Due
  <2>4. CASE Defer(w)
    <3>1. d \in Delivery
      BY <2>1, <2>4 DEF Defer, Busy
    <3>2. row' = row \/ row' = [row EXCEPT ![d] = Released("failed", stamp[w], row[d].tries)]
      BY <2>4 DEF Defer
    <3> QED
      BY <1>1, <1>2, <3>1, <3>2 DEF Settling
  <2>5. CASE CommitSuccess(w)
    <3>1. d \in Delivery /\ row' = [row EXCEPT ![d] = Released("succeeded", row[d].next, attempt_number(w))]
      BY <2>1, <2>5 DEF CommitSuccess, Busy
    <3> QED
      BY Zenon, <1>1, <1>2, <2>2, <3>1 DEF Settling
  <2>6. CASE CommitRetry(w)
    <3>1. d \in Delivery
      BY <2>1, <2>6 DEF CommitRetry, Busy
    <3>2. PICK t \in stamp[w] .. now, delay \in backoff(attempt_number(w)) :
            row' = [row EXCEPT ![d] = Released("failed", t + delay, attempt_number(w))]
      BY Zenon, <2>6 DEF CommitRetry
    <3>3. t + delay \in Nat
      BY DEF backoff
    <3> QED
      BY Zenon, <1>1, <2>2, <3>1, <3>2, <3>3 DEF Settling
  <2>7. CASE CommitExhausted(w) \/ CommitPoison(w)
    <3>1. d \in Delivery /\ row' = [row EXCEPT ![d] = Released("dead", row[d].next, row[d].tries)]
      BY <2>1, <2>7 DEF CommitExhausted, CommitPoison, Busy
    <3> QED
      BY Zenon, <1>1, <1>2, <3>1 DEF Settling
  <2>8. CASE \/ \E c \in Delivery : Begin(w, c)
             \/ Stop(w) \/ LoadEndpoint(w) \/ AcquireProbe(w) \/ Unsendable(w)
             \/ Respond(w) \/ Abandon(w) \/ DbError(w)
    BY Zenon, <2>8 DEF Begin, Stop, LoadEndpoint, AcquireProbe, Unsendable, Respond,
                Abandon, DbError, dbVars
  <2> QED
    BY Zenon, <1>3, <2>3, <2>4, <2>5, <2>6, <2>7, <2>8 DEF WorkerStep
<1>4. ASSUME NEW d \in Delivery, Enqueue(d) \/ Replay(d)
      PROVE  Settles
  <2>1. \/ row' = [row EXCEPT ![d] = Released("pending", now, 0)]
        \/ row' = [row EXCEPT ![d] = Released("pending", now, row[d].tries)]
    BY <1>4 DEF Enqueue, Replay
  <2> QED
    BY <1>1, <1>2, <2>1 DEF Settling
<1>5. ASSUME \/ \E e \in Endpoint : SetDisabled(e)
             \/ \E n \in Node : Shutdown(n) \/ Restart(n)
             \/ Tick
             \/ UNCHANGED vars
      PROVE  row' = row
  BY <1>5 DEF SetDisabled, Shutdown, Restart, Tick, vars, dbVars
<1> QED
  BY Zenon, <1>3, <1>4, <1>5 DEF Next

LEMMA IdType ==
  ASSUME NEW w \in Worker
  PROVE  Id(w) \in WorkerId /\ Id(w) # Nobody
BY DEF Id, Worker, WorkerId, Nobody

\* No step leaves a lock column behind.
LEMMA LeaseStep ==
  ASSUME TypeInv, LeaseCoherent, [Next]_vars
  PROVE  LeaseCoherent'
<1> USE DEF TypeInv, TypeOK, LeaseCoherent
<1>2. ASSUME NEW w \in Worker, NEW S \in SUBSET Delivery,
             row' = [d \in Delivery |-> IF d \in S THEN Leased(row[d], w) ELSE row[d]]
      PROVE  LeaseCoherent'
  <2>1. \A d \in S : /\ Leased(row[d], w).status = "in_progress"
                     /\ Leased(row[d], w).by # Nobody
                     /\ Leased(row[d], w).until # NoTime
    BY IdType DEF Leased, NoTime
  <2> QED
    BY <1>2, <2>1
<1>3. ASSUME NEW d \in Delivery, NEW s \in Settling, NEW n \in Nat, NEW k \in Nat,
             row' = [row EXCEPT ![d] = Released(s, n, k)]
      PROVE  LeaseCoherent'
  BY <1>3 DEF Released, Settling
<1>4. row' = row => LeaseCoherent'
  OBVIOUS
<1> HIDE DEF TypeInv, TypeOK, LeaseCoherent
<1> QED
  BY RowStep, <1>2, <1>3, <1>4

\* The lease guard only passes on a row in progress.
LEMMA HoldsInProgress ==
  ASSUME TypeInv, LeaseCoherent, NEW w \in Worker, NEW d \in Delivery, NEW t, Holds(w, d, t)
  PROVE  row[d].status = "in_progress"
<1>1. row[d].by # Nobody
  BY IdType DEF Holds
<1> QED
  BY <1>1 DEF LeaseCoherent

-----------------------------------------------------------------------------
(* The circuit breaker *)

LEMMA SuccessCoherent == \A e : Coherent(on_success(e))
BY DEF Coherent, on_success, update_circuit, NoTime

LEMMA FailureCoherent ==
  ASSUME NEW e, NEW s \in EndpointRow, NEW t \in Nat
  PROVE  Coherent(on_failure(e, s, t))
<1> DEFINE f == SaturatingSucc(s.failures)
<1>1. f \in Nat /\ t + OpenDuration \in Nat
  BY DEF SaturatingSucc, EndpointRow
<1>2. CASE f >= FailureThreshold
  BY <1>1, <1>2 DEF Coherent, on_failure, update_circuit, NoTime
<1>3. CASE ~(f >= FailureThreshold)
  BY <1>1, <1>3 DEF Coherent, on_failure, update_circuit, NoTime
<1> QED
  BY <1>2, <1>3

LEMMA ProbeCoherent ==
  ASSUME NEW e \in EndpointRow, NEW t \in Nat, Coherent(e), ProbeFree(e, t)
  PROVE  Coherent(acquire_probe(e, t))
BY DEF Coherent, acquire_probe, update_circuit, ProbeFree, EndpointRow, NoTime

LEMMA NewEndpointCoherent == Coherent(NewEndpoint)
BY DEF Coherent, NewEndpoint, NoTime

-----------------------------------------------------------------------------
(* The inductive invariant *)

\* The shape of run_worker's loop: a delivery in process has left the batch, and
\* nothing is left in memory between two rounds.
LoopInv ==
  \A w \in Worker :
    /\ cur[w] \notin batch[w]
    /\ pc[w] \notin Busy => cur[w] = NoDelivery
    /\ pc[w] \in {"idle", "stopped"} => batch[w] = {}

\* Nobody runs ahead of the log: neither attempt_count nor a claimed copy of it.
CountsBelowLog ==
  /\ \A d \in Delivery : row[d].tries <= Len(log[d])
  /\ \A w \in Worker : \A d \in Copies(w) : count[w][d] <= Len(log[d])

\* Workers only hold deliveries that exist.
CopiesExist == \A w \in Worker : \A d \in Copies(w) : row[d].status # "absent"

\* The outcome about to be committed is what happened.
OutcomeTrue ==
  \A w \in Worker : pc[w] = "commit" =>
    /\ result[w] = "ok" => cur[w] \in acked
    /\ result[w] = "poison" => cur[w] \in Poison

\* A worker's snapshot of an endpoint row is stale but coherent.
SeenCoherent == \A w \in Worker : Coherent(seen[w])

SafetyInv ==
  /\ LoopInv
  /\ LeaseCoherent
  /\ CircuitCoherent
  /\ SeenCoherent
  /\ CountsBelowLog
  /\ CopiesExist
  /\ OutcomeTrue
  /\ DeadOnlyExhausted
  /\ SucceededRecorded

-----------------------------------------------------------------------------
(* The circuit breaker *)

LEMMA CircuitStep ==
  ASSUME TypeInv, CircuitCoherent, SeenCoherent, [Next]_vars
  PROVE  CircuitCoherent' /\ SeenCoherent'
<1> USE DEF TypeInv, TypeOK
<1>1. ASSUME NEW e \in Endpoint, NEW x, Coherent(x), ep' = [ep EXCEPT ![e] = x]
      PROVE  CircuitCoherent'
  BY <1>1 DEF CircuitCoherent
<1>2. ASSUME NEW w \in Worker, NEW x, Coherent(x), seen' = [seen EXCEPT ![w] = x]
      PROVE  SeenCoherent'
  BY <1>2 DEF SeenCoherent
<1>3. ASSUME ep' = ep PROVE CircuitCoherent'
  BY <1>3 DEF CircuitCoherent
<1>4. ASSUME seen' = seen PROVE SeenCoherent'
  BY <1>4 DEF SeenCoherent
<1>5. ASSUME NEW w \in Worker, Done(w) PROVE SeenCoherent'
  BY Zenon, <1>2, <1>5, NewEndpointCoherent DEF Done
<1>6. ASSUME NEW w \in Worker, WorkerStep(w)
      PROVE  CircuitCoherent' /\ SeenCoherent'
  <2> DEFINE e == EndpointOf[cur[w]]
  <2>1. pc[w] \in Busy => e \in Endpoint
    BY DEF HasJob
  <2>2. CASE LoadEndpoint(w)
    <3>1. Coherent(ep[e]) /\ seen' = [seen EXCEPT ![w] = ep[e]] /\ ep' = ep
      BY <2>1, <2>2 DEF LoadEndpoint, Busy, CircuitCoherent, dbVars
    <3> QED
      BY Zenon, <1>2, <1>3, <3>1
  <2>3. CASE AcquireProbe(w)
    <3>1. seen' = seen /\ e \in Endpoint
      BY <2>1, <2>3 DEF AcquireProbe, Busy
    <3>2. CASE ProbeFree(ep[e], now)
      <4>1. ep' = [ep EXCEPT ![e] = acquire_probe(ep[e], now)]
        BY <2>3, <3>2 DEF AcquireProbe
      <4>2. Coherent(acquire_probe(ep[e], now))
        BY <3>1, <3>2, ProbeCoherent DEF CircuitCoherent
      <4> QED
        BY Zenon, <1>1, <1>4, <3>1, <4>1, <4>2
    <3>3. CASE ~ProbeFree(ep[e], now)
      BY <1>3, <1>4, <2>3, <3>1, <3>3 DEF AcquireProbe
    <3> QED
      BY <3>2, <3>3
  <2>4. CASE CommitSuccess(w)
    <3>1. Done(w) /\ e \in Endpoint /\ ep' = [ep EXCEPT ![e] = on_success(ep[e])]
      BY <2>1, <2>4 DEF CommitSuccess, Busy
    <3> QED
      BY Zenon, <1>1, <1>5, <3>1, SuccessCoherent
  <2>5. CASE CommitRetry(w) \/ CommitExhausted(w)
    <3>1. Done(w) /\ e \in Endpoint /\ stamp[w] \in Nat
      BY <2>1, <2>5 DEF CommitRetry, CommitExhausted, Busy
    <3>2. PICK u \in Nat : ep' = [ep EXCEPT ![e] = on_failure(ep[e], seen[w], u)]
      BY <2>5 DEF CommitRetry, CommitExhausted, FailCircuit
    <3>3. Coherent(on_failure(ep[e], seen[w], u))
      BY FailureCoherent
    <3> QED
      BY Zenon, <1>1, <1>5, <3>1, <3>2, <3>3
  <2>6. CASE Defer(w) \/ CommitPoison(w) \/ Abandon(w) \/ DbError(w)
    <3>1. Done(w) /\ ep' = ep
      BY <2>6 DEF Defer, CommitPoison, Abandon, DbError, dbVars
    <3> QED
      BY <1>3, <1>5, <3>1
  <2>7. CASE \/ \E d \in Delivery : Begin(w, d)
             \/ Claim(w) \/ Stop(w) \/ Unsendable(w) \/ Respond(w)
    <3>1. ep' = ep /\ seen' = seen
      BY <2>7 DEF Begin, Claim, Stop, Unsendable, Respond, dbVars, jobVars
    <3> QED
      BY <1>3, <1>4, <3>1
  <2> QED
    BY <1>6, <2>2, <2>3, <2>4, <2>5, <2>6, <2>7 DEF WorkerStep
<1>7. ASSUME NEW e \in Endpoint, SetDisabled(e)
      PROVE  CircuitCoherent' /\ SeenCoherent'
  <2> DEFINE x == [disabled |-> ~ep[e].disabled, state |-> ep[e].state,
                   open_until |-> ep[e].open_until, failures |-> ep[e].failures]
  <2>1. ep' = [ep EXCEPT ![e] = x] /\ seen' = seen
    BY <1>7 DEF SetDisabled, workerVars, jobVars
  <2>2. Coherent(x)
    BY DEF CircuitCoherent, Coherent
  <2> QED
    BY Zenon, <1>1, <1>4, <2>1, <2>2
<1>8. ASSUME NEW n \in Node, Restart(n)
      PROVE  CircuitCoherent' /\ SeenCoherent'
  BY <1>3, <1>8, NewEndpointCoherent DEF Restart, SeenCoherent, dbVars
<1>9. ASSUME \/ \E d \in Delivery : Enqueue(d) \/ Replay(d)
             \/ \E n \in Node : Shutdown(n)
             \/ Tick
             \/ UNCHANGED vars
      PROVE  CircuitCoherent' /\ SeenCoherent'
  <2>1. ep' = ep /\ seen' = seen
    BY <1>9 DEF Enqueue, Replay, Shutdown, Tick, vars, workerVars, jobVars, dbVars
  <2> QED
    BY <1>3, <1>4, <2>1
<1> QED
  BY <1>6, <1>7, <1>8, <1>9 DEF Next

-----------------------------------------------------------------------------
(* What workers hold in memory *)

LEMMA DoneLoop ==
  ASSUME TypeInv, LoopInv, NEW w \in Worker, Done(w)
  PROVE  LoopInv'
<1> USE DEF TypeInv, TypeOK, LoopInv, Busy, PC
<1>1. batch' = batch /\ cur' = [cur EXCEPT ![w] = NoDelivery]
  BY DEF Done
<1>2. pc' = [pc EXCEPT ![w] = IF batch[w] = {} THEN "idle" ELSE "batch"]
  BY DEF Done
<1>3. ASSUME NEW x \in Worker
      PROVE  /\ cur'[x] \notin batch'[x]
             /\ pc'[x] \notin Busy => cur'[x] = NoDelivery
             /\ pc'[x] \in {"idle", "stopped"} => batch'[x] = {}
  BY <1>1, <1>2
<1> QED
  BY <1>3

LEMMA LoopStep ==
  ASSUME TypeInv, LoopInv, [Next]_vars
  PROVE  LoopInv'
<1> USE DEF TypeInv, TypeOK
<1>1. ASSUME NEW w \in Worker, WorkerStep(w)
      PROVE  LoopInv'
  <2>1. CASE Claim(w)
    <3>1. PICK S \in SUBSET Delivery : batch' = [batch EXCEPT ![w] = S]
      BY Zenon, <2>1 DEF Claim
    <3>2. pc[w] = "idle" /\ pc' = [pc EXCEPT ![w] = "batch"] /\ cur' = cur
      BY <2>1 DEF Claim, jobVars
    <3> QED
      BY <3>1, <3>2 DEF LoopInv, Busy
  <2>2. ASSUME NEW d \in Delivery, Begin(w, d)
        PROVE  LoopInv'
    BY <2>2 DEF Begin, LoopInv, Busy
  <2>3. CASE Stop(w)
    BY <2>3 DEF Stop, LoopInv, Busy, jobVars
  <2>4. CASE LoadEndpoint(w)
    <3>1. batch' = batch /\ cur' = cur /\ pc[w] = "load"
      BY <2>4 DEF LoadEndpoint
    <3>2. \E p \in {"defer", "probe", "send"} : pc' = [pc EXCEPT ![w] = p]
      BY <2>4 DEF LoadEndpoint
    <3> QED
      BY <3>1, <3>2 DEF LoopInv, Busy
  <2>5. CASE AcquireProbe(w)
    <3>1. batch' = batch /\ cur' = cur /\ pc[w] = "probe"
      BY <2>5 DEF AcquireProbe
    <3>2. \E p \in {"defer", "send"} : pc' = [pc EXCEPT ![w] = p]
      BY <2>5 DEF AcquireProbe
    <3> QED
      BY <3>1, <3>2 DEF LoopInv, Busy
  <2>6. CASE Unsendable(w) \/ Respond(w)
    <3>1. batch' = batch /\ cur' = cur /\ pc[w] = "send" /\ pc' = [pc EXCEPT ![w] = "commit"]
      BY <2>6 DEF Unsendable, Respond
    <3> QED
      BY <3>1 DEF LoopInv, Busy
  <2>7. CASE \/ Defer(w) \/ CommitSuccess(w) \/ CommitRetry(w) \/ CommitExhausted(w)
             \/ CommitPoison(w) \/ Abandon(w) \/ DbError(w)
    <3>1. Done(w)
      BY <2>7 DEF Defer, CommitSuccess, CommitRetry, CommitExhausted, CommitPoison,
                  Abandon, DbError
    <3> QED
      BY <3>1, DoneLoop
  <2> QED
    BY <1>1, <2>1, <2>2, <2>3, <2>4, <2>5, <2>6, <2>7 DEF WorkerStep
<1>2. ASSUME NEW n \in Node, Restart(n)
      PROVE  LoopInv'
  BY <1>2 DEF Restart, LoopInv, Busy
<1>3. ASSUME \/ \E d \in Delivery : Enqueue(d) \/ Replay(d)
             \/ \E e \in Endpoint : SetDisabled(e)
             \/ \E n \in Node : Shutdown(n)
             \/ Tick
             \/ UNCHANGED vars
      PROVE  LoopInv'
  <2>1. pc' = pc /\ cur' = cur /\ batch' = batch
    BY Zenon, <1>3 DEF Enqueue, Replay, SetDisabled, Shutdown, Tick, vars, workerVars, jobVars
  <2> QED
    BY <2>1 DEF LoopInv
<1> QED
  BY <1>1, <1>2, <1>3 DEF Next

\* A copy is either kept, with its attempt_count, or taken by a claim.
LEMMA CopiesStep ==
  ASSUME TypeInv, LoopInv, [Next]_vars, NEW x \in Worker, NEW d \in Copies(x)'
  PROVE  /\ d \in Delivery
         /\ \/ d \in Copies(x) /\ count'[x][d] = count[x][d]
            \/ Claim(x) /\ row[d].status # "absent" /\ count'[x][d] = row[d].tries
<1> DEFINE Kept == d \in Copies(x) /\ count'[x][d] = count[x][d]
           Taken == Claim(x) /\ row[d].status # "absent" /\ count'[x][d] = row[d].tries
<1>1. d \in batch'[x] \/ (d = cur'[x] /\ d # NoDelivery)
  BY DEF Copies
<1>2. TypeInv'
  BY NextType
<1>3. d \in Delivery
  <2>1. /\ batch' \in [Worker -> SUBSET Delivery]
        /\ cur' \in [Worker -> Delivery \cup {NoDelivery}]
    BY <1>2 DEF TypeInv, TypeOK
  <2> QED
    BY <1>1, <2>1
<1> USE DEF TypeInv, TypeOK
<1>4. ASSUME batch'[x] = batch[x], cur'[x] = cur[x], count'[x] = count[x]
      PROVE  Kept
  BY <1>1, <1>4 DEF Copies
<1>5. ASSUME NEW w \in Worker, Done(w)
      PROVE  Kept
  <2>1. batch' = batch /\ cur' = [cur EXCEPT ![w] = NoDelivery]
    BY <1>5 DEF Done
  <2>2. count' = [count EXCEPT ![w][cur[w]] = 0]
    BY <1>5 DEF Done
  <2>3. CASE x # w
    BY <1>4, <2>1, <2>2, <2>3
  <2>4. CASE x = w
    <3>1. d \in batch[x] /\ d # cur[x]
      BY <1>1, <2>1, <2>4 DEF LoopInv
    <3> QED
      BY <1>3, <2>2, <2>4, <3>1 DEF Copies
  <2> QED
    BY <2>3, <2>4
<1>6. ASSUME NEW w \in Worker, WorkerStep(w)
      PROVE  Kept \/ Taken
  <2>1. CASE Claim(w)
    <3>1. PICK S \in SUBSET Delivery :
            /\ FirstDue(S)
            /\ batch' = [batch EXCEPT ![w] = S]
            /\ count' = [count EXCEPT ![w] =
                           [c \in Delivery |-> IF c \in S THEN row[c].tries ELSE 0]]
      BY Zenon, <2>1 DEF Claim
    <3>2. cur' = cur /\ pc[w] = "idle"
      BY <2>1 DEF Claim, jobVars
    <3>3. CASE x # w
      BY <1>4, <3>1, <3>2, <3>3
    <3>4. CASE x = w
      <4>1. d \in S
        BY Zenon, <1>1, <3>1, <3>2, <3>4 DEF LoopInv, Busy
      <4>2. row[d].status # "absent"
        BY Zenon, <3>1, <4>1 DEF FirstDue, Due
      <4>3. count'[x][d] = row[d].tries
        BY <1>3, <3>1, <3>4, <4>1
      <4> QED
        BY <2>1, <3>4, <4>2, <4>3
    <3> QED
      BY <3>3, <3>4
  <2>2. ASSUME NEW c \in Delivery, Begin(w, c)
        PROVE  Kept
    BY <1>1, <2>2 DEF Begin, Copies
  <2>3. CASE Stop(w)
    <3>1. /\ cur' = cur /\ batch' = [batch EXCEPT ![w] = {}]
          /\ count' = [count EXCEPT ![w] = [c \in Delivery |-> 0]]
          /\ pc[w] \in {"idle", "batch"}
      BY <2>3 DEF Stop, jobVars
    <3>2. x # w
      BY Zenon, <1>1, <3>1 DEF LoopInv, Busy
    <3> QED
      BY <1>4, <3>1, <3>2
  <2>4. CASE LoadEndpoint(w) \/ AcquireProbe(w) \/ Unsendable(w) \/ Respond(w)
    <3>1. batch' = batch /\ cur' = cur /\ count' = count
      BY <2>4 DEF LoadEndpoint, AcquireProbe, Unsendable, Respond
    <3> QED
      BY <1>4, <3>1
  <2>5. CASE \/ Defer(w) \/ CommitSuccess(w) \/ CommitRetry(w) \/ CommitExhausted(w)
             \/ CommitPoison(w) \/ Abandon(w) \/ DbError(w)
    <3>1. Done(w)
      BY <2>5 DEF Defer, CommitSuccess, CommitRetry, CommitExhausted, CommitPoison,
                  Abandon, DbError
    <3> QED
      BY <3>1, <1>5
  <2> QED
    BY Zenon, <1>6, <2>1, <2>2, <2>3, <2>4, <2>5 DEF WorkerStep
<1>7. ASSUME NEW n \in Node, Restart(n)
      PROVE  Kept
  BY <1>1, <1>4, <1>7 DEF Restart
<1>8. ASSUME \/ \E c \in Delivery : Enqueue(c) \/ Replay(c)
             \/ \E e \in Endpoint : SetDisabled(e)
             \/ \E n \in Node : Shutdown(n)
             \/ Tick
             \/ UNCHANGED vars
      PROVE  Kept
  <2>1. batch' = batch /\ cur' = cur /\ count' = count
    BY Zenon, <1>8 DEF Enqueue, Replay, SetDisabled, Shutdown, Tick, vars, workerVars, jobVars
  <2> QED
    BY <1>4, <2>1
<1> QED
  BY <1>3, <1>6, <1>7, <1>8 DEF Next

\* The log of a delivery only grows, by the attempt of a worker that commits.
LEMMA LogStep ==
  ASSUME TypeInv, [Next]_vars
  PROVE  /\ \/ log' = log
            \/ \E w \in Worker : /\ pc[w] = "commit" /\ cur[w] \in Delivery
                                 /\ record_attempt(w)
         /\ \A d \in Delivery : Len(log[d]) <= Len(log'[d])
<1> USE DEF TypeInv, TypeOK
<1> DEFINE Records1 == \E w \in Worker : /\ pc[w] = "commit" /\ cur[w] \in Delivery
                                         /\ record_attempt(w)
<1>1. ASSUME NEW w \in Worker, WorkerStep(w)
      PROVE  log' = log \/ Records1
  <2>1. CASE CommitSuccess(w) \/ CommitRetry(w) \/ CommitExhausted(w)
    <3>1. pc[w] = "commit" /\ record_attempt(w)
      BY <2>1 DEF CommitSuccess, CommitRetry, CommitExhausted
    <3>2. cur[w] \in Delivery
      BY <3>1 DEF HasJob, Busy
    <3> QED
      BY <3>1, <3>2
  <2>2. CASE \/ \E c \in Delivery : Begin(w, c)
             \/ Claim(w) \/ Stop(w) \/ LoadEndpoint(w) \/ AcquireProbe(w) \/ Defer(w)
             \/ Unsendable(w) \/ Respond(w) \/ CommitPoison(w) \/ Abandon(w) \/ DbError(w)
    BY Zenon, <2>2 DEF Begin, Claim, Stop, LoadEndpoint, AcquireProbe, Defer, Unsendable,
                Respond, CommitPoison, Abandon, DbError, dbVars
  <2> QED
    BY <1>1, <2>1, <2>2 DEF WorkerStep
<1>2. ASSUME \/ \E d \in Delivery : Enqueue(d) \/ Replay(d)
             \/ \E e \in Endpoint : SetDisabled(e)
             \/ \E n \in Node : Shutdown(n) \/ Restart(n)
             \/ Tick
             \/ UNCHANGED vars
      PROVE  log' = log
  BY <1>2 DEF Enqueue, Replay, SetDisabled, Shutdown, Restart, Tick, vars, dbVars
<1>3. log' = log \/ Records1
  BY <1>1, <1>2 DEF Next
<1>4. ASSUME NEW w \in Worker, cur[w] \in Delivery, record_attempt(w),
             NEW d \in Delivery
      PROVE  Len(log[d]) <= Len(log'[d])
  <2> DEFINE a == [number |-> attempt_number(w), ok |-> result[w] = "ok"]
  <2>1. log' = [log EXCEPT ![cur[w]] = Append(@, a)]
    BY <1>4 DEF record_attempt
  <2>2. log[d] \in Seq(Attempt)
    OBVIOUS
  <2> HIDE DEF a
  <2>3. Len(Append(log[d], a)) = Len(log[d]) + 1
    BY <2>2
  <2> QED
    BY <1>4, <2>1, <2>2, <2>3
<1>5. \A d \in Delivery : Len(log[d]) \in Nat
  OBVIOUS
<1> QED
  BY <1>3, <1>4, <1>5

LEMMA Recorded ==
  ASSUME TypeInv, NEW w \in Worker, pc[w] = "commit", record_attempt(w)
  PROVE  /\ cur[w] \in Delivery
         /\ attempt_number(w) = count[w][cur[w]] + 1 /\ count[w][cur[w]] \in Nat
         /\ Len(log'[cur[w]]) = Len(log[cur[w]]) + 1
         /\ log'[cur[w]][Len(log'[cur[w]])] =
              [number |-> attempt_number(w), ok |-> result[w] = "ok"]
         /\ \A d \in Delivery : d # cur[w] => log'[d] = log[d]
<1> USE DEF TypeInv, TypeOK
<1> DEFINE a == [number |-> attempt_number(w), ok |-> result[w] = "ok"]
           c == cur[w]
<1>1. c \in Delivery
  BY DEF HasJob, Busy
<1>2. log' = [log EXCEPT ![c] = Append(@, a)]
  BY DEF record_attempt
<1>3. attempt_number(w) = count[w][c] + 1 /\ count[w][c] \in Nat
  BY <1>1 DEF attempt_number
<1>4. a \in Attempt
  <2>1. (result[w] = "ok") \in BOOLEAN /\ attempt_number(w) \in Nat
    BY <1>3
  <2> HIDE DEF TypeInv, TypeOK
  <2> QED
    BY <2>1 DEF Attempt
<1>5. log[c] \in Seq(Attempt)
  BY <1>1
<1> HIDE DEF a
<1>6. /\ Len(Append(log[c], a)) = Len(log[c]) + 1
      /\ Append(log[c], a)[Len(log[c]) + 1] = a
  <2> HIDE DEF TypeInv, TypeOK, c
  <2> QED
    BY <1>4, <1>5
<1>7. log'[c] = Append(log[c], a)
  BY <1>1, <1>2
<1>8. \A d \in Delivery : d # c => log'[d] = log[d]
  BY <1>2
<1> QED
  BY <1>1, <1>3, <1>6, <1>7, <1>8 DEF a

\* The steps that touch a delivery, its log or its dead letters.
LEMMA DbStep ==
  ASSUME TypeInv, [Next]_vars
  PROVE  /\ acked \subseteq acked'
         /\ \/ UNCHANGED <<row, log, letters>>
            \/ \E w \in Worker :
                 \/ Claim(w) \/ Defer(w) \/ CommitSuccess(w) \/ CommitRetry(w)
                 \/ CommitExhausted(w) \/ CommitPoison(w)
            \/ \E d \in Delivery : Enqueue(d) \/ Replay(d)
<1>1. ASSUME NEW w \in Worker, WorkerStep(w)
      PROVE  /\ acked \subseteq acked'
             /\ \/ UNCHANGED <<row, log, letters>>
                \/ Claim(w) \/ Defer(w) \/ CommitSuccess(w) \/ CommitRetry(w)
                \/ CommitExhausted(w) \/ CommitPoison(w)
  <2>1. CASE Respond(w)
    BY <2>1 DEF Respond, dbVars
  <2>2. CASE \/ \E c \in Delivery : Begin(w, c)
             \/ Stop(w) \/ LoadEndpoint(w) \/ AcquireProbe(w) \/ Unsendable(w)
             \/ Abandon(w) \/ DbError(w)
    BY Zenon, <2>2 DEF Begin, Stop, LoadEndpoint, AcquireProbe, Unsendable, Abandon,
                DbError, dbVars
  <2>3. CASE \/ Claim(w) \/ Defer(w) \/ CommitSuccess(w) \/ CommitRetry(w)
             \/ CommitExhausted(w) \/ CommitPoison(w)
    <3>1. acked' = acked
      BY Zenon, <2>3 DEF Claim, Defer, CommitSuccess, CommitRetry, CommitExhausted, CommitPoison
    <3> QED
      BY <2>3, <3>1
  <2> QED
    BY <1>1, <2>1, <2>2, <2>3 DEF WorkerStep
<1>2. ASSUME NEW d \in Delivery, Enqueue(d) \/ Replay(d)
      PROVE  acked' = acked
  BY <1>2 DEF Enqueue, Replay
<1>3. ASSUME \/ \E e \in Endpoint : SetDisabled(e)
             \/ \E n \in Node : Shutdown(n) \/ Restart(n)
             \/ Tick
             \/ UNCHANGED vars
      PROVE  acked' = acked /\ UNCHANGED <<row, log, letters>>
  BY <1>3 DEF SetDisabled, Shutdown, Restart, Tick, vars, dbVars
<1> QED
  BY <1>1, <1>2, <1>3 DEF Next

=============================================================================
