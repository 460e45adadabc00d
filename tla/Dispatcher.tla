----------------------------- MODULE Dispatcher -----------------------------
(***************************************************************************)
(* The delivery dispatcher (dropless-core/src/dispatcher.rs) over the      *)
(* deliveries, endpoints, delivery_attempts and dead_letters tables        *)
(* (dropless-core/src/store.rs).                                           *)
(*                                                                         *)
(* A node is one `dropless' process; it runs WorkerCount tasks, all on the *)
(* same database.  A worker leases a batch of due rows, works through the  *)
(* rows one after the other and releases each with a write that is guarded *)
(* by the lease.  Every statement or transaction on the database is one    *)
(* step; between two steps of a worker anything may happen: the clock      *)
(* advances, leases lapse, other workers, operators and crashes step in.   *)
(* Postgres and the nodes read one clock, `now'.                           *)
(***************************************************************************)
EXTENDS Circuit, Retry, Sequences, FiniteSets

CONSTANTS
  Node,         \* running processes
  WorkerCount,  \* DispatcherConfig.worker_count
  Delivery,     \* ids of delivery rows
  Endpoint,     \* ids of endpoint rows
  EndpointOf,   \* the endpoint_id column of each delivery
  Poison,       \* deliveries whose request cannot be built or signed
  NoDelivery,   \* a worker that is between deliveries
  BatchSize,    \* DispatcherConfig.batch_size
  LockSecs,     \* DispatcherConfig.lock_secs
  RecheckSecs,  \* DISABLED_RECHECK_SECS
  MaxTime,      \* bound: the clock stops here
  MaxOps        \* bound: operator calls (replay, disable, signal) in one behaviour

ASSUME DispatcherAssumption ==
  /\ WorkerCount \in Nat \ {0}
  /\ EndpointOf \in [Delivery -> Endpoint]
  /\ Poison \subseteq Delivery
  /\ NoDelivery \notin Delivery
  /\ BatchSize \in Nat \ {0}
  /\ LockSecs \in Nat \ {0}
  /\ RecheckSecs \in Nat
  /\ MaxTime \in Nat
  /\ MaxOps \in Nat

\* spawn_workers names the tasks of a process worker-0, worker-1, ...  The
\* name is all that locked_by records: it does not name the process.
WorkerId == 0 .. (WorkerCount - 1)
Nobody == -1
Worker == Node \X WorkerId
Id(w) == w[2]

VARIABLES
  now,       \* the clock
  row,       \* deliveries: status, next_attempt_at, lease, attempt_count
  ep,        \* endpoints: disabled flag and circuit breaker
  log,       \* delivery_attempts of each delivery, append-only
  letters,   \* number of dead_letters rows of each delivery
  ops,       \* operator calls so far
  shutdown,  \* the shutdown watch of each node
  pc,        \* where each worker's loop stands
  batch,     \* claimed deliveries the worker has not started
  count,     \* attempt_count in the claimed copy of each delivery
  cur,       \* the delivery the worker processes
  seen,      \* the endpoint row the worker read
  stamp,     \* an instant the worker remembers (see the pc values)
  result,    \* outcome of the attempt
  fresh,     \* history: copies taken by the latest claim of their row
  acked      \* history: deliveries some attempt of which got a 2xx

dbVars == <<row, ep, log, letters>>
jobVars == <<cur, seen, stamp, result>>
workerVars == <<pc, batch, count, jobVars, fresh>>
vars == <<now, dbVars, ops, shutdown, workerVars, acked>>

Status == {"absent", "pending", "in_progress", "failed", "succeeded", "dead"}

Row ==
  [status : Status,
   next : Nat,                       \* next_attempt_at
   by : WorkerId \cup {Nobody},      \* locked_by
   until : Instant,                  \* locked_until
   tries : Nat]                      \* attempt_count

NewRow ==
  [status |-> "absent", next |-> 0, by |-> Nobody, until |-> NoTime, tries |-> 0]

Attempt == [number : Nat, ok : BOOLEAN]

\* "load": about to read the endpoint; stamp is the instant `now' of process_one
\* "probe": about to claim the half-open probe; stamp as in "load"
\* "defer": about to defer the delivery to the instant stamp
\* "send": the request is being built, sent, and its answer awaited
\* "commit": the outcome's transaction has begun at stamp
PC == {"idle", "batch", "load", "probe", "defer", "send", "commit", "stopped"}

TypeOK ==
  /\ now \in Nat
  /\ row \in [Delivery -> Row]
  /\ ep \in [Endpoint -> EndpointRow]
  /\ log \in [Delivery -> Seq(Attempt)]
  /\ letters \in [Delivery -> Nat]
  /\ ops \in Nat
  /\ shutdown \in [Node -> BOOLEAN]
  /\ pc \in [Worker -> PC]
  /\ batch \in [Worker -> SUBSET Delivery]
  /\ count \in [Worker -> [Delivery -> Nat]]
  /\ cur \in [Worker -> Delivery \cup {NoDelivery}]
  /\ seen \in [Worker -> EndpointRow]
  /\ stamp \in [Worker -> Nat]
  /\ result \in [Worker -> {"none", "ok", "fail", "poison"}]
  /\ fresh \in [Worker -> SUBSET Delivery]
  /\ acked \in SUBSET Delivery

Init ==
  /\ now = 0
  /\ row = [d \in Delivery |-> NewRow]
  /\ ep = [e \in Endpoint |-> NewEndpoint]
  /\ log = [d \in Delivery |-> << >>]
  /\ letters = [d \in Delivery |-> 0]
  /\ ops = 0
  /\ shutdown = [n \in Node |-> FALSE]
  /\ pc = [w \in Worker |-> "idle"]
  /\ batch = [w \in Worker |-> {}]
  /\ count = [w \in Worker |-> [d \in Delivery |-> 0]]
  /\ cur = [w \in Worker |-> NoDelivery]
  /\ seen = [w \in Worker |-> NewEndpoint]
  /\ stamp = [w \in Worker |-> 0]
  /\ result = [w \in Worker |-> "none"]
  /\ fresh = [w \in Worker |-> {}]
  /\ acked = {}

-----------------------------------------------------------------------------
(* Claiming a batch *)

Due(d) ==
  \/ row[d].status \in {"pending", "failed"} /\ row[d].next <= now
  \/ row[d].status = "in_progress" /\ row[d].until < now

\* Rows that an outcome's transaction may have locked.
InOutcome == {cur[w] : w \in {x \in Worker : pc[x] = "commit"}}

\* ORDER BY next_attempt_at FOR UPDATE SKIP LOCKED LIMIT batch.
FirstDue(S) ==
  \E skipped \in SUBSET InOutcome :
    LET due == {d \in Delivery : Due(d)} \ skipped IN
    /\ S # {} /\ S \subseteq due
    /\ Cardinality(S) <= BatchSize
    /\ S = due \/ Cardinality(S) = BatchSize
    /\ \A d \in S, c \in due \ S : row[d].next <= row[c].next

Leased(r, w) ==
  [status |-> "in_progress", next |-> r.next, by |-> Id(w), until |-> now + LockSecs,
   tries |-> r.tries]

\* run_worker, top of the loop: claim_due_deliveries returned rows.
Claim(w) ==
  /\ pc[w] = "idle" /\ ~shutdown[w[1]]
  /\ \E S \in SUBSET Delivery :
       /\ FirstDue(S)
       /\ row' = [d \in Delivery |-> IF d \in S THEN Leased(row[d], w) ELSE row[d]]
       /\ batch' = [batch EXCEPT ![w] = S]
       /\ count' = [count EXCEPT ![w] = [d \in Delivery |-> IF d \in S THEN row[d].tries ELSE 0]]
       /\ fresh' = [x \in Worker |-> IF x = w THEN S ELSE fresh[x] \ S]
  /\ pc' = [pc EXCEPT ![w] = "batch"]
  /\ UNCHANGED <<now, ep, log, letters, ops, shutdown, jobVars, acked>>

\* run_worker's for loop takes a delivery; process_one reads the clock.
Begin(w, d) ==
  /\ pc[w] = "batch" /\ ~shutdown[w[1]]
  /\ d \in batch[w]
  /\ batch' = [batch EXCEPT ![w] = @ \ {d}]
  /\ cur' = [cur EXCEPT ![w] = d]
  /\ stamp' = [stamp EXCEPT ![w] = now]
  /\ pc' = [pc EXCEPT ![w] = "load"]
  /\ UNCHANGED <<now, dbVars, ops, shutdown, count, seen, result, fresh, acked>>

\* run_worker sees the shutdown flag at the top of the loop or between two
\* deliveries: the rest of the batch stays in_progress.
Stop(w) ==
  /\ pc[w] \in {"idle", "batch"} /\ shutdown[w[1]]
  /\ pc' = [pc EXCEPT ![w] = "stopped"]
  /\ batch' = [batch EXCEPT ![w] = {}]
  /\ count' = [count EXCEPT ![w] = [d \in Delivery |-> 0]]
  /\ fresh' = [fresh EXCEPT ![w] = {}]
  /\ UNCHANGED <<now, dbVars, ops, shutdown, jobVars, acked>>

\* process_one returns to the loop, which drops its copy of the delivery.
Done(w) ==
  /\ pc' = [pc EXCEPT ![w] = IF batch[w] = {} THEN "idle" ELSE "batch"]
  /\ count' = [count EXCEPT ![w][cur[w]] = 0]
  /\ fresh' = [fresh EXCEPT ![w] = @ \ {cur[w]}]
  /\ cur' = [cur EXCEPT ![w] = NoDelivery]
  /\ seen' = [seen EXCEPT ![w] = NewEndpoint]
  /\ stamp' = [stamp EXCEPT ![w] = 0]
  /\ result' = [result EXCEPT ![w] = "none"]
  /\ UNCHANGED batch

-----------------------------------------------------------------------------
(* Processing one delivery *)

\* get_endpoint, the disabled check and the breaker's gate.
LoadEndpoint(w) ==
  LET e == ep[EndpointOf[cur[w]]] IN
  /\ pc[w] = "load"
  /\ seen' = [seen EXCEPT ![w] = e]
  /\ \/ /\ e.disabled
        /\ pc' = [pc EXCEPT ![w] = "defer"]
        /\ stamp' = [stamp EXCEPT ![w] = @ + RecheckSecs]
     \/ /\ ~e.disabled /\ gate(e, stamp[w]) = "skip"
        /\ pc' = [pc EXCEPT ![w] = "defer"]
        /\ stamp' = [stamp EXCEPT ![w] = e.open_until]
     \/ /\ ~e.disabled /\ gate(e, stamp[w]) = "probe"
        /\ pc' = [pc EXCEPT ![w] = "probe"]
        /\ UNCHANGED stamp
     \/ /\ ~e.disabled /\ gate(e, stamp[w]) = "allow"
        /\ pc' = [pc EXCEPT ![w] = "send"]
        /\ UNCHANGED stamp
  /\ UNCHANGED <<now, dbVars, ops, shutdown, batch, count, cur, result, fresh, acked>>

\* try_acquire_probe: one UPDATE decides who probes; the loser defers.
AcquireProbe(w) ==
  LET e == EndpointOf[cur[w]] IN
  /\ pc[w] = "probe"
  /\ \/ /\ ProbeFree(ep[e], now)
        /\ ep' = [ep EXCEPT ![e] = acquire_probe(@, now)]
        /\ pc' = [pc EXCEPT ![w] = "send"]
        /\ UNCHANGED stamp
     \/ /\ ~ProbeFree(ep[e], now)
        /\ pc' = [pc EXCEPT ![w] = "defer"]
        /\ stamp' = [stamp EXCEPT ![w] = @ + OpenDuration]
        /\ UNCHANGED ep
  /\ UNCHANGED <<now, row, log, letters, ops, shutdown, batch, count, cur,
                 seen, result, fresh, acked>>

\* Mutant: any live lease will do.
Holds_anyone(w, d, t) == row[d].by # Nobody /\ row[d].until > t

\* Mutant: the releasing UPDATE has no lease guard.
Holds_unguarded(w, d, t) == TRUE

\* The lease guard of every releasing UPDATE, evaluated with the instant t at
\* which its transaction began:  locked_by = worker_id AND locked_until > now().
Holds(w, d, t) == row[d].by = Id(w) /\ row[d].until > t

\* Mutant: locked_until is not cleared.
Released_expired(status, next, tries) ==
  [status |-> status, next |-> next, by |-> Nobody, until |-> now, tries |-> tries]

\* The SET clause they share: a new status, and both lock columns NULL.
Released(status, next, tries) ==
  [status |-> status, next |-> next, by |-> Nobody, until |-> NoTime, tries |-> tries]

\* defer_delivery: a statement of its own, so its now() is the current time.
Defer(w) ==
  LET d == cur[w] IN
  /\ pc[w] = "defer"
  /\ row' = IF Holds(w, d, now)
            THEN [row EXCEPT ![d] = Released("failed", stamp[w], @.tries)]
            ELSE row
  /\ Done(w)
  /\ UNCHANGED <<now, ep, log, letters, ops, shutdown, acked>>

\* The request cannot be built: mark_dead begins its transaction.
Unsendable(w) ==
  /\ pc[w] = "send" /\ cur[w] \in Poison
  /\ result' = [result EXCEPT ![w] = "poison"]
  /\ stamp' = [stamp EXCEPT ![w] = now]
  /\ pc' = [pc EXCEPT ![w] = "commit"]
  /\ UNCHANGED <<now, dbVars, ops, shutdown, batch, count, cur, seen, fresh, acked>>

\* The POST is answered (2xx, or anything else: another status, a transport
\* error, the client's timeout) and the outcome's transaction begins.
Respond(w) ==
  /\ pc[w] = "send" /\ cur[w] \notin Poison
  /\ \/ /\ result' = [result EXCEPT ![w] = "ok"]
        /\ acked' = acked \cup {cur[w]}
     \/ /\ result' = [result EXCEPT ![w] = "fail"]
        /\ UNCHANGED acked
  /\ stamp' = [stamp EXCEPT ![w] = now]
  /\ pc' = [pc EXCEPT ![w] = "commit"]
  /\ UNCHANGED <<now, dbVars, ops, shutdown, batch, count, cur, seen, fresh>>

attempt_number(w) == count[w][cur[w]] + 1

\* Mutant: attempts are numbered from zero.
record_attempt_from_zero(w) ==
  log' = [log EXCEPT ![cur[w]] =
            Append(@, [number |-> count[w][cur[w]], ok |-> result[w] = "ok"])]

record_attempt(w) ==
  log' = [log EXCEPT ![cur[w]] =
            Append(@, [number |-> attempt_number(w), ok |-> result[w] = "ok"])]

\* A 2xx: attempt, mark_succeeded and breaker reset in one transaction.
CommitSuccess(w) ==
  LET d == cur[w] IN
  /\ pc[w] = "commit" /\ result[w] = "ok"
  /\ Holds(w, d, stamp[w])
  /\ record_attempt(w)
  /\ row' = [row EXCEPT ![d] = Released("succeeded", @.next, attempt_number(w))]
  /\ ep' = [ep EXCEPT ![EndpointOf[d]] = on_success(@)]
  /\ Done(w)
  /\ UNCHANGED <<now, letters, ops, shutdown, acked>>

\* update_circuit of a failed attempt: the new fields come from the endpoint
\* row read before the POST, and the clock is read inside the transaction.
FailCircuit(w, t) ==
  ep' = [ep EXCEPT ![EndpointOf[cur[w]]] = on_failure(@, seen[w], t)]

\* fail, attempts left: attempt, mark_failed and breaker update.
CommitRetry(w) ==
  LET d == cur[w] IN
  /\ pc[w] = "commit" /\ result[w] = "fail"
  /\ ~is_exhausted(attempt_number(w))
  /\ Holds(w, d, stamp[w])
  /\ record_attempt(w)
  /\ \E t \in stamp[w] .. now, delay \in backoff(attempt_number(w)) :
       /\ row' = [row EXCEPT ![d] = Released("failed", t + delay, attempt_number(w))]
       /\ \E u \in t .. now : FailCircuit(w, u)
  /\ Done(w)
  /\ UNCHANGED <<now, letters, ops, shutdown, acked>>

\* fail, attempts exhausted: attempt, mark_dead_on and breaker update.
CommitExhausted(w) ==
  LET d == cur[w] IN
  /\ pc[w] = "commit" /\ result[w] = "fail"
  /\ is_exhausted(attempt_number(w))
  /\ Holds(w, d, stamp[w])
  /\ record_attempt(w)
  /\ row' = [row EXCEPT ![d] = Released("dead", @.next, @.tries)]
  /\ letters' = [letters EXCEPT ![d] = @ + 1]
  /\ \E u \in stamp[w] .. now : FailCircuit(w, u)
  /\ Done(w)
  /\ UNCHANGED <<now, ops, shutdown, acked>>

\* mark_dead: no attempt is recorded and the breaker is left alone.
CommitPoison(w) ==
  LET d == cur[w] IN
  /\ pc[w] = "commit" /\ result[w] = "poison"
  /\ Holds(w, d, stamp[w])
  /\ row' = [row EXCEPT ![d] = Released("dead", @.next, @.tries)]
  /\ letters' = [letters EXCEPT ![d] = @ + 1]
  /\ Done(w)
  /\ UNCHANGED <<now, ep, log, ops, shutdown, acked>>

\* Mutant: the attempt row is written outside the transaction.
Abandon_recorded(w) ==
  /\ pc[w] = "commit"
  /\ ~Holds(w, cur[w], stamp[w])
  /\ record_attempt(w)
  /\ Done(w)
  /\ UNCHANGED <<now, row, ep, letters, ops, shutdown, acked>>

\* The lease was lost: the transaction rolls back, the attempt row included.
Abandon(w) ==
  /\ pc[w] = "commit"
  /\ ~Holds(w, cur[w], stamp[w])
  /\ Done(w)
  /\ UNCHANGED <<now, dbVars, ops, shutdown, acked>>

\* process_one returns an error of the database: nothing is written, the loop
\* goes on with the next delivery and the lease is left to lapse.
DbError(w) ==
  /\ pc[w] \in {"load", "probe", "defer", "send", "commit"}
  /\ Done(w)
  /\ UNCHANGED <<now, dbVars, ops, shutdown, acked>>

-----------------------------------------------------------------------------
(* The rest of the system *)

\* insert_delivery (a producer's transaction commits).
Enqueue(d) ==
  /\ row[d].status = "absent"
  /\ row' = [row EXCEPT ![d] = Released("pending", now, 0)]
  /\ UNCHANGED <<now, ep, log, letters, ops, shutdown, workerVars, acked>>

OperatorCall == ops < MaxOps /\ ops' = ops + 1

\* reset_for_replay: whatever the status, and whoever holds the lease.
Replay(d) ==
  /\ OperatorCall
  /\ row[d].status # "absent"
  /\ row' = [row EXCEPT ![d] = Released("pending", now, @.tries)]
  /\ UNCHANGED <<now, ep, log, letters, shutdown, workerVars, acked>>

\* update_endpoint with a new value of disabled.
SetDisabled(e) ==
  /\ OperatorCall
  /\ ep' = [ep EXCEPT ![e] = [disabled |-> ~@.disabled, state |-> @.state,
                              open_until |-> @.open_until, failures |-> @.failures]]
  /\ UNCHANGED <<now, row, log, letters, shutdown, workerVars, acked>>

\* A signal flips the shutdown watch of the process.
Shutdown(n) ==
  /\ OperatorCall
  /\ ~shutdown[n]
  /\ shutdown' = [shutdown EXCEPT ![n] = TRUE]
  /\ UNCHANGED <<now, dbVars, workerVars, acked>>

\* The process ends (kill -9, a crash, drained, or the drain timed out) and a
\* new one starts: what its workers had in memory is gone.
Restart(n) ==
  LET mine == {w \in Worker : w[1] = n} IN
  /\ shutdown' = [shutdown EXCEPT ![n] = FALSE]
  /\ pc' = [w \in Worker |-> IF w \in mine THEN "idle" ELSE pc[w]]
  /\ batch' = [w \in Worker |-> IF w \in mine THEN {} ELSE batch[w]]
  /\ count' = [w \in Worker |-> IF w \in mine THEN [d \in Delivery |-> 0] ELSE count[w]]
  /\ cur' = [w \in Worker |-> IF w \in mine THEN NoDelivery ELSE cur[w]]
  /\ seen' = [w \in Worker |-> IF w \in mine THEN NewEndpoint ELSE seen[w]]
  /\ stamp' = [w \in Worker |-> IF w \in mine THEN 0 ELSE stamp[w]]
  /\ result' = [w \in Worker |-> IF w \in mine THEN "none" ELSE result[w]]
  /\ fresh' = [w \in Worker |-> IF w \in mine THEN {} ELSE fresh[w]]
  /\ UNCHANGED <<now, dbVars, ops, acked>>

Tick ==
  /\ now < MaxTime
  /\ now' = now + 1
  /\ UNCHANGED <<dbVars, ops, shutdown, workerVars, acked>>

WorkerStep(w) ==
  \/ Claim(w)
  \/ \E d \in Delivery : Begin(w, d)
  \/ Stop(w)
  \/ LoadEndpoint(w)
  \/ AcquireProbe(w)
  \/ Defer(w)
  \/ Unsendable(w)
  \/ Respond(w)
  \/ CommitSuccess(w)
  \/ CommitRetry(w)
  \/ CommitExhausted(w)
  \/ CommitPoison(w)
  \/ Abandon(w)
  \/ DbError(w)

Next ==
  \/ \E w \in Worker : WorkerStep(w)
  \/ \E d \in Delivery : Enqueue(d) \/ Replay(d)
  \/ \E e \in Endpoint : SetDisabled(e)
  \/ \E n \in Node : Shutdown(n) \/ Restart(n)
  \/ Tick

Spec == Init /\ [][Next]_vars

-----------------------------------------------------------------------------
(* Properties *)

\* The deliveries a worker has in memory.
Copies(w) == batch[w] \cup ({cur[w]} \ {NoDelivery})

\* A releasing write passes the lease guard only for the worker whose copy
\* comes from the latest claim of the row: a worker that outlived its lease
\* never overwrites the state of the worker that claimed the row after it
\* (the contract of mark_succeeded, mark_failed, defer_delivery, mark_dead_on).
Fenced ==
  \A w \in Worker :
    /\ pc[w] = "commit" /\ Holds(w, cur[w], stamp[w]) => cur[w] \in fresh[w]
    /\ pc[w] = "defer" /\ Holds(w, cur[w], now) => cur[w] \in fresh[w]

\* A row is leased exactly while it is in progress: no release forgets a lock
\* column, and no row can be in progress without a deadline to reclaim it by.
LeaseCoherent ==
  \A d \in Delivery :
    LET leased == row[d].status = "in_progress" IN
    /\ leased <=> row[d].by # Nobody
    /\ leased <=> row[d].until # NoTime

\* Attempts are neither lost nor counted twice, whatever leases lapse, workers
\* crash and operators replay: each row of delivery_attempts was added to
\* attempt_count or exhausted the budget and left a dead letter.
CountsAttempts ==
  \A d \in Delivery \ Poison : row[d].tries + letters[d] = Len(log[d])

\* A delivery is given up only after max_attempts recorded attempts, or if it
\* could never be sent; and it never is without a dead letter.
DeadOnlyExhausted ==
  \A d \in Delivery : row[d].status = "dead" =>
    /\ letters[d] > 0
    /\ d \in Poison \/ Len(log[d]) >= MaxAttempts

\* A delivery counts as succeeded only if its endpoint answered an attempt
\* with a 2xx, and that attempt is the last one in the log, correctly numbered.
SucceededRecorded ==
  \A d \in Delivery : row[d].status = "succeeded" =>
    /\ d \in acked
    /\ Len(log[d]) > 0
    /\ log[d][Len(log[d])] = [number |-> row[d].tries, ok |-> TRUE]

\* The breaker's columns agree: traffic is barred only with a deadline, so no
\* endpoint is barred forever, and exactly once the threshold is reached, so a
\* failed probe reopens the breaker although it only sees a snapshot.
CircuitCoherent == \A e \in Endpoint : Coherent(ep[e])

\* The outcome of w's attempt reaches the database in this step.
Records(w) == pc[w] = "commit" /\ pc'[w] # "commit" /\ log'[cur[w]] # log[cur[w]]

\* A half-open probe that fails leaves the breaker open for a full window.
FailedProbeReopens ==
  [][\A w \in Worker :
       Records(w) /\ result[w] = "fail" /\ seen[w].state # "closed" =>
         LET e == ep'[EndpointOf[cur[w]]] IN
         e.state = "open" /\ e.open_until >= stamp[w] + OpenDuration]_vars

\* Once the breaker is open, only a success or an elapsed window lets traffic
\* through again ("How long the breaker stays open before a half-open probe").
FailureKeepsOpen ==
  [][\A w \in Worker :
       Records(w) /\ result[w] = "fail" =>
         LET e == EndpointOf[cur[w]] IN
         Barred(ep[e], now) => Barred(ep'[e], now)]_vars

Fate(r) ==
  IF r.status \in {"pending", "in_progress", "failed"} THEN "open" ELSE r.status

Contract == INSTANCE DeliveryContract WITH fate <- [d \in Delivery |-> Fate(row[d])]

\* The dispatcher keeps the delivery contract, with any number of processes:
\* no interleaving, lapsed lease or crash loses an accepted delivery, settles
\* it without an answer or a used-up budget, or rewrites the attempt log.
KeepsContract == Contract!Spec

=============================================================================
