----------------------------- MODULE LeaseTiming -----------------------------
(***************************************************************************)
(* The dispatcher in time: whether a claimed batch drains within its lease *)
(* and whether every delivery is settled in the end.                       *)
(*                                                                         *)
(* Instants are distances from the clock, so the clock never runs out: a   *)
(* tick takes one from every deadline.  A POST ends within HttpTimeout,    *)
(* and the statements of one delivery take up to DbTime; a worker does not *)
(* wait otherwise.  Dispatcher has the statements one by one, with clocks  *)
(* that are read before they are used, shutdown, several processes and     *)
(* requests that cannot be built.                                          *)
(***************************************************************************)
EXTENDS Circuit, Retry, FiniteSets

CONSTANTS
  Worker,       \* worker ids of the process
  Nobody,       \* locked_by is NULL
  Delivery,     \* ids of delivery rows
  Endpoint,     \* ids of endpoint rows
  EndpointOf,   \* the endpoint_id column of each delivery
  NoDelivery,   \* a worker that is between deliveries
  BatchSize,    \* batch_size
  LockSecs,     \* lock_secs
  HttpTimeout,  \* http_timeout
  DbTime,       \* the most that one delivery spends on statements
  RecheckSecs,  \* DISABLED_RECHECK_SECS
  MaxFaults,    \* bound: crashes and database errors in one behaviour
  MaxOps        \* bound: operator calls in one behaviour

ASSUME LeaseTimingAssumption ==
  /\ IsFiniteSet(Delivery)
  /\ Nobody \notin Worker
  /\ EndpointOf \in [Delivery -> Endpoint]
  /\ NoDelivery \notin Delivery
  /\ BatchSize \in Nat \ {0} /\ LockSecs \in Nat \ {0}
  /\ HttpTimeout \in Nat \ {0} /\ DbTime \in Nat /\ RecheckSecs \in Nat \ {0}
  /\ MaxFaults \in Nat /\ MaxOps \in Nat

VARIABLES
  row,     \* deliveries
  ep,      \* endpoints; open_until is the time that is left
  pc,      \* where each worker's loop stands
  batch,   \* claimed deliveries the worker has not started
  count,   \* attempt_count in the claimed copies
  cur,     \* the delivery the worker processes
  seen,    \* consecutive_failures of the endpoint row it read
  wait,    \* how far ahead it would defer the delivery
  post,    \* what is left of the client's timeout
  slack,   \* what is left of the time for statements
  result,  \* outcome of the attempt
  fresh,   \* history: copies whose row nobody has claimed or replayed since
  faults,  \* crashes and database errors so far
  ops      \* operator calls so far

jobVars == <<cur, seen, wait, post, slack, result>>
workerVars == <<pc, batch, count, jobVars, fresh>>
vars == <<row, ep, workerVars, faults, ops>>

Row ==
  [status : {"absent", "pending", "in_progress", "failed", "succeeded", "dead"},
   next : Nat,                    \* next_attempt_at; 0 when it has come
   by : Worker \cup {Nobody},     \* locked_by
   left : -1 .. LockSecs,         \* locked_until; 0 is now, -1 has passed
   tries : Nat]                   \* attempt_count

Released(status, next, tries) ==
  [status |-> status, next |-> next, by |-> Nobody, left |-> -1, tries |-> tries]

\* "batch": between two deliveries; "probe": about to claim the half-open probe;
\* "defer": about to defer; "send": awaiting the answer; "commit": about to
\* record the outcome.
TypeOK ==
  /\ row \in [Delivery -> Row]
  /\ ep \in [Endpoint -> EndpointRow]
  /\ pc \in [Worker -> {"idle", "batch", "probe", "defer", "send", "commit"}]
  /\ batch \in [Worker -> SUBSET Delivery]
  /\ count \in [Worker -> [Delivery -> Nat]]
  /\ cur \in [Worker -> Delivery \cup {NoDelivery}]
  /\ seen \in [Worker -> Nat]
  /\ wait \in [Worker -> Nat]
  /\ post \in [Worker -> 0 .. HttpTimeout]
  /\ slack \in [Worker -> 0 .. DbTime]
  /\ result \in [Worker -> {"none", "ok", "fail"}]
  /\ fresh \in [Worker -> SUBSET Delivery]
  /\ faults \in 0 .. MaxFaults /\ ops \in 0 .. MaxOps

Init ==
  /\ row = [d \in Delivery |-> Released("absent", 0, 0)]
  /\ ep = [e \in Endpoint |-> NewEndpoint]
  /\ pc = [w \in Worker |-> "idle"]
  /\ batch = [w \in Worker |-> {}]
  /\ count = [w \in Worker |-> [d \in Delivery |-> 0]]
  /\ cur = [w \in Worker |-> NoDelivery]
  /\ seen = [w \in Worker |-> 0]
  /\ wait = [w \in Worker |-> 0]
  /\ post = [w \in Worker |-> 0]
  /\ slack = [w \in Worker |-> 0]
  /\ result = [w \in Worker |-> "none"]
  /\ fresh = [w \in Worker |-> {}]
  /\ faults = 0 /\ ops = 0

Fault == faults < MaxFaults /\ faults' = faults + 1

-----------------------------------------------------------------------------
(* Workers *)

\* Mutant: rows in progress are never taken again.
Due_no_reclaim(d) == row[d].status \in {"pending", "failed"} /\ row[d].next = 0

Due(d) ==
  \/ row[d].status \in {"pending", "failed"} /\ row[d].next = 0
  \/ row[d].status = "in_progress" /\ row[d].left < 0

\* claim_due_deliveries: the rows due longest, up to the limit.  Of two rows that
\* are due the order is that of past instants, which distances no longer tell.
Claim(w) ==
  LET due == {d \in Delivery : Due(d)} IN
  /\ pc[w] = "idle"
  /\ \E S \in SUBSET due :
       /\ S # {} /\ Cardinality(S) <= BatchSize
       /\ S = due \/ Cardinality(S) = BatchSize
       /\ row' = [d \in Delivery |->
                    IF d \in S THEN [status |-> "in_progress", next |-> row[d].next, by |-> w,
                                     left |-> LockSecs, tries |-> row[d].tries]
                               ELSE row[d]]
       /\ batch' = [batch EXCEPT ![w] = S]
       /\ count' = [count EXCEPT ![w] = [d \in Delivery |-> IF d \in S THEN row[d].tries ELSE 0]]
       /\ fresh' = [x \in Worker |-> IF x = w THEN S ELSE fresh[x] \ S]
  /\ pc' = [pc EXCEPT ![w] = "batch"]
  /\ UNCHANGED <<ep, jobVars, faults, ops>>

\* process_one up to the gate: read the clock and the endpoint, then POST, defer
\* or go for the probe.
Begin(w, d) ==
  LET e == ep[EndpointOf[d]]
      to(where, units) == /\ pc' = [pc EXCEPT ![w] = where]
                          /\ wait' = [wait EXCEPT ![w] = units]
  IN
  /\ pc[w] = "batch" /\ d \in batch[w]
  /\ batch' = [batch EXCEPT ![w] = @ \ {d}]
  /\ cur' = [cur EXCEPT ![w] = d]
  /\ seen' = [seen EXCEPT ![w] = e.failures]
  /\ slack' = [slack EXCEPT ![w] = DbTime]
  /\ post' = [post EXCEPT ![w] = HttpTimeout]
  /\ \/ e.disabled /\ to("defer", RecheckSecs)
     \/ ~e.disabled /\ gate(e, 0) = "skip" /\ to("defer", e.open_until)
     \/ ~e.disabled /\ gate(e, 0) = "probe" /\ to("probe", OpenDuration)
     \/ ~e.disabled /\ gate(e, 0) = "allow" /\ to("send", 0)
  /\ UNCHANGED <<row, ep, count, result, fresh, faults, ops>>

\* try_acquire_probe: the winner sends, a loser defers.
AcquireProbe(w) ==
  LET e == EndpointOf[cur[w]] IN
  /\ pc[w] = "probe"
  /\ \/ /\ ProbeFree(ep[e], 0)
        /\ ep' = [ep EXCEPT ![e] = acquire_probe(@, 0)]
        /\ pc' = [pc EXCEPT ![w] = "send"]
        /\ wait' = [wait EXCEPT ![w] = 0]
     \/ /\ ~ProbeFree(ep[e], 0)
        /\ pc' = [pc EXCEPT ![w] = "defer"]
        /\ UNCHANGED <<ep, wait>>
  /\ UNCHANGED <<row, batch, count, cur, seen, post, slack, result, fresh, faults, ops>>

\* The next delivery of the batch, or the top of the loop.
Done(w) ==
  /\ pc' = [pc EXCEPT ![w] = IF batch[w] = {} THEN "idle" ELSE "batch"]
  /\ count' = [count EXCEPT ![w][cur[w]] = 0]
  /\ fresh' = [fresh EXCEPT ![w] = @ \ {cur[w]}]
  /\ cur' = [cur EXCEPT ![w] = NoDelivery]
  /\ seen' = [seen EXCEPT ![w] = 0]
  /\ wait' = [wait EXCEPT ![w] = 0]
  /\ post' = [post EXCEPT ![w] = 0]
  /\ slack' = [slack EXCEPT ![w] = 0]
  /\ result' = [result EXCEPT ![w] = "none"]
  /\ UNCHANGED batch

\* locked_by = worker_id AND locked_until > now()
Holds(w, d) == row[d].by = w /\ row[d].left > 0

Defer(w) ==
  LET d == cur[w] IN
  /\ pc[w] = "defer"
  /\ row' = IF Holds(w, d) THEN [row EXCEPT ![d] = Released("failed", wait[w], @.tries)] ELSE row
  /\ Done(w)
  /\ UNCHANGED <<ep, faults, ops>>

\* An answer before the timeout, or a failure by then.
Respond(w) ==
  /\ pc[w] = "send"
  /\ \E r \in IF post[w] > 0 THEN {"ok", "fail"} ELSE {"fail"} :
       result' = [result EXCEPT ![w] = r]
  /\ pc' = [pc EXCEPT ![w] = "commit"]
  /\ post' = [post EXCEPT ![w] = 0]
  /\ UNCHANGED <<row, ep, batch, count, cur, seen, wait, slack, fresh, faults, ops>>

attempt_number(w) == count[w][cur[w]] + 1

\* The outcome's transaction: mark_succeeded, mark_failed or mark_dead_on, each
\* with the breaker's update, if the lease is still held.
Record(w) ==
  LET d == cur[w]
      n == attempt_number(w)
      e == EndpointOf[d]
  IN
  /\ pc[w] = "commit" /\ Holds(w, d)
  /\ \/ /\ result[w] = "ok"
        /\ row' = [row EXCEPT ![d] = Released("succeeded", @.next, n)]
        /\ ep' = [ep EXCEPT ![e] = on_success(@)]
     \/ /\ result[w] = "fail"
        /\ \/ /\ ~is_exhausted(n)
              /\ \E delay \in backoff(n) : row' = [row EXCEPT ![d] = Released("failed", delay, n)]
           \/ is_exhausted(n) /\ row' = [row EXCEPT ![d] = Released("dead", @.next, @.tries)]
        /\ ep' = [ep EXCEPT ![e] = on_failure(@, [failures |-> seen[w]], 0)]
  /\ Done(w)
  /\ UNCHANGED <<faults, ops>>

\* The lease is lost: everything rolls back.
Abandon(w) ==
  /\ pc[w] = "commit" /\ ~Holds(w, cur[w])
  /\ Done(w)
  /\ UNCHANGED <<row, ep, faults, ops>>

\* A statement fails: the row keeps its lease.
DbError(w) ==
  /\ pc[w] \in {"probe", "defer", "send", "commit"} /\ Fault
  /\ Done(w)
  /\ UNCHANGED <<row, ep, ops>>

WorkerStep(w) ==
  \/ Claim(w)
  \/ \E d \in Delivery : Begin(w, d)
  \/ AcquireProbe(w)
  \/ Defer(w)
  \/ Respond(w)
  \/ Record(w)
  \/ Abandon(w)

-----------------------------------------------------------------------------
(* The rest of the system *)

Down(n) == IF n > 0 THEN n - 1 ELSE n

\* Mutant: the client has no timeout.
MayWait_no_timeout(w) ==
  \/ pc[w] \in {"idle", "send"}
  \/ pc[w] \in {"probe", "defer", "commit"} /\ slack[w] > 0

\* Time passes unless a worker has used up what it may take.
MayWait(w) ==
  \/ pc[w] = "idle"
  \/ pc[w] = "send" /\ post[w] > 0
  \/ pc[w] \in {"probe", "defer", "commit"} /\ slack[w] > 0

Tick ==
  /\ \A w \in Worker : MayWait(w)
  /\ row' = [d \in Delivery |->
               [status |-> row[d].status, next |-> Down(row[d].next), by |-> row[d].by,
                left |-> IF row[d].left >= 0 THEN row[d].left - 1 ELSE -1,
                tries |-> row[d].tries]]
  /\ ep' = [e \in Endpoint |->
              update_circuit(ep[e], ep[e].state, Down(ep[e].open_until), ep[e].failures)]
  /\ wait' = [w \in Worker |-> Down(wait[w])]
  /\ post' = [w \in Worker |-> IF pc[w] = "send" THEN Down(post[w]) ELSE post[w]]
  /\ slack' = [w \in Worker |-> IF pc[w] = "send" THEN slack[w] ELSE Down(slack[w])]
  /\ UNCHANGED <<pc, batch, count, cur, seen, result, fresh, faults, ops>>

\* insert_delivery, committed: next_attempt_at is now.
Enqueue(D) ==
  /\ D # {} /\ \A d \in D : row[d].status = "absent"
  /\ row' = [d \in Delivery |-> IF d \in D THEN Released("pending", 0, 0) ELSE row[d]]
  /\ UNCHANGED <<ep, workerVars, faults, ops>>

OperatorCall == ops < MaxOps /\ ops' = ops + 1

\* reset_for_replay
Replay(d) ==
  /\ OperatorCall /\ row[d].status # "absent"
  /\ row' = [row EXCEPT ![d] = Released("pending", 0, @.tries)]
  /\ fresh' = [w \in Worker |-> fresh[w] \ {d}]
  /\ UNCHANGED <<ep, pc, batch, count, jobVars, faults>>

\* update_endpoint with a value of disabled.
SetDisabled(e, disabled) ==
  /\ OperatorCall
  /\ ep' = [ep EXCEPT ![e] = [disabled |-> disabled, state |-> @.state,
                              open_until |-> @.open_until, failures |-> @.failures]]
  /\ UNCHANGED <<row, workerVars, faults>>

\* kill -9 and a restart: the workers' memory is gone.
Crash ==
  /\ Fault
  /\ pc' = [w \in Worker |-> "idle"]
  /\ batch' = [w \in Worker |-> {}]
  /\ count' = [w \in Worker |-> [d \in Delivery |-> 0]]
  /\ cur' = [w \in Worker |-> NoDelivery]
  /\ seen' = [w \in Worker |-> 0]
  /\ wait' = [w \in Worker |-> 0]
  /\ post' = [w \in Worker |-> 0]
  /\ slack' = [w \in Worker |-> 0]
  /\ result' = [w \in Worker |-> "none"]
  /\ fresh' = [w \in Worker |-> {}]
  /\ UNCHANGED <<row, ep, ops>>

Next ==
  \/ \E w \in Worker : WorkerStep(w) \/ DbError(w)
  \/ Tick
  \/ \E d \in Delivery : Enqueue({d}) \/ Replay(d)
  \/ \E e \in Endpoint : SetDisabled(e, ~ep[e].disabled)
  \/ Crash

Spec == Init /\ [][Next]_vars

\* tokio runs the workers (a poll interval after the last empty claim at the
\* latest) and time passes.  Nothing is assumed of the endpoints.
Fairness == WF_vars(Tick) /\ \A w \in Worker : WF_vars(WorkerStep(w))

FairSpec == Spec /\ Fairness

-----------------------------------------------------------------------------
(* Properties *)

\* serve warns of a lease that a slow batch may outlive.
Warns == LockSecs < BatchSize * HttpTimeout

Copies(w) == batch[w] \cup ({cur[w]} \ {NoDelivery})

\* What it would take: time for the statements as well, and a moment more.
Sized == LockSecs > BatchSize * (HttpTimeout + DbTime)

\* In a Sized process a batch drains within its lease: nothing but a replay takes a row
\* from a worker that still has it in memory, so no delivery is sent by two
\* workers at once and no outcome is thrown away.
LeaseOutlasts ==
  \A w \in Worker : \A d \in Copies(w) \cap fresh[w] : row[d].left > 0

\* Every delivery is settled in the end, if its endpoint does not stay disabled:
\* crashes, replays, an open breaker, a hanging endpoint and lost probes delay
\* it, but it is neither forgotten nor sent over and over without a count.
Settles ==
  \A d \in Delivery :
    <>[](~ep[EndpointOf[d]].disabled) =>
      (row[d].status # "absent" ~> row[d].status \in {"succeeded", "dead"})

\* Without the warning at start the lease is long enough for that: "if a claimed
\* batch can't drain within the lease, its tail is re-claimed and re-delivered.
\* Warn so operators size it."
UnwarnedSettles == ~Warns => Settles

=============================================================================
