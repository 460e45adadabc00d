------------------------- MODULE DispatcherPromises -------------------------
(***************************************************************************)
(* What the invariants of DispatcherSafety let the steps promise.          *)
(*                                                                         *)
(* With any number of processes the dispatcher keeps the delivery          *)
(* contract, and a failed probe reopens the breaker.                       *)
(*                                                                         *)
(* The lease is a fence in one process.  locked_by holds a worker's name,  *)
(* so the guards of store.rs tell two workers apart exactly if their names *)
(* differ.  The names of spawn_workers differ within a process; under that *)
(* assumption no worker ever writes with a lapsed copy of a delivery, and  *)
(* no attempt is lost or counted twice.                                    *)
(***************************************************************************)
EXTENDS DispatcherSafety

USE ZenonT(5), SMTT(20), ZenonT(30), SMTT(60), CircuitAssumption, RetryAssumption, DispatcherAssumption

-----------------------------------------------------------------------------
(* Probes *)

\* A failure whose snapshot was not closed trips the breaker again.
LEMMA ProbeFails ==
  ASSUME NEW e, NEW s \in EndpointRow, NEW t, Coherent(s), s.state # "closed"
  PROVE  /\ on_failure(e, s, t).state = "open"
         /\ on_failure(e, s, t).open_until = t + OpenDuration
BY DEF Coherent, EndpointRow, on_failure, update_circuit, SaturatingSucc

\* The step in which w records a failed attempt is one of fail's transactions.
LEMMA RecordsFailure ==
  ASSUME TypeInv, OutcomeTrue, [Next]_vars, NEW w \in Worker, Records(w), result[w] = "fail"
  PROVE  CommitRetry(w) \/ CommitExhausted(w)
<1> USE DEF TypeInv, TypeOK
<1>1. pc[w] = "commit" /\ pc'[w] # "commit" /\ log' # log
  BY DEF Records
<1>2. ASSUME NEW x \in Worker, WorkerStep(x)
      PROVE  CommitRetry(w) \/ CommitExhausted(w)
  <2>1. CASE CommitSuccess(x) \/ CommitRetry(x) \/ CommitExhausted(x)
    <3>1. Done(x) /\ (result[x] = "ok" \/ CommitRetry(x) \/ CommitExhausted(x))
      BY Zenon, <2>1 DEF CommitSuccess, CommitRetry, CommitExhausted
    <3>2. x = w
      BY <1>1, <3>1 DEF Done
    <3> QED
      BY <3>1, <3>2
  <2>2. CASE \/ \E c \in Delivery : Begin(x, c)
             \/ Claim(x) \/ Stop(x) \/ LoadEndpoint(x) \/ AcquireProbe(x) \/ Defer(x)
             \/ Unsendable(x) \/ Respond(x) \/ CommitPoison(x) \/ Abandon(x) \/ DbError(x)
    <3>1. log' = log
      BY <2>2 DEF Begin, Claim, Stop, LoadEndpoint, AcquireProbe, Defer, Unsendable,
                  Respond, CommitPoison, Abandon, DbError, dbVars
    <3> QED
      BY <1>1, <3>1
  <2> QED
    BY <1>2, <2>1, <2>2 DEF WorkerStep
<1>3. ASSUME \/ \E d \in Delivery : Enqueue(d) \/ Replay(d)
             \/ \E e \in Endpoint : SetDisabled(e)
             \/ \E n \in Node : Shutdown(n) \/ Restart(n)
             \/ Tick
             \/ UNCHANGED vars
      PROVE  log' = log
  BY <1>3 DEF Enqueue, Replay, SetDisabled, Shutdown, Restart, Tick, vars, dbVars
<1> QED
  BY <1>1, <1>2, <1>3 DEF Next

\* fail computes the breaker's update from the snapshot taken before the POST;
\* for a probe that is enough to reopen the breaker for a full window.
THEOREM ProbesReopen == Spec => FailedProbeReopens
<1> DEFINE Reopens(w) ==
      Records(w) /\ result[w] = "fail" /\ seen[w].state # "closed" =>
        LET e == ep'[EndpointOf[cur[w]]] IN
        e.state = "open" /\ e.open_until >= stamp[w] + OpenDuration
<1>1. ASSUME TypeInv, SafetyInv, [Next]_vars, NEW w \in Worker
      PROVE  Reopens(w)
  <2> SUFFICES ASSUME Records(w), result[w] = "fail", seen[w].state # "closed"
               PROVE  LET e == ep'[EndpointOf[cur[w]]] IN
                      e.state = "open" /\ e.open_until >= stamp[w] + OpenDuration
    OBVIOUS
  <2> DEFINE e == EndpointOf[cur[w]]
  <2>1. CommitRetry(w) \/ CommitExhausted(w)
    BY <1>1, RecordsFailure DEF SafetyInv
  <2>2. cur[w] \in Delivery
    BY <1>1 DEF Records, TypeInv, HasJob, Busy
  <2>3. /\ stamp[w] \in Nat /\ now \in Nat /\ seen[w] \in EndpointRow /\ e \in Endpoint
        /\ ep \in [Endpoint -> EndpointRow]
    BY <1>1, <2>2 DEF TypeInv, TypeOK
  <2>4. \E u \in Nat : u >= stamp[w] /\ ep' = [ep EXCEPT ![e] = on_failure(@, seen[w], u)]
    BY <2>1, <2>3 DEF CommitRetry, CommitExhausted, FailCircuit
  <2>5. PICK u \in Nat : u >= stamp[w] /\ ep' = [ep EXCEPT ![e] = on_failure(@, seen[w], u)]
    BY Zenon, <2>4
  <2>6. ep'[e] = on_failure(ep[e], seen[w], u)
    BY <2>3, <2>5
  <2>7. Coherent(seen[w])
    BY <1>1 DEF SafetyInv, SeenCoherent
  <2>8. ep'[e].state = "open" /\ ep'[e].open_until = u + OpenDuration
    BY <2>3, <2>6, <2>7, ProbeFails
  <2> QED
    BY <2>3, <2>5, <2>8
<1>2. TypeInv /\ SafetyInv /\ [Next]_vars => [\A w \in Worker : Reopens(w)]_vars
  BY <1>1
<1> QED
  BY <1>2, Safety, PTL DEF FailedProbeReopens, Spec

-----------------------------------------------------------------------------
(* Refinement *)

Fates == [d \in Delivery |-> Fate(row[d])]

\* Releasing a row updates its fate, and leasing rows changes none.
LEMMA FateReleased ==
  ASSUME TypeInv, NEW c \in Delivery, NEW s, NEW n, NEW k,
         row' = [row EXCEPT ![c] = Released(s, n, k)]
  PROVE  Fates' = [Fates EXCEPT ![c] =
                     IF s \in {"pending", "in_progress", "failed"} THEN "open" ELSE s]
<1>1. \A d \in Delivery : Fate(row'[d]) =
        IF d = c THEN (IF s \in {"pending", "in_progress", "failed"} THEN "open" ELSE s)
                 ELSE Fate(row[d])
  <2> TAKE d \in Delivery
  <2>1. d = c => row'[d].status = s
    BY DEF TypeInv, TypeOK, Released
  <2>2. d # c => row'[d] = row[d]
    BY ReleasedRow
  <2> QED
    BY <2>1, <2>2 DEF Fate
<1> QED
  BY Zenon, <1>1 DEF Fates

LEMMA FateKept ==
  ASSUME \A d \in Delivery : Fate(row'[d]) = Fate(row[d])
  PROVE  Fates' = Fates
BY DEF Fates

\* The numbers of the log: an attempt's number is at most one ahead of it.
LEMMA ContractRecord ==
  ASSUME TypeInv, SafetyInv, NEW w \in Worker, pc[w] = "commit", record_attempt(w)
  PROVE  /\ result[w] = "ok" => Contract!Record(cur[w], TRUE)
         /\ result[w] # "ok" => Contract!Record(cur[w], FALSE)
<1> DEFINE d == cur[w]
           n == attempt_number(w)
<1>1. d \in Delivery /\ n = count[w][d] + 1 /\ count[w][d] \in Nat
  BY Zenon, Recorded
<1>2. d \in Copies(w)
  BY <1>1 DEF Copies
<1>3. count[w][d] <= Len(log[d]) /\ Len(log[d]) \in Nat
  BY <1>1, <1>2 DEF SafetyInv, CountsBelowLog, TypeInv, TypeOK
<1>4. n \in 1 .. (Len(log[d]) + 1)
  BY <1>1, <1>3
<1>5. log' = [log EXCEPT ![d] = Append(@, [number |-> n, ok |-> (result[w] = "ok")])]
  BY DEF record_attempt
<1> HIDE DEF n
<1>6. CASE result[w] = "ok"
  <2>1. log' = [log EXCEPT ![d] = Append(@, [number |-> n, ok |-> TRUE])]
    BY <1>5, <1>6, Zenon
  <2> QED
    BY Zenon, <1>4, <1>6, <2>1 DEF Contract!Record
<1>7. CASE result[w] # "ok"
  <2>1. (result[w] = "ok") = FALSE
    BY <1>7
  <2>2. log' = [log EXCEPT ![d] = Append(@, [number |-> n, ok |-> FALSE])]
    BY <1>5, <2>1, Zenon
  <2> QED
    BY Zenon, <1>4, <1>7, <2>2 DEF Contract!Record
<1> QED
  BY Zenon, <1>6, <1>7

LEMMA ClaimKeeps ==
  ASSUME TypeInv, NEW w \in Worker, Claim(w)
  PROVE  Fates' = Fates
<1>1. PICK S \in SUBSET Delivery :
        /\ FirstDue(S)
        /\ row' = [d \in Delivery |-> IF d \in S THEN Leased(row[d], w) ELSE row[d]]
  BY DEF Claim
<1>2. \A d \in S : row[d].status \in {"pending", "failed", "in_progress"}
  BY <1>1 DEF FirstDue, Due
<1>3. \A d \in Delivery : Fate(row'[d]) = Fate(row[d])
  BY <1>1, <1>2 DEF Fate, Leased
<1> QED
  BY <1>3, FateKept

\* The writes that pass the lease guard find the delivery open.
LEMMA OpenWhenHeld ==
  ASSUME TypeInv, SafetyInv, NEW w \in Worker, NEW t, cur[w] \in Delivery,
         Holds(w, cur[w], t)
  PROVE  Fates[cur[w]] = "open"
<1>1. row[cur[w]].status = "in_progress"
  BY HoldsInProgress DEF SafetyInv
<1> QED
  BY <1>1 DEF Fates, Fate

LEMMA DeferKeeps ==
  ASSUME TypeInv, SafetyInv, NEW w \in Worker, Defer(w)
  PROVE  Fates' = Fates
<1>1. cur[w] \in Delivery
  BY DEF TypeInv, HasJob, Busy, Defer
<1>2. CASE row' = row
  BY <1>2 DEF Fates
<1>3. CASE Holds(w, cur[w], now)
  <2>1. row' = [row EXCEPT ![cur[w]] = Released("failed", stamp[w], row[cur[w]].tries)]
    BY <1>3 DEF Defer
  <2>2. Fates' = [Fates EXCEPT ![cur[w]] = "open"]
    BY Zenon, <1>1, <2>1, FateReleased
  <2>3. Fates[cur[w]] = "open"
    BY <1>1, <1>3, OpenWhenHeld
  <2>4. Fates = [d \in Delivery |-> Fates[d]]
    BY DEF Fates
  <2> QED
    BY <1>1, <2>2, <2>3, <2>4
<1> QED
  BY <1>2, <1>3 DEF Defer

LEMMA CommitContract ==
  ASSUME TypeInv, SafetyInv, NEW w \in Worker,
         CommitSuccess(w) \/ CommitRetry(w) \/ CommitExhausted(w) \/ CommitPoison(w)
  PROVE  Contract!Next
<1> DEFINE d == cur[w]
<1>1. pc[w] = "commit" /\ Holds(w, d, stamp[w]) /\ acked' = acked
  BY DEF CommitSuccess, CommitRetry, CommitExhausted, CommitPoison
<1>2. d \in Delivery
  BY <1>1 DEF TypeInv, HasJob, Busy
<1>3. Fates[d] = "open"
  BY <1>1, <1>2, OpenWhenHeld
<1>4. CASE CommitSuccess(w)
  <2>1. result[w] = "ok" /\ record_attempt(w)
    BY <1>4 DEF CommitSuccess
  <2>2. row' = [row EXCEPT ![d] = Released("succeeded", row[d].next, attempt_number(w))]
    BY <1>4 DEF CommitSuccess
  <2>3. Fates' = [Fates EXCEPT ![d] = "succeeded"]
    BY Zenon, <1>2, <2>2, FateReleased
  <2>4. d \in acked
    BY <1>1, <2>1 DEF SafetyInv, OutcomeTrue
  <2>5. Contract!Record(d, TRUE)
    BY Zenon, <1>1, <2>1, ContractRecord
  <2>6. Contract!Succeed(d)
    BY Zenon, <1>1, <1>3, <2>3, <2>4, <2>5 DEF Contract!Succeed, Fates
  <2> QED
    BY <1>2, <2>6 DEF Contract!Next
<1>5. CASE CommitRetry(w)
  <2>1. result[w] # "ok" /\ record_attempt(w)
    BY <1>5 DEF CommitRetry
  <2>2. PICK n : row' = [row EXCEPT ![d] = Released("failed", n, attempt_number(w))]
    BY Zenon, <1>5 DEF CommitRetry
  <2>3. Fates' = [Fates EXCEPT ![d] = "open"]
    BY Zenon, <1>2, <2>2, FateReleased
  <2>4. Fates' = Fates
    BY <1>2, <1>3, <2>3 DEF Fates
  <2>5. Contract!Record(d, FALSE)
    BY Zenon, <1>1, <2>1, ContractRecord
  <2>6. Contract!Fail(d)
    BY Zenon, <1>1, <1>3, <2>4, <2>5 DEF Contract!Fail, Fates
  <2> QED
    BY <1>2, <2>6 DEF Contract!Next
<1>6. CASE CommitExhausted(w)
  <2>1. result[w] # "ok" /\ record_attempt(w) /\ attempt_number(w) >= MaxAttempts
    BY <1>6 DEF CommitExhausted, is_exhausted
  <2>2. row' = [row EXCEPT ![d] = Released("dead", row[d].next, row[d].tries)]
    BY <1>6 DEF CommitExhausted
  <2>3. Fates' = [Fates EXCEPT ![d] = "dead"]
    BY Zenon, <1>2, <2>2, FateReleased
  <2>4. Contract!Record(d, FALSE)
    BY Zenon, <1>1, <2>1, ContractRecord
  <2>5. d \in Copies(w)
    BY <1>2 DEF Copies
  <2>6. count[w][d] \in Nat /\ Len(log[d]) \in Nat /\ count[w][d] <= Len(log[d])
    BY <1>2, <2>5 DEF SafetyInv, CountsBelowLog, TypeInv, TypeOK
  <2>7. Len(log[d]) + 1 >= MaxAttempts
    BY <2>1, <2>6 DEF attempt_number
  <2>8. Contract!Exhaust(d)
    BY Zenon, <1>1, <1>3, <2>3, <2>4, <2>7 DEF Contract!Exhaust, Fates
  <2> QED
    BY <1>2, <2>8 DEF Contract!Next
<1>7. CASE CommitPoison(w)
  <2>1. result[w] = "poison" /\ log' = log
    BY <1>7 DEF CommitPoison
  <2>2. row' = [row EXCEPT ![d] = Released("dead", row[d].next, row[d].tries)]
    BY <1>7 DEF CommitPoison
  <2>3. Fates' = [Fates EXCEPT ![d] = "dead"]
    BY Zenon, <1>2, <2>2, FateReleased
  <2>4. d \in Poison
    BY <1>1, <2>1 DEF SafetyInv, OutcomeTrue
  <2>5. Contract!Refuse(d)
    BY <1>1, <1>3, <2>1, <2>3, <2>4 DEF Contract!Refuse, Fates
  <2> QED
    BY <1>2, <2>5 DEF Contract!Next
<1> QED
  BY <1>4, <1>5, <1>6, <1>7

LEMMA AdmitContract ==
  ASSUME TypeInv, NEW d \in Delivery, Enqueue(d) \/ Replay(d)
  PROVE  Contract!Next
<1>1. log' = log /\ acked' = acked
  BY DEF Enqueue, Replay
<1>2. PICK k : row' = [row EXCEPT ![d] = Released("pending", now, k)]
  BY DEF Enqueue, Replay
<1>3. Fates' = [Fates EXCEPT ![d] = "open"]
  BY Zenon, <1>2, FateReleased
<1>4. CASE Enqueue(d)
  <2>1. Contract!Submit(d)
    BY <1>1, <1>3, <1>4 DEF Enqueue, Contract!Submit, Fates, Fate
  <2> QED
    BY <2>1 DEF Contract!Next
<1>5. CASE Replay(d)
  <2>1. Fates[d] # "absent"
    BY <1>5 DEF Replay, Fates, Fate
  <2>2. Contract!Reopen(d)
    BY <1>1, <1>3, <2>1 DEF Contract!Reopen, Fates
  <2> QED
    BY <2>2 DEF Contract!Next
<1> QED
  BY <1>4, <1>5

LEMMA RespondContract ==
  ASSUME TypeInv, SafetyInv, NEW w \in Worker, Respond(w)
  PROVE  Contract!Next \/ UNCHANGED Contract!vars
<1>1. row' = row /\ log' = log /\ cur[w] \in Delivery
  BY DEF Respond, dbVars, TypeInv, HasJob, Busy
<1>2. Fates' = Fates
  BY <1>1 DEF Fates
<1>3. CASE acked' = acked
  BY <1>1, <1>2, <1>3 DEF Contract!vars, Fates
<1>4. CASE acked' = acked \cup {cur[w]}
  <2>1. cur[w] \in Copies(w)
    BY <1>1 DEF Copies
  <2>2. Fates[cur[w]] # "absent"
    BY <1>1, <2>1 DEF Fates, Fate, SafetyInv, CopiesExist
  <2>3. Contract!Accept(cur[w])
    BY <1>1, <1>2, <1>4, <2>2 DEF Contract!Accept, Fates
  <2> QED
    BY <1>1, <2>3 DEF Contract!Next
<1> QED
  BY <1>3, <1>4 DEF Respond

LEMMA StepContract ==
  ASSUME TypeInv, SafetyInv, [Next]_vars
  PROVE  Contract!Next \/ UNCHANGED Contract!vars
<1>1. ASSUME Fates' = Fates, log' = log, acked' = acked
      PROVE  UNCHANGED Contract!vars
  BY <1>1 DEF Contract!vars, Fates
<1>2. ASSUME NEW w \in Worker, WorkerStep(w)
      PROVE  Contract!Next \/ UNCHANGED Contract!vars
  <2>1. CASE Claim(w)
    <3>1. log' = log /\ acked' = acked
      BY <2>1 DEF Claim
    <3> QED
      BY <1>1, <2>1, <3>1, ClaimKeeps
  <2>2. CASE Defer(w)
    <3>1. log' = log /\ acked' = acked
      BY <2>2 DEF Defer
    <3> QED
      BY <1>1, <2>2, <3>1, DeferKeeps
  <2>3. CASE Respond(w)
    BY <2>3, RespondContract
  <2>4. CASE CommitSuccess(w) \/ CommitRetry(w) \/ CommitExhausted(w) \/ CommitPoison(w)
    BY <2>4, CommitContract
  <2>5. CASE \/ \E c \in Delivery : Begin(w, c)
             \/ Stop(w) \/ LoadEndpoint(w) \/ AcquireProbe(w) \/ Unsendable(w)
             \/ Abandon(w) \/ DbError(w)
    <3>1. row' = row /\ log' = log /\ acked' = acked
      BY Zenon, <2>5 DEF Begin, Stop, LoadEndpoint, AcquireProbe, Unsendable, Abandon,
                  DbError, dbVars
    <3>2. Fates' = Fates
      BY <3>1 DEF Fates
    <3> QED
      BY <1>1, <3>1, <3>2
  <2> QED
    BY <1>2, <2>1, <2>2, <2>3, <2>4, <2>5 DEF WorkerStep
<1>3. ASSUME NEW d \in Delivery, Enqueue(d) \/ Replay(d)
      PROVE  Contract!Next
  BY <1>3, AdmitContract
<1>4. ASSUME \/ \E e \in Endpoint : SetDisabled(e)
             \/ \E n \in Node : Shutdown(n) \/ Restart(n)
             \/ Tick
             \/ UNCHANGED vars
      PROVE  UNCHANGED Contract!vars
  <2>1. row' = row /\ log' = log /\ acked' = acked
    BY <1>4 DEF SetDisabled, Shutdown, Restart, Tick, vars, dbVars
  <2>2. Fates' = Fates
    BY <2>1 DEF Fates
  <2> QED
    BY <1>1, <2>1, <2>2
<1> QED
  BY <1>2, <1>3, <1>4 DEF Next

\* The dispatcher implements the delivery contract, for any number of
\* processes, workers and deliveries: claims, deferrals, lost leases, crashes
\* and the clock are invisible, every other step is a step of the contract.
THEOREM ContractKept == Spec => KeepsContract
<1>1. Init => Contract!Init
  BY DEF Init, Contract!Init, NewRow, Fate
<1>2. TypeInv /\ SafetyInv /\ [Next]_vars => [Contract!Next]_(Contract!vars)
  BY StepContract
<1> QED
  BY <1>1, <1>2, Safety, PTL DEF Spec, KeepsContract, Contract!Spec

-----------------------------------------------------------------------------
(* The lease as a fence *)

\* No two running workers share a name: one process per database.
UniqueNames == \A w, x \in Worker : Id(w) = Id(x) => w = x

\* A copy whose row still carries the worker's name is the latest claim's copy,
\* and its attempt_count is the row's.
NamedIsFresh ==
  \A w \in Worker : \A d \in Copies(w) :
    row[d].by = Id(w) => d \in fresh[w] /\ count[w][d] = row[d].tries

\* A delivery that was not inserted yet has no attempts.
AbsentIsNew == \A d \in Delivery : row[d].status = "absent" => row[d].tries = 0

FenceInv == NamedIsFresh /\ AbsentIsNew /\ CountsAttempts

-----------------------------------------------------------------------------

\* The lease of a row is dropped or passes to the worker that claims it.
LEMMA LeaseMoves ==
  ASSUME TypeInv, [Next]_vars, NEW d \in Delivery
  PROVE  \/ row'[d] = row[d]
         \/ row'[d].by = Nobody
         \/ \E w \in Worker : Claim(w) /\ row'[d].by = Id(w) /\ row'[d].tries = row[d].tries
<1>1. CASE row' = row
  BY <1>1
<1>2. ASSUME NEW w \in Worker, Claim(w)
      PROVE  row'[d] = row[d] \/ (row'[d].by = Id(w) /\ row'[d].tries = row[d].tries)
  BY <1>2 DEF Claim, Leased, TypeInv, TypeOK
<1>3. ASSUME NEW c \in Delivery, NEW s \in Settling, NEW n \in Nat, NEW k \in Nat,
             row' = [row EXCEPT ![c] = Released(s, n, k)]
      PROVE  row'[d] = row[d] \/ row'[d].by = Nobody
  BY <1>3 DEF Released, TypeInv, TypeOK
<1>4. CASE \E w \in Worker : Claim(w)
  BY <1>2, <1>4
<1>5. CASE ~ \E w \in Worker : Claim(w)
  <2>1. \/ row' = row
        \/ \E c \in Delivery, s \in Settling, n \in Nat, k \in Nat :
             row' = [row EXCEPT ![c] = Released(s, n, k)]
    BY <1>5, RowStep
  <2> QED
    BY <1>1, <1>3, <2>1
<1> QED
  BY <1>4, <1>5

\* A copy taken by a claim is fresh; it stays fresh until it is dropped or
\* another worker claims the row.
LEMMA ClaimFresh ==
  ASSUME TypeInv, LoopInv, NEW x \in Worker, Claim(x), NEW d \in Copies(x)'
  PROVE  /\ d \in fresh'[x] /\ d \in Delivery /\ d \notin Copies(x)
         /\ count'[x][d] = row'[d].tries
<1> USE DEF TypeInv, TypeOK
<1>1. PICK S \in SUBSET Delivery :
        /\ row' = [c \in Delivery |-> IF c \in S THEN Leased(row[c], x) ELSE row[c]]
        /\ batch' = [batch EXCEPT ![x] = S]
        /\ count' = [count EXCEPT ![x] = [c \in Delivery |-> IF c \in S THEN row[c].tries ELSE 0]]
        /\ fresh' = [y \in Worker |-> IF y = x THEN S ELSE fresh[y] \ S]
  BY Zenon DEF Claim
<1>2. pc[x] = "idle" /\ cur' = cur
  BY DEF Claim, jobVars
<1>3. cur[x] = NoDelivery /\ batch[x] = {}
  BY Zenon, <1>2 DEF LoopInv, Busy
<1>4. d \in S
  BY <1>1, <1>2, <1>3 DEF Copies
<1>5. d \notin Copies(x)
  BY <1>3 DEF Copies
<1>6. count'[x][d] = row[d].tries
  BY <1>1, <1>4
<1>7. row'[d].tries = row[d].tries
  BY <1>1, <1>4 DEF Leased
<1> QED
  BY <1>1, <1>4, <1>5, <1>6, <1>7

LEMMA FreshStep ==
  ASSUME TypeInv, LoopInv, [Next]_vars, NEW x \in Worker, NEW d \in Copies(x)',
         d \in fresh[x]
  PROVE  \/ d \in fresh'[x]
         \/ \E w \in Worker : w # x /\ Claim(w) /\ row'[d].by = Id(w)
<1> USE DEF TypeInv, TypeOK
<1>1. d \in batch'[x] \/ (d = cur'[x] /\ d # NoDelivery)
  BY DEF Copies
<1>2. ASSUME NEW w \in Worker, Done(w)
      PROVE  d \in fresh'[x]
  <2>1. batch' = batch /\ cur' = [cur EXCEPT ![w] = NoDelivery]
    BY <1>2 DEF Done
  <2>2. fresh' = [fresh EXCEPT ![w] = @ \ {cur[w]}]
    BY <1>2 DEF Done
  <2>3. CASE x = w
    <3>1. d \in batch[x] /\ d # cur[x]
      BY <1>1, <2>1, <2>3 DEF LoopInv
    <3> QED
      BY <2>2, <2>3, <3>1
  <2>4. CASE x # w
    BY <2>2, <2>4
  <2> QED
    BY <2>3, <2>4
<1>3. ASSUME NEW w \in Worker, WorkerStep(w)
      PROVE  d \in fresh'[x] \/ (w # x /\ Claim(w) /\ row'[d].by = Id(w))
  <2>1. CASE Claim(w)
    <3>1. CASE w = x
      BY <2>1, <3>1, ClaimFresh
    <3>2. CASE w # x
      <4>1. PICK S \in SUBSET Delivery :
              /\ row' = [c \in Delivery |-> IF c \in S THEN Leased(row[c], w) ELSE row[c]]
              /\ fresh' = [y \in Worker |-> IF y = w THEN S ELSE fresh[y] \ S]
        BY Zenon, <2>1 DEF Claim
      <4>2. d \in S => row'[d].by = Id(w)
        BY <4>1 DEF Leased
      <4>3. d \notin S => d \in fresh'[x]
        BY <3>2, <4>1
      <4> QED
        BY <2>1, <3>2, <4>2, <4>3
    <3> QED
      BY <3>1, <3>2
  <2>2. CASE Stop(w)
    <3>1. /\ cur' = cur /\ batch' = [batch EXCEPT ![w] = {}]
          /\ fresh' = [fresh EXCEPT ![w] = {}]
          /\ pc[w] \in {"idle", "batch"}
      BY <2>2 DEF Stop, jobVars
    <3>2. x # w
      BY Zenon, <1>1, <3>1 DEF LoopInv, Busy
    <3> QED
      BY <3>1, <3>2
  <2>3. CASE \/ \E c \in Delivery : Begin(w, c)
             \/ LoadEndpoint(w) \/ AcquireProbe(w) \/ Unsendable(w) \/ Respond(w)
    BY <2>3 DEF Begin, LoadEndpoint, AcquireProbe, Unsendable, Respond
  <2>4. CASE \/ Defer(w) \/ CommitSuccess(w) \/ CommitRetry(w) \/ CommitExhausted(w)
             \/ CommitPoison(w) \/ Abandon(w) \/ DbError(w)
    <3>1. Done(w)
      BY <2>4 DEF Defer, CommitSuccess, CommitRetry, CommitExhausted, CommitPoison,
                  Abandon, DbError
    <3> QED
      BY <1>2, <3>1
  <2> QED
    BY <1>3, <2>1, <2>2, <2>3, <2>4 DEF WorkerStep
<1>4. ASSUME NEW n \in Node, Restart(n)
      PROVE  d \in fresh'[x]
  BY <1>1, <1>4 DEF Restart
<1>5. ASSUME \/ \E c \in Delivery : Enqueue(c) \/ Replay(c)
             \/ \E e \in Endpoint : SetDisabled(e)
             \/ \E n \in Node : Shutdown(n)
             \/ Tick
             \/ UNCHANGED vars
      PROVE  d \in fresh'[x]
  BY Zenon, <1>5 DEF Enqueue, Replay, SetDisabled, Shutdown, Tick, vars, workerVars
<1> QED
  BY <1>3, <1>4, <1>5 DEF Next

\* With distinct names a row that carries the worker's name after a step is
\* the row it had before, or the one it has just claimed.
LEMMA NamedStep ==
  ASSUME UniqueNames, TypeInv, LoopInv, NamedIsFresh, [Next]_vars
  PROVE  NamedIsFresh'
<1> SUFFICES ASSUME NEW x \in Worker, NEW d \in Copies(x)', row'[d].by = Id(x)
             PROVE  d \in fresh'[x] /\ count'[x][d] = row'[d].tries
  BY DEF NamedIsFresh, Id
<1>1. CASE Claim(x)
  BY <1>1, ClaimFresh
<1>2. CASE ~Claim(x)
  <2>1. d \in Delivery /\ d \in Copies(x) /\ count'[x][d] = count[x][d]
    BY <1>2, CopiesStep
  <2>2. \A w \in Worker : Claim(w) => row'[d].by # Id(w)
    BY <1>2 DEF UniqueNames
  <2>3. Id(x) # Nobody
    BY IdType
  <2>4. row'[d] = row[d]
    BY <2>1, <2>2, <2>3, LeaseMoves
  <2>5. d \in fresh[x] /\ count[x][d] = row[d].tries
    BY <2>1, <2>4 DEF NamedIsFresh
  <2>6. d \in fresh'[x]
    BY <2>2, <2>5, FreshStep
  <2> QED
    BY <2>1, <2>4, <2>5, <2>6
<1> QED
  BY <1>1, <1>2

LEMMA AbsentStep ==
  ASSUME TypeInv, AbsentIsNew, [Next]_vars
  PROVE  AbsentIsNew'
<1> SUFFICES ASSUME NEW d \in Delivery, row'[d].status = "absent"
             PROVE  row'[d].tries = 0
  BY DEF AbsentIsNew
<1>1. ASSUME NEW w \in Worker, NEW S \in SUBSET Delivery,
             row' = [c \in Delivery |-> IF c \in S THEN Leased(row[c], w) ELSE row[c]]
      PROVE  row'[d] = row[d]
  BY <1>1 DEF Leased
<1>2. ASSUME NEW c \in Delivery, NEW s \in Settling, NEW n \in Nat, NEW k \in Nat,
             row' = [row EXCEPT ![c] = Released(s, n, k)]
      PROVE  row'[d] = row[d]
  BY <1>2 DEF Released, Settling, TypeInv, TypeOK
<1>3. row'[d] = row[d]
  BY <1>1, <1>2, RowStep
<1> QED
  BY <1>3 DEF AbsentIsNew

\* What a commit adds to the log it adds to attempt_count or to dead_letters.
LEMMA AccountStep ==
  ASSUME TypeInv, OutcomeTrue, FenceInv, [Next]_vars
  PROVE  CountsAttempts'
<1> SUFFICES ASSUME NEW d \in Delivery \ Poison
             PROVE  row'[d].tries + letters'[d] = Len(log'[d])
  BY DEF CountsAttempts
<1>1. row[d].tries + letters[d] = Len(log[d])
  BY DEF FenceInv, CountsAttempts
<1>2. row[d].tries \in Nat /\ letters[d] \in Nat /\ Len(log[d]) \in Nat
  BY DEF TypeInv, TypeOK, Row
<1>3. ASSUME row'[d].tries = row[d].tries, letters'[d] = letters[d], log'[d] = log[d]
      PROVE  row'[d].tries + letters'[d] = Len(log'[d])
  BY <1>1, <1>3
<1>4. ASSUME NEW w \in Worker, Claim(w)
      PROVE  row'[d].tries = row[d].tries /\ letters'[d] = letters[d] /\ log'[d] = log[d]
  BY <1>4 DEF Claim, Leased, TypeInv, TypeOK
<1>5. ASSUME NEW c \in Delivery, Enqueue(c) \/ Replay(c)
      PROVE  row'[d].tries = row[d].tries /\ letters'[d] = letters[d] /\ log'[d] = log[d]
  <2>1. row' = [row EXCEPT ![c] = Released("pending", now, row[c].tries)]
    BY <1>5 DEF Enqueue, Replay, FenceInv, AbsentIsNew
  <2>2. row'[d].tries = row[d].tries
    BY Zenon, <2>1 DEF Released, TypeInv, TypeOK
  <2> QED
    BY <1>5, <2>2 DEF Enqueue, Replay
<1>6. ASSUME NEW w \in Worker,
             \/ Defer(w) \/ CommitSuccess(w) \/ CommitRetry(w)
             \/ CommitExhausted(w) \/ CommitPoison(w)
      PROVE  row'[d].tries + letters'[d] = Len(log'[d])
  <2>1. CASE d # cur[w]
    <3>1. row'[d] = row[d]
      BY <1>6, <2>1, Released1
    <3>2. letters'[d] = letters[d] /\ log'[d] = log[d]
      BY <1>6, <2>1 DEF Defer, CommitSuccess, CommitRetry, CommitExhausted, CommitPoison,
                        record_attempt, TypeInv, TypeOK
    <3> QED
      BY <1>3, <3>1, <3>2
  <2>2. CASE d = cur[w] /\ Defer(w)
    <3>1. row'[d].tries = row[d].tries
      BY <1>6, <2>2, Released1
    <3>2. letters'[d] = letters[d] /\ log'[d] = log[d]
      BY <2>2 DEF Defer
    <3> QED
      BY <1>3, <3>1, <3>2
  <2>3. CASE d = cur[w] /\ (CommitSuccess(w) \/ CommitRetry(w))
    <3>1. pc[w] = "commit" /\ record_attempt(w) /\ letters' = letters /\ row[d].by = Id(w)
      BY <2>3 DEF CommitSuccess, CommitRetry, Holds
    <3>2. d \in Copies(w)
      BY <2>3 DEF Copies
    <3>3. count[w][d] = row[d].tries
      BY <3>1, <3>2 DEF FenceInv, NamedIsFresh
    <3>4. row'[d].tries = attempt_number(w)
      BY <1>6, <2>3, Released1
    <3>5. attempt_number(w) = count[w][d] + 1 /\ Len(log'[d]) = Len(log[d]) + 1
      BY Zenon, <2>3, <3>1, Recorded
    <3> QED
      BY <1>1, <1>2, <3>1, <3>3, <3>4, <3>5
  <2>4. CASE d = cur[w] /\ CommitExhausted(w)
    <3>1. pc[w] = "commit" /\ record_attempt(w)
      BY <2>4 DEF CommitExhausted
    <3>2. letters'[d] = letters[d] + 1
      BY <2>4 DEF CommitExhausted, TypeInv, TypeOK
    <3>3. row'[d].tries = row[d].tries
      BY <1>6, <2>4, Released1
    <3>4. Len(log'[d]) = Len(log[d]) + 1
      BY Zenon, <2>4, <3>1, Recorded
    <3> QED
      BY <1>1, <1>2, <3>2, <3>3, <3>4
  <2>5. CASE d = cur[w] /\ CommitPoison(w)
    BY <2>5 DEF CommitPoison, OutcomeTrue
  <2> QED
    BY <1>6, <2>1, <2>2, <2>3, <2>4, <2>5
<1>7. ASSUME UNCHANGED <<row, log, letters>>
      PROVE  row'[d].tries = row[d].tries /\ letters'[d] = letters[d] /\ log'[d] = log[d]
  BY <1>7
<1> QED
  BY <1>3, <1>4, <1>5, <1>6, <1>7, DbStep

LEMMA NextFence ==
  UniqueNames /\ TypeInv /\ SafetyInv /\ FenceInv /\ [Next]_vars => FenceInv'
BY NamedStep, AbsentStep, AccountStep DEF FenceInv, SafetyInv

LEMMA InitFence == Init => FenceInv
<1> SUFFICES ASSUME Init PROVE FenceInv
  OBVIOUS
<1>1. \A w \in Worker : Copies(w) = {}
  BY DEF Init, Copies
<1>2. NamedIsFresh /\ AbsentIsNew
  BY <1>1 DEF NamedIsFresh, AbsentIsNew, Init, NewRow
<1>3. CountsAttempts
  BY DEF CountsAttempts, Init, NewRow
<1> QED
  BY <1>2, <1>3 DEF FenceInv

\* With distinct worker names the inductive invariant of the lease fence holds: a
\* worker that passes the guard of mark_succeeded and its siblings has the latest
\* claim of the row.
THEOREM Fence ==
  ASSUME UniqueNames
  PROVE  Spec => [](TypeInv /\ SafetyInv /\ FenceInv)
<1>1. Init => TypeInv /\ SafetyInv /\ FenceInv
  BY InitType, InitSafety, InitFence
<1>2. TypeInv /\ SafetyInv /\ FenceInv /\ [Next]_vars => (TypeInv /\ SafetyInv /\ FenceInv)'
  BY NextType, NextSafety, NextFence
<1> QED
  BY <1>1, <1>2, PTL DEF Spec

\* With distinct worker names, mark_succeeded, mark_failed, mark_dead_on and
\* defer_delivery only ever succeed for the latest claim of the row.
THEOREM LeaseIsFence ==
  ASSUME UniqueNames
  PROVE  Spec => []Fenced
<1>1. TypeInv /\ FenceInv => Fenced
  <2> SUFFICES ASSUME TypeInv, FenceInv, NEW w \in Worker, pc[w] \in {"commit", "defer"},
                      row[cur[w]].by = Id(w)
               PROVE  cur[w] \in fresh[w]
    BY DEF Fenced, Holds
  <2>1. cur[w] \in Delivery
    BY DEF TypeInv, HasJob, Busy
  <2>2. cur[w] \in Copies(w)
    BY <2>1 DEF Copies
  <2> QED
    BY <2>2 DEF FenceInv, NamedIsFresh
<1> QED
  BY <1>1, Fence, PTL

\* With distinct worker names every row of delivery_attempts is accounted for,
\* in attempt_count or by a dead letter, whatever leases lapse.
THEOREM AttemptsAccounted ==
  ASSUME UniqueNames
  PROVE  Spec => []CountsAttempts
<1>1. FenceInv => CountsAttempts
  BY DEF FenceInv
<1> QED
  BY <1>1, Fence, PTL

=============================================================================
