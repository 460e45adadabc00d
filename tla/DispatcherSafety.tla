-------------------------- MODULE DispatcherSafety --------------------------
(***************************************************************************)
(* The safety of the dispatcher with any number of processes: coherent     *)
(* leases and breakers, and an attempt log that accounts for every settled *)
(* delivery.                                                               *)
(***************************************************************************)
EXTENDS DispatcherProofs

USE ZenonT(5), SMTT(20), ZenonT(30), SMTT(60), CircuitAssumption, RetryAssumption, DispatcherAssumption

-----------------------------------------------------------------------------
(* Every conjunct of the invariant is preserved *)

LEMMA CopiesExistStep ==
  ASSUME TypeInv, LoopInv, CopiesExist, [Next]_vars
  PROVE  CopiesExist'
<1> USE DEF TypeInv, TypeOK
<1> SUFFICES ASSUME NEW x \in Worker, NEW d \in Copies(x)'
             PROVE  row'[d].status # "absent"
  BY DEF CopiesExist
<1>1. d \in Delivery /\ row[d].status # "absent"
  BY CopiesStep DEF CopiesExist
<1>2. CASE row' = row
  BY <1>1, <1>2
<1>3. ASSUME NEW w \in Worker, NEW S \in SUBSET Delivery,
             row' = [c \in Delivery |-> IF c \in S THEN Leased(row[c], w) ELSE row[c]]
      PROVE  row'[d].status # "absent"
  BY <1>1, <1>3 DEF Leased
<1>4. ASSUME NEW c \in Delivery, NEW s \in Settling, NEW n \in Nat, NEW k \in Nat,
             row' = [row EXCEPT ![c] = Released(s, n, k)]
      PROVE  row'[d].status # "absent"
  BY <1>1, <1>4 DEF Released, Settling
<1> HIDE DEF TypeInv, TypeOK
<1> QED
  BY <1>2, <1>3, <1>4, RowStep

\* The outcome a worker commits is the one it met: Respond and Unsendable set
\* it, and nothing disturbs it before the worker is done.
LEMMA OutcomeStep ==
  ASSUME TypeInv, OutcomeTrue, [Next]_vars
  PROVE  OutcomeTrue'
<1> USE DEF TypeInv, TypeOK
<1> SUFFICES ASSUME NEW x \in Worker, pc'[x] = "commit"
             PROVE  /\ result'[x] = "ok" => cur'[x] \in acked'
                    /\ result'[x] = "poison" => cur'[x] \in Poison
  BY DEF OutcomeTrue
<1>1. acked \subseteq acked'
  BY DbStep
<1>2. ASSUME pc[x] = "commit", result'[x] = result[x], cur'[x] = cur[x]
      PROVE  /\ result'[x] = "ok" => cur'[x] \in acked'
             /\ result'[x] = "poison" => cur'[x] \in Poison
  BY <1>1, <1>2 DEF OutcomeTrue
<1> DEFINE Kept == pc[x] = "commit" /\ result'[x] = result[x] /\ cur'[x] = cur[x]
<1>3. ASSUME NEW w \in Worker, WorkerStep(w)
      PROVE  Kept \/ Respond(x) \/ Unsendable(x)
  <2>1. CASE \/ Defer(w) \/ CommitSuccess(w) \/ CommitRetry(w) \/ CommitExhausted(w)
             \/ CommitPoison(w) \/ Abandon(w) \/ DbError(w)
    <3>1. Done(w)
      BY <2>1 DEF Defer, CommitSuccess, CommitRetry, CommitExhausted, CommitPoison,
                  Abandon, DbError
    <3>2. x # w
      BY <3>1 DEF Done
    <3> QED
      BY <3>1, <3>2 DEF Done
  <2>2. CASE Claim(w) \/ Stop(w)
    BY <2>2 DEF Claim, Stop, jobVars
  <2>3. CASE \E c \in Delivery : Begin(w, c)
    BY <2>3 DEF Begin
  <2>4. CASE LoadEndpoint(w)
    BY <2>4 DEF LoadEndpoint
  <2>5. CASE AcquireProbe(w)
    BY <2>5 DEF AcquireProbe
  <2>6. CASE Respond(w)
    BY Zenon, <2>6 DEF Respond
  <2>7. CASE Unsendable(w)
    BY Zenon, <2>7 DEF Unsendable
  <2> QED
    BY <1>3, <2>1, <2>2, <2>3, <2>4, <2>5, <2>6, <2>7 DEF WorkerStep
<1>4. ASSUME Respond(x) \/ Unsendable(x)
      PROVE  /\ result'[x] = "ok" => cur'[x] \in acked'
             /\ result'[x] = "poison" => cur'[x] \in Poison
  BY <1>4 DEF Respond, Unsendable
<1>5. ASSUME NEW n \in Node, Restart(n)
      PROVE  Kept
  BY <1>5 DEF Restart
<1>6. ASSUME \/ \E d \in Delivery : Enqueue(d) \/ Replay(d)
             \/ \E e \in Endpoint : SetDisabled(e)
             \/ \E n \in Node : Shutdown(n)
             \/ Tick
             \/ UNCHANGED vars
      PROVE  Kept
  BY Zenon, <1>6 DEF Enqueue, Replay, SetDisabled, Shutdown, Tick, vars, workerVars, jobVars
<1>7. Kept \/ Respond(x) \/ Unsendable(x)
  BY <1>3, <1>5, <1>6 DEF Next
<1> QED
  BY <1>2, <1>4, <1>7

LEMMA ReleasedRow ==
  ASSUME TypeInv, NEW c \in Delivery, NEW s, NEW n, NEW k,
         row' = [row EXCEPT ![c] = Released(s, n, k)], NEW d \in Delivery
  PROVE  /\ d = c => row'[d].status = s /\ row'[d].tries = k
         /\ d # c => row'[d] = row[d]
BY DEF TypeInv, TypeOK, Released

\* The row a worker releases, and the outcome that it releases with.
LEMMA Released1 ==
  ASSUME TypeInv, NEW w \in Worker,
         \/ Defer(w) \/ CommitSuccess(w) \/ CommitRetry(w)
         \/ CommitExhausted(w) \/ CommitPoison(w),
         NEW d \in Delivery
  PROVE  /\ cur[w] \in Delivery
         /\ d # cur[w] => row'[d] = row[d]
         /\ CommitSuccess(w) \/ CommitRetry(w) => row'[cur[w]].tries = attempt_number(w)
         /\ Defer(w) \/ CommitExhausted(w) \/ CommitPoison(w) => row'[cur[w]].tries = row[cur[w]].tries
         /\ CommitSuccess(w) => row'[cur[w]].status = "succeeded"
         /\ CommitRetry(w) => row'[cur[w]].status = "failed"
         /\ Defer(w) => row'[cur[w]].status \in {"failed", row[cur[w]].status}
         /\ CommitExhausted(w) \/ CommitPoison(w) => row'[cur[w]].status = "dead"
<1> DEFINE c == cur[w]
<1>1. c \in Delivery
  BY DEF TypeInv, HasJob, Busy, Defer, CommitSuccess, CommitRetry, CommitExhausted, CommitPoison
<1>2. CommitSuccess(w) => row' = [row EXCEPT ![c] = Released("succeeded", row[c].next, attempt_number(w))]
  BY DEF CommitSuccess
<1>3. CommitRetry(w) => \E n : row' = [row EXCEPT ![c] = Released("failed", n, attempt_number(w))]
  BY Zenon DEF CommitRetry
<1>4. CommitExhausted(w) \/ CommitPoison(w) => row' = [row EXCEPT ![c] = Released("dead", row[c].next, row[c].tries)]
  BY DEF CommitExhausted, CommitPoison
<1>5. Defer(w) => row' = row \/ row' = [row EXCEPT ![c] = Released("failed", stamp[w], row[c].tries)]
  BY DEF Defer
<1> QED
  BY <1>1, <1>2, <1>3, <1>4, <1>5, ReleasedRow

LEMMA CountsStep ==
  ASSUME TypeInv, LoopInv, CountsBelowLog, [Next]_vars
  PROVE  CountsBelowLog'
<1> USE DEF TypeInv, TypeOK
<1>1. \A d \in Delivery : Len(log[d]) <= Len(log'[d])
  BY LogStep
<1>2. TypeInv'
  BY NextType
<1>3. \A d \in Delivery : Len(log[d]) \in Nat /\ Len(log'[d]) \in Nat /\ row[d].tries \in Nat
  BY <1>2 DEF Row
<1>4. ASSUME NEW x \in Worker, NEW d \in Copies(x)'
      PROVE  count'[x][d] <= Len(log'[d])
  <2>1. d \in Delivery /\ count'[x][d] \in Nat
    BY <1>2, CopiesStep
  <2>2. count'[x][d] <= Len(log[d])
    BY Zenon, <2>1, CopiesStep DEF CountsBelowLog
  <2> QED
    BY <1>1, <1>3, <2>1, <2>2
<1>5. ASSUME NEW d \in Delivery, row'[d].tries \in {row[d].tries, 0}
      PROVE  row'[d].tries <= Len(log'[d])
  BY <1>1, <1>3, <1>5 DEF CountsBelowLog
<1>6. ASSUME NEW w \in Worker, CommitSuccess(w) \/ CommitRetry(w), NEW d \in Delivery
      PROVE  row'[d].tries <= Len(log'[d])
  <2>1. pc[w] = "commit" /\ record_attempt(w)
    BY <1>6 DEF CommitSuccess, CommitRetry
  <2>2. d # cur[w] => row'[d].tries = row[d].tries
    BY <1>6, Released1
  <2>3. CASE d # cur[w]
    BY <1>5, <2>2, <2>3
  <2>4. CASE d = cur[w]
    <3>1. row'[d].tries = attempt_number(w)
      BY Zenon, <1>6, <2>4, Released1
    <3>2. attempt_number(w) = count[w][d] + 1 /\ Len(log'[d]) = Len(log[d]) + 1
      BY Zenon, <2>1, <2>4, Recorded
    <3>3. d \in Copies(w)
      BY <2>4 DEF Copies
    <3>4. count[w][d] <= Len(log[d]) /\ count[w][d] \in Nat
      BY <3>3 DEF CountsBelowLog
    <3> QED
      BY <1>3, <3>1, <3>2, <3>4
  <2> QED
    BY <2>3, <2>4
<1>7. ASSUME NEW w \in Worker, Claim(w), NEW d \in Delivery
      PROVE  row'[d].tries = row[d].tries
  BY <1>7 DEF Claim, Leased
<1>8. ASSUME NEW w \in Worker, Defer(w) \/ CommitExhausted(w) \/ CommitPoison(w),
             NEW d \in Delivery
      PROVE  row'[d].tries = row[d].tries
  <2> HIDE DEF TypeInv, TypeOK
  <2>1. CASE d = cur[w]
    BY <1>8, <2>1, Released1
  <2>2. CASE d # cur[w]
    BY <1>8, <2>2, Released1
  <2> QED
    BY <2>1, <2>2
<1>9. ASSUME NEW c \in Delivery, Enqueue(c) \/ Replay(c), NEW d \in Delivery
      PROVE  row'[d].tries \in {row[d].tries, 0}
  <2>1. \/ row' = [row EXCEPT ![c] = Released("pending", now, 0)]
        \/ row' = [row EXCEPT ![c] = Released("pending", now, row[c].tries)]
    BY <1>9 DEF Enqueue, Replay
  <2> HIDE DEF TypeInv, TypeOK
  <2>2. d = c => row'[d].tries \in {row[d].tries, 0}
    BY <2>1, ReleasedRow
  <2>3. d # c => row'[d] = row[d]
    BY <2>1, ReleasedRow
  <2> QED
    BY <2>2, <2>3
<1>10. ASSUME row' = row, NEW d \in Delivery
       PROVE  row'[d].tries = row[d].tries
  BY <1>10
<1>11. \A d \in Delivery : row'[d].tries <= Len(log'[d])
  <2> HIDE DEF TypeInv, TypeOK
  <2> QED
    BY <1>5, <1>6, <1>7, <1>8, <1>9, <1>10, DbStep
<1> QED
  BY <1>4, <1>11 DEF CountsBelowLog

\* A dead letter is never withdrawn.
LEMMA LettersStep ==
  ASSUME TypeInv, [Next]_vars, NEW d \in Delivery
  PROVE  letters'[d] >= letters[d] /\ letters[d] \in Nat
<1> USE DEF TypeInv, TypeOK
<1>1. ASSUME NEW w \in Worker, CommitExhausted(w) \/ CommitPoison(w)
      PROVE  letters'[d] >= letters[d]
  <2>1. letters' = [letters EXCEPT ![cur[w]] = @ + 1]
    BY <1>1 DEF CommitExhausted, CommitPoison
  <2> QED
    BY <2>1
<1>2. letters[d] \in Nat
  OBVIOUS
<1> HIDE DEF TypeInv, TypeOK
<1>3. ASSUME NEW w \in Worker, Claim(w) \/ Defer(w) \/ CommitSuccess(w) \/ CommitRetry(w)
      PROVE  letters' = letters
  BY <1>3 DEF Claim, Defer, CommitSuccess, CommitRetry
<1>4. ASSUME NEW c \in Delivery, Enqueue(c) \/ Replay(c)
      PROVE  letters' = letters
  BY <1>4 DEF Enqueue, Replay
<1>5. letters' = letters \/ letters'[d] >= letters[d]
  BY <1>1, <1>3, <1>4, DbStep
<1> QED
  BY <1>2, <1>5

\* Which steps can end a delivery.
LEMMA StatusStep ==
  ASSUME TypeInv, LeaseCoherent, [Next]_vars, NEW d \in Delivery
  PROVE  \/ row'[d] = row[d] /\ log'[d] = log[d]
         \/ row'[d].status \in {"pending", "in_progress", "failed"}
         \/ \E w \in Worker : /\ d = cur[w]
                              /\ CommitSuccess(w) \/ CommitExhausted(w) \/ CommitPoison(w)
<1>1. ASSUME row' = row, log' = log
      PROVE  row'[d] = row[d] /\ log'[d] = log[d]
  BY <1>1
<1>2. ASSUME NEW w \in Worker, Claim(w)
      PROVE  (row'[d] = row[d] /\ log'[d] = log[d]) \/ row'[d].status = "in_progress"
  BY <1>2 DEF Claim, Leased, TypeInv, TypeOK
<1>3. ASSUME NEW c \in Delivery, Enqueue(c) \/ Replay(c)
      PROVE  (row'[d] = row[d] /\ log'[d] = log[d]) \/ row'[d].status = "pending"
  <2>1. \/ row' = [row EXCEPT ![c] = Released("pending", now, 0)]
        \/ row' = [row EXCEPT ![c] = Released("pending", now, row[c].tries)]
    BY <1>3 DEF Enqueue, Replay
  <2>2. log' = log
    BY <1>3 DEF Enqueue, Replay
  <2> QED
    BY <2>1, <2>2, ReleasedRow
<1>4. ASSUME NEW w \in Worker, Defer(w)
      PROVE  (row'[d] = row[d] /\ log'[d] = log[d]) \/ row'[d].status = "failed"
  <2>1. cur[w] \in Delivery /\ log' = log
    BY Zenon, <1>4, Released1 DEF Defer
  <2>2. row' = row \/ row' = [row EXCEPT ![cur[w]] = Released("failed", stamp[w], row[cur[w]].tries)]
    BY <1>4 DEF Defer
  <2>3. CASE row' = row
    BY <2>1, <2>3
  <2>4. CASE row' = [row EXCEPT ![cur[w]] = Released("failed", stamp[w], row[cur[w]].tries)]
    BY <2>1, <2>4 DEF TypeInv, TypeOK, Released
  <2> QED
    BY <2>2, <2>3, <2>4
<1>5. ASSUME NEW w \in Worker,
             CommitSuccess(w) \/ CommitRetry(w) \/ CommitExhausted(w) \/ CommitPoison(w)
      PROVE  \/ row'[d] = row[d] /\ log'[d] = log[d]
             \/ row'[d].status = "failed"
             \/ /\ d = cur[w]
                /\ CommitSuccess(w) \/ CommitExhausted(w) \/ CommitPoison(w)
  <2>1. CASE d = cur[w]
    BY <1>5, <2>1, Released1
  <2>2. CASE d # cur[w]
    <3>1. row'[d] = row[d]
      BY <1>5, <2>2, Released1
    <3>2. log'[d] = log[d]
      BY <1>5, <2>2 DEF TypeInv, TypeOK, CommitSuccess, CommitRetry, CommitExhausted,
                        CommitPoison, record_attempt
    <3> QED
      BY <3>1, <3>2
  <2> QED
    BY <2>1, <2>2
<1> QED
  BY <1>1, <1>2, <1>3, <1>4, <1>5, DbStep

LEMMA DeadStep ==
  ASSUME TypeInv, LoopInv, LeaseCoherent, CountsBelowLog, OutcomeTrue, DeadOnlyExhausted,
         [Next]_vars
  PROVE  DeadOnlyExhausted'
<1> SUFFICES ASSUME NEW d \in Delivery, row'[d].status = "dead"
             PROVE  letters'[d] > 0 /\ (d \in Poison \/ Len(log'[d]) >= MaxAttempts)
  BY DEF DeadOnlyExhausted
<1>1. /\ letters'[d] >= letters[d] /\ letters[d] \in Nat /\ letters'[d] \in Nat
      /\ Len(log[d]) \in Nat /\ Len(log'[d]) \in Nat
  <2>1. letters \in [Delivery -> Nat] /\ log \in [Delivery -> Seq(Attempt)]
    BY DEF TypeInv, TypeOK
  <2>2. letters' \in [Delivery -> Nat] /\ log' \in [Delivery -> Seq(Attempt)]
    BY NextType DEF TypeInv, TypeOK
  <2> QED
    BY <2>1, <2>2, LettersStep
<1>2. CASE row'[d] = row[d] /\ log'[d] = log[d]
  BY <1>1, <1>2 DEF DeadOnlyExhausted
<1>3. ASSUME NEW w \in Worker, d = cur[w], CommitSuccess(w)
      PROVE  FALSE
  BY <1>3, Released1
<1>4. ASSUME NEW w \in Worker, d = cur[w], CommitExhausted(w) \/ CommitPoison(w)
      PROVE  letters'[d] > 0
  <2>1. letters' = [letters EXCEPT ![d] = @ + 1]
    BY <1>4 DEF CommitExhausted, CommitPoison
  <2> QED
    BY <1>1, <2>1 DEF TypeInv, TypeOK
<1>5. ASSUME NEW w \in Worker, d = cur[w], CommitExhausted(w)
      PROVE  Len(log'[d]) >= MaxAttempts
  <2>1. pc[w] = "commit" /\ record_attempt(w) /\ attempt_number(w) >= MaxAttempts
    BY <1>5 DEF CommitExhausted, is_exhausted
  <2>2. attempt_number(w) = count[w][d] + 1 /\ Len(log'[d]) = Len(log[d]) + 1
    BY Zenon, <1>5, <2>1, Recorded
  <2>3. d \in Copies(w)
    BY <1>5 DEF Copies
  <2>4. count[w][d] \in Nat /\ count[w][d] <= Len(log[d])
    BY <2>3 DEF CountsBelowLog, TypeInv, TypeOK
  <2> QED
    BY <1>1, <2>1, <2>2, <2>4
<1>6. ASSUME NEW w \in Worker, d = cur[w], CommitPoison(w)
      PROVE  d \in Poison
  BY <1>6 DEF CommitPoison, OutcomeTrue
<1>7. CASE \E w \in Worker : /\ d = cur[w]
                             /\ CommitSuccess(w) \/ CommitExhausted(w) \/ CommitPoison(w)
  <2>1. PICK w \in Worker : /\ d = cur[w]
                            /\ CommitSuccess(w) \/ CommitExhausted(w) \/ CommitPoison(w)
    BY <1>7
  <2>2. CASE CommitSuccess(w)
    BY <1>3, <2>1, <2>2
  <2>3. CASE CommitExhausted(w)
    BY <1>4, <1>5, <2>1, <2>3
  <2>4. CASE CommitPoison(w)
    BY <1>4, <1>6, <2>1, <2>4
  <2> QED
    BY <2>1, <2>2, <2>3, <2>4
<1>8. \/ row'[d] = row[d] /\ log'[d] = log[d]
      \/ \E w \in Worker : /\ d = cur[w]
                           /\ CommitSuccess(w) \/ CommitExhausted(w) \/ CommitPoison(w)
  BY StatusStep
<1> QED
  BY <1>2, <1>7, <1>8, Zenon

LEMMA SucceededStep ==
  ASSUME TypeInv, LeaseCoherent, OutcomeTrue, SucceededRecorded, [Next]_vars
  PROVE  SucceededRecorded'
<1> SUFFICES ASSUME NEW d \in Delivery, row'[d].status = "succeeded"
             PROVE  /\ d \in acked'
                    /\ Len(log'[d]) > 0
                    /\ log'[d][Len(log'[d])] = [number |-> row'[d].tries, ok |-> TRUE]
  BY DEF SucceededRecorded
<1>1. acked \subseteq acked'
  BY DbStep
<1>2. CASE row'[d] = row[d] /\ log'[d] = log[d]
  BY <1>1, <1>2 DEF SucceededRecorded
<1>3. ASSUME NEW w \in Worker, d = cur[w], CommitExhausted(w) \/ CommitPoison(w)
      PROVE  FALSE
  BY <1>3, Released1
<1>4. ASSUME NEW w \in Worker, d = cur[w], CommitSuccess(w)
      PROVE  /\ d \in acked'
             /\ Len(log'[d]) > 0
             /\ log'[d][Len(log'[d])] = [number |-> row'[d].tries, ok |-> TRUE]
  <2>1. pc[w] = "commit" /\ result[w] = "ok" /\ record_attempt(w)
    BY <1>4 DEF CommitSuccess
  <2>2. row'[d].tries = attempt_number(w)
    BY <1>4, Released1
  <2>3. Len(log[d]) \in Nat
    BY DEF TypeInv, TypeOK
  <2>4. Len(log'[d]) = Len(log[d]) + 1
    BY Zenon, <1>4, <2>1, Recorded
  <2>5. log'[d][Len(log'[d])] = [number |-> attempt_number(w), ok |-> result[w] = "ok"]
    BY <1>4, <2>1, Recorded
  <2>6. (result[w] = "ok") = TRUE
    BY <2>1
  <2>7. d \in acked'
    BY <1>1, <1>4, <2>1 DEF OutcomeTrue
  <2>8. log'[d][Len(log'[d])] = [number |-> attempt_number(w), ok |-> TRUE]
    BY <2>5, <2>6, Zenon
  <2>9. Len(log'[d]) > 0
    BY <2>3, <2>4
  <2> QED
    BY <2>2, <2>7, <2>8, <2>9, Zenon
<1>5. CASE \E w \in Worker : /\ d = cur[w]
                             /\ CommitSuccess(w) \/ CommitExhausted(w) \/ CommitPoison(w)
  <2>1. PICK w \in Worker : /\ d = cur[w]
                            /\ CommitSuccess(w) \/ CommitExhausted(w) \/ CommitPoison(w)
    BY <1>5
  <2>2. CASE CommitSuccess(w)
    BY <1>4, <2>1, <2>2, Zenon
  <2>3. CASE CommitExhausted(w) \/ CommitPoison(w)
    BY <1>3, <2>1, <2>3
  <2> QED
    BY <2>1, <2>2, <2>3
<1>6. \/ row'[d] = row[d] /\ log'[d] = log[d]
      \/ \E w \in Worker : /\ d = cur[w]
                           /\ CommitSuccess(w) \/ CommitExhausted(w) \/ CommitPoison(w)
  BY StatusStep
<1> QED
  BY <1>2, <1>5, <1>6, Zenon

-----------------------------------------------------------------------------
(* The invariants *)

LEMMA InitSafety ==
  ASSUME Init
  PROVE  SafetyInv
<1> USE DEF Init, NewRow
<1>1. LoopInv /\ CopiesExist
  BY DEF LoopInv, CopiesExist, Copies, Busy
<1>2. LeaseCoherent
  BY DEF LeaseCoherent
<1>3. CircuitCoherent /\ SeenCoherent
  BY NewEndpointCoherent DEF CircuitCoherent, SeenCoherent
<1>4. CountsBelowLog
  <2>1. \A w \in Worker : Copies(w) = {}
    BY DEF Copies
  <2> QED
    BY <2>1 DEF CountsBelowLog
<1>5. OutcomeTrue /\ DeadOnlyExhausted /\ SucceededRecorded
  BY DEF OutcomeTrue, DeadOnlyExhausted, SucceededRecorded
<1> QED
  BY <1>1, <1>2, <1>3, <1>4, <1>5 DEF SafetyInv

LEMMA NextSafety ==
  ASSUME TypeInv, SafetyInv, [Next]_vars
  PROVE  SafetyInv'
<1>1. LoopInv' /\ LeaseCoherent'
  BY LoopStep, LeaseStep DEF SafetyInv
<1>2. CircuitCoherent' /\ SeenCoherent'
  BY CircuitStep DEF SafetyInv
<1>3. CountsBelowLog' /\ CopiesExist'
  BY CountsStep, CopiesExistStep DEF SafetyInv
<1>4. OutcomeTrue' /\ DeadOnlyExhausted' /\ SucceededRecorded'
  BY OutcomeStep, DeadStep, SucceededStep DEF SafetyInv
<1> QED
  BY <1>1, <1>2, <1>3, <1>4 DEF SafetyInv

\* The inductive invariant holds in every reachable state of run_worker,
\* process_one and fail, with any number of processes.
THEOREM Safety == Spec => [](TypeInv /\ SafetyInv)
<1>1. Init => TypeInv /\ SafetyInv
  BY InitType, InitSafety
<1>2. TypeInv /\ SafetyInv /\ [Next]_vars => (TypeInv /\ SafetyInv)'
  BY NextType, NextSafety
<1> QED
  BY <1>1, <1>2, PTL DEF Spec

\* claim_due_deliveries and the releasing UPDATEs keep the lock columns and the
\* status of a row in step.
THEOREM LeasesCoherent == Spec => []LeaseCoherent
<1>1. SafetyInv => LeaseCoherent
  BY DEF SafetyInv
<1> QED
  BY <1>1, Safety, PTL

\* on_success, on_failure and try_acquire_probe keep the breaker's columns in
\* step although they are computed from stale snapshots.
THEOREM CircuitsCoherent == Spec => []CircuitCoherent
<1>1. SafetyInv => CircuitCoherent
  BY DEF SafetyInv
<1> QED
  BY <1>1, Safety, PTL

\* fail and mark_dead_on give a delivery up only when its budget is used up.
THEOREM NoEarlyDeath == Spec => []DeadOnlyExhausted
<1>1. SafetyInv => DeadOnlyExhausted
  BY DEF SafetyInv
<1> QED
  BY <1>1, Safety, PTL

\* mark_succeeded is backed by a 2xx, which is the last attempt in the log.
THEOREM SuccessIsRecorded == Spec => []SucceededRecorded
<1>1. SafetyInv => SucceededRecorded
  BY DEF SafetyInv
<1> QED
  BY <1>1, Safety, PTL

=============================================================================
