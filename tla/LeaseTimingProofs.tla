-------------------------- MODULE LeaseTimingProofs --------------------------
(***************************************************************************)
(* A lease that is Sized outlasts every batch, for any number of workers,  *)
(* deliveries and endpoints and any settings.                              *)
(*                                                                         *)
(* The argument is a budget: what a worker may still take for its batch is *)
(* HttpTimeout + DbTime for each delivery it has not started, and what is  *)
(* left of the two for the one it works on.  A claim starts with less than *)
(* a lease of it, and a tick takes one from the lease and one from the     *)
(* budget.  Type correctness needs no such premise and is proved at the    *)
(* end.                                                                    *)
(***************************************************************************)
EXTENDS LeaseTiming, FiniteSetTheorems, TLAPS

USE ZenonT(5), SMTT(20), ZenonT(30), SMTT(60), LeaseTimingAssumption

PC == {"idle", "batch", "probe", "defer", "send", "commit"}

Types ==
  /\ DOMAIN row = Delivery
  /\ pc \in [Worker -> PC]
  /\ batch \in [Worker -> SUBSET Delivery]
  /\ cur \in [Worker -> Delivery \cup {NoDelivery}]
  /\ post \in [Worker -> Nat]
  /\ slack \in [Worker -> Nat]
  /\ fresh \in [Worker -> SUBSET Delivery]

\* Between deliveries nothing is in hand and no time is allowed.
Shape(w) ==
  /\ pc[w] \in {"idle", "batch"} => cur[w] = NoDelivery /\ post[w] = 0 /\ slack[w] = 0
  /\ pc[w] = "idle" => batch[w] = {}

Each == HttpTimeout + DbTime

Budget(w) == Cardinality(batch[w]) * Each + post[w] + slack[w]

\* The lease of a copy is the worker's and longer than what it may still take.
Leased(w, d) ==
  /\ row[d].status = "in_progress" /\ row[d].by = w
  /\ row[d].left \in Int /\ row[d].left > Budget(w)

LeaseInv ==
  /\ Types
  /\ \A w \in Worker : Shape(w)
  /\ \A w \in Worker : \A d \in Copies(w) \cap fresh[w] : Leased(w, d)

-----------------------------------------------------------------------------
(* Batches *)

LEMMA BatchSizes ==
  ASSUME NEW B \in SUBSET Delivery
  PROVE  /\ IsFiniteSet(B) /\ Cardinality(B) \in Nat
         /\ B = {} => Cardinality(B) = 0
         /\ \A d \in B : Cardinality(B \ {d}) = Cardinality(B) - 1
<1>1. IsFiniteSet(B)
  BY FS_Subset
<1>2. Cardinality(B) \in Nat
  BY <1>1, FS_CardinalityType
<1>3. ASSUME NEW d \in B PROVE Cardinality(B \ {d}) = Cardinality(B) - 1
  BY Zenon, <1>1, FS_RemoveElement
<1> QED
  BY <1>1, <1>2, <1>3, FS_EmptySet

LEMMA Products ==
  ASSUME NEW n \in Nat, NEW m \in Nat, NEW b \in Nat
  PROVE  /\ n * b \in Nat
         /\ n <= m => n * b <= m * b
         /\ n > 0 => (n - 1) * b + b = n * b
BY Z3

LEMMA BudgetType ==
  ASSUME Types, NEW w \in Worker
  PROVE  Budget(w) \in Nat
<1>1. Cardinality(batch[w]) \in Nat
  BY BatchSizes DEF Types
<1>2. Each \in Nat
  BY DEF Each, LeaseTimingAssumption
<1>3. Cardinality(batch[w]) * Each \in Nat
  BY <1>1, <1>2, Products
<1> QED
  BY <1>3 DEF Types, Budget

-----------------------------------------------------------------------------
(* What keeps the leases of one worker *)

Safe(w) == Shape(w) /\ \A d \in Copies(w) \cap fresh[w] : Leased(w, d)

\* A step that leaves the worker and the rows of its copies alone.
LEMMA Untouched ==
  ASSUME NEW w \in Worker, Safe(w),
         pc'[w] = pc[w], batch'[w] = batch[w], cur'[w] = cur[w],
         post'[w] = post[w], slack'[w] = slack[w],
         fresh'[w] \subseteq fresh[w],
         \A d \in Copies(w) \cap fresh'[w] : row'[d] = row[d]
  PROVE  Safe(w)'
<1>1. Shape(w)' /\ Copies(w)' = Copies(w) /\ Budget(w)' = Budget(w)
  BY DEF Safe, Shape, Copies, Budget
<1> QED
  BY <1>1 DEF Safe, Leased

\* A step that takes nothing but time from the worker: its copies stay what they
\* are or become fewer, and so does its budget.
LEMMA Narrowed ==
  ASSUME NEW w \in Worker, Types, Types', Safe(w), Shape(w)',
         Copies(w)' \cap fresh'[w] \subseteq Copies(w) \cap fresh[w],
         Budget(w)' <= Budget(w),
         \A d \in Copies(w)' \cap fresh'[w] : row'[d] = row[d]
  PROVE  Safe(w)'
<1>1. Budget(w) \in Nat /\ Budget(w)' \in Nat
  <2>1. Budget(w) \in Nat
    BY BudgetType
  <2>2. Cardinality(batch'[w]) \in Nat
    BY BatchSizes DEF Types
  <2>3. Cardinality(batch'[w]) * Each \in Nat
    BY <2>2, Products DEF Each, LeaseTimingAssumption
  <2> QED
    BY <2>1, <2>3 DEF Budget, Types, Each
<1>2. ASSUME NEW d \in Copies(w)' \cap fresh'[w] PROVE Leased(w, d)'
  BY <1>1, <1>2 DEF Safe, Leased
<1> QED
  BY <1>2 DEF Safe

-----------------------------------------------------------------------------
(* Types *)

LEMMA TypesStep ==
  ASSUME Types, [Next]_vars
  PROVE  Types'
<1> USE DEF Types, PC
<1>1. ASSUME NEW w \in Worker, Claim(w) PROVE Types'
  BY <1>1 DEF Claim, jobVars
<1>2. ASSUME NEW w \in Worker, NEW d \in Delivery, Begin(w, d) PROVE Types'
  BY <1>2, LeaseTimingAssumption DEF Begin
<1>3. ASSUME NEW w \in Worker, AcquireProbe(w) PROVE Types'
  BY <1>3 DEF AcquireProbe
<1>4. ASSUME NEW w \in Worker, Defer(w) PROVE Types'
  BY <1>4 DEF Defer, Done
<1>5. ASSUME NEW w \in Worker, Respond(w) PROVE Types'
  BY <1>5 DEF Respond
<1>6. ASSUME NEW w \in Worker, Record(w) PROVE Types'
  BY <1>6 DEF Record, Done
<1>7. ASSUME NEW w \in Worker, Abandon(w) \/ DbError(w) PROVE Types'
  BY <1>7 DEF Abandon, DbError, Done
<1>8. CASE Tick
  BY <1>8 DEF Tick, Down
<1>9. ASSUME NEW d \in Delivery, Enqueue({d}) \/ Replay(d) PROVE Types'
  BY <1>9 DEF Enqueue, Replay, workerVars, jobVars
<1>10. ASSUME NEW e \in Endpoint, NEW b, SetDisabled(e, b) PROVE Types'
  BY <1>10 DEF SetDisabled, workerVars, jobVars
<1>11. CASE Crash
  BY <1>11 DEF Crash
<1>12. CASE UNCHANGED vars
  BY <1>12 DEF vars, workerVars, jobVars
<1> QED
  BY Zenon, <1>1, <1>2, <1>3, <1>4, <1>5, <1>6, <1>7, <1>8, <1>9, <1>10, <1>11, <1>12
     DEF Next, WorkerStep

-----------------------------------------------------------------------------
(* One step of a worker *)

\* A claim begins with a whole lease.
LEMMA ClaimStep ==
  ASSUME Sized, LeaseInv, Types', NEW w \in Worker, Claim(w)
  PROVE  \A x \in Worker : Safe(x)'
<1>1. PICK S \in SUBSET Delivery :
        /\ \A d \in S : Due(d)
        /\ Cardinality(S) <= BatchSize
        /\ row' = [d \in Delivery |->
                     IF d \in S THEN [status |-> "in_progress", next |-> row[d].next, by |-> w,
                                      left |-> LockSecs, tries |-> row[d].tries]
                                ELSE row[d]]
        /\ batch' = [batch EXCEPT ![w] = S]
        /\ fresh' = [x \in Worker |-> IF x = w THEN S ELSE fresh[x] \ S]
  BY Zenon DEF Claim
<1>2. pc[w] = "idle" /\ pc' = [pc EXCEPT ![w] = "batch"] /\ UNCHANGED <<cur, post, slack>>
  BY DEF Claim, jobVars
<1>3. cur[w] = NoDelivery /\ post[w] = 0 /\ slack[w] = 0
  BY <1>2 DEF LeaseInv, Shape
<1>4. Safe(w)'
  <2>1. batch'[w] = S /\ fresh'[w] = S /\ Copies(w)' = S /\ Shape(w)'
    BY <1>1, <1>2, <1>3 DEF LeaseInv, Types, Copies, Shape
  <2>2. Cardinality(S) \in Nat /\ Each \in Nat /\ BatchSize \in Nat
    BY BatchSizes DEF Each, LeaseTimingAssumption
  <2>3. Cardinality(S) * Each <= BatchSize * Each
    BY <1>1, <2>2, Products
  <2>4. Cardinality(S) * Each \in Nat /\ BatchSize * Each \in Nat
    BY <2>2, Products
  <2>5. Budget(w)' = Cardinality(S) * Each
    BY <1>2, <1>3, <2>1, <2>4 DEF Budget, LeaseInv, Types, Each
  <2>6. LockSecs \in Int /\ LockSecs > Budget(w)'
    BY <2>3, <2>4, <2>5 DEF Sized, Each, LeaseTimingAssumption
  <2>7. ASSUME NEW d \in S PROVE Leased(w, d)'
    BY <1>1, <2>6 DEF Leased
  <2> QED
    BY <2>1, <2>7 DEF Safe
<1>5. ASSUME NEW x \in Worker, x # w PROVE Safe(x)'
  <2>1. Safe(x)
    BY DEF LeaseInv, Safe
  <2>3. ASSUME NEW d \in Copies(x) \cap fresh'[x] PROVE row'[d] = row[d]
    <3>1. fresh'[x] = fresh[x] \ S
      BY <1>1, <1>5
    <3>2. d \in Delivery /\ d \notin S
      BY <2>3, <3>1 DEF LeaseInv, Types
    <3> QED
      BY <1>1, <3>2
  <2>4. /\ pc'[x] = pc[x] /\ batch'[x] = batch[x] /\ cur'[x] = cur[x]
        /\ post'[x] = post[x] /\ slack'[x] = slack[x] /\ fresh'[x] \subseteq fresh[x]
    BY <1>1, <1>2, <1>5 DEF LeaseInv, Types
  <2> QED
    BY <2>1, <2>3, <2>4, Untouched
<1> QED
  BY <1>4, <1>5

\* Starting a delivery turns its part of the budget into time for it.
LEMMA BeginStep ==
  ASSUME LeaseInv, Types', NEW w \in Worker, NEW d \in Delivery, Begin(w, d)
  PROVE  \A x \in Worker : Safe(x)'
<1>1. /\ pc[w] = "batch" /\ d \in batch[w]
      /\ batch' = [batch EXCEPT ![w] = @ \ {d}]
      /\ cur' = [cur EXCEPT ![w] = d]
      /\ slack' = [slack EXCEPT ![w] = DbTime]
      /\ post' = [post EXCEPT ![w] = HttpTimeout]
      /\ pc'[w] \in {"probe", "defer", "send"} /\ \A x \in Worker \ {w} : pc'[x] = pc[x]
      /\ UNCHANGED <<row, fresh>>
  BY DEF Begin, LeaseInv, Types
<1>2. cur[w] = NoDelivery /\ post[w] = 0 /\ slack[w] = 0
  BY <1>1 DEF LeaseInv, Shape
<1>3. Safe(w)'
  <2>1. Shape(w)' /\ Copies(w)' \subseteq Copies(w)
    BY <1>1, <1>2 DEF LeaseInv, Types, Copies, Shape
  <2>2. /\ Cardinality(batch[w]) \in Nat /\ Cardinality(batch'[w]) = Cardinality(batch[w]) - 1
        /\ Cardinality(batch'[w]) \in Nat /\ Each \in Nat
    <3>1. batch[w] \in SUBSET Delivery /\ batch'[w] = batch[w] \ {d} /\ batch'[w] \in SUBSET Delivery
      BY <1>1 DEF LeaseInv, Types
    <3> QED
      BY <1>1, <3>1, BatchSizes DEF Each, LeaseTimingAssumption
  <2>3. Cardinality(batch'[w]) * Each + Each = Cardinality(batch[w]) * Each
    BY <2>2, Products
  <2>4. Cardinality(batch'[w]) * Each \in Nat /\ Cardinality(batch[w]) * Each \in Nat
    BY <2>2, Products
  <2>5. post'[w] = HttpTimeout /\ slack'[w] = DbTime
    BY <1>1 DEF LeaseInv, Types
  <2>6. Budget(w)' <= Budget(w)
    BY <1>2, <2>3, <2>4, <2>5 DEF Budget, Each, LeaseTimingAssumption
  <2> QED
    BY <1>1, <2>1, <2>6, Narrowed DEF LeaseInv, Safe
<1>4. ASSUME NEW x \in Worker, x # w PROVE Safe(x)'
  BY <1>1, <1>4, Untouched DEF LeaseInv, Types, Safe
<1> QED
  BY <1>3, <1>4

\* The answer, or the probe: the worker goes on with the same delivery.
LEMMA ForwardStep ==
  ASSUME LeaseInv, Types', NEW w \in Worker, AcquireProbe(w) \/ Respond(w)
  PROVE  \A x \in Worker : Safe(x)'
<1>1. /\ pc'[w] \in {"send", "defer", "commit"} /\ \A x \in Worker \ {w} : pc'[x] = pc[x]
      /\ post'[w] <= post[w] /\ \A x \in Worker \ {w} : post'[x] = post[x]
      /\ UNCHANGED <<row, batch, cur, slack, fresh>>
  BY DEF AcquireProbe, Respond, LeaseInv, Types
<1>2. Safe(w)'
  <2>1. Shape(w)' /\ Copies(w)' = Copies(w)
    BY <1>1 DEF Shape, Copies
  <2>2. Cardinality(batch[w]) * Each \in Nat
    <3>1. Cardinality(batch[w]) \in Nat /\ Each \in Nat
      BY BatchSizes DEF LeaseInv, Types, Each, LeaseTimingAssumption
    <3> QED
      BY <3>1, Products
  <2>3. Budget(w)' <= Budget(w)
    BY <1>1, <2>2 DEF Budget, LeaseInv, Types, Each
  <2> QED
    BY <1>1, <2>1, <2>3, Narrowed DEF LeaseInv, Safe
<1>3. ASSUME NEW x \in Worker, x # w PROVE Safe(x)'
  BY <1>1, <1>3, Untouched DEF LeaseInv, Types, Safe
<1> QED
  BY <1>2, <1>3

\* The end of a delivery: its row changes only if the lease is the worker's.
LEMMA FinishStep ==
  ASSUME LeaseInv, Types', NEW w \in Worker, Done(w),
         \A d \in Delivery : row'[d] = row[d] \/ (d = cur[w] /\ row[d].by = w)
  PROVE  \A x \in Worker : Safe(x)'
<1>1. /\ pc'[w] \in {"idle", "batch"} /\ (pc'[w] = "idle" => batch[w] = {})
      /\ cur'[w] = NoDelivery /\ post'[w] = 0 /\ slack'[w] = 0
      /\ fresh'[w] = fresh[w] \ {cur[w]} /\ batch' = batch
      /\ \A x \in Worker \ {w} : /\ pc'[x] = pc[x] /\ cur'[x] = cur[x] /\ post'[x] = post[x]
                                 /\ slack'[x] = slack[x] /\ fresh'[x] = fresh[x]
  BY DEF Done, LeaseInv, Types
<1>2. Safe(w)'
  <2>1. Shape(w)' /\ Copies(w)' \cap fresh'[w] \subseteq (Copies(w) \cap fresh[w]) \ {cur[w]}
    BY <1>1 DEF Shape, Copies
  <2>2. Cardinality(batch[w]) * Each \in Nat
    <3>1. Cardinality(batch[w]) \in Nat /\ Each \in Nat
      BY BatchSizes DEF LeaseInv, Types, Each, LeaseTimingAssumption
    <3> QED
      BY <3>1, Products
  <2>3. Budget(w)' <= Budget(w)
    BY <1>1, <2>2 DEF Budget, LeaseInv, Types, Each
  <2>4. \A d \in Copies(w)' \cap fresh'[w] : row'[d] = row[d]
    BY <2>1 DEF LeaseInv, Types
  <2> QED
    BY <2>1, <2>3, <2>4, Narrowed DEF LeaseInv, Safe
<1>3. ASSUME NEW x \in Worker, x # w PROVE Safe(x)'
  <2>1. ASSUME NEW d \in Copies(x) \cap fresh[x] PROVE row'[d] = row[d]
    BY <1>3, <2>1 DEF LeaseInv, Types, Leased
  <2> QED
    BY <1>1, <1>3, <2>1, Untouched DEF LeaseInv, Safe
<1> QED
  BY <1>2, <1>3

-----------------------------------------------------------------------------
(* The rest of the system *)

\* A tick takes one from every lease and one from every budget that runs.
LEMMA TickStep ==
  ASSUME LeaseInv, Types', Tick
  PROVE  \A x \in Worker : Safe(x)'
<1> TAKE x \in Worker
<1>1. /\ MayWait(x)
      /\ post'[x] = (IF pc[x] = "send" THEN Down(post[x]) ELSE post[x])
      /\ slack'[x] = (IF pc[x] = "send" THEN slack[x] ELSE Down(slack[x]))
      /\ UNCHANGED <<pc, batch, cur, fresh>>
  BY Zenon DEF Tick, LeaseInv, Types
<1>2. Shape(x)' /\ Copies(x)' = Copies(x)
  BY <1>1 DEF LeaseInv, Shape, Copies, Down, Types
<1>3. CASE pc[x] = "idle"
  <2>1. Copies(x)' = {}
    BY <1>1, <1>3 DEF LeaseInv, Shape, Copies
  <2> QED
    BY <1>2, <2>1 DEF Safe
<1>4. CASE pc[x] # "idle"
  <2>1. Cardinality(batch[x]) * Each \in Nat
    <3>1. Cardinality(batch[x]) \in Nat /\ Each \in Nat
      BY BatchSizes DEF LeaseInv, Types, Each, LeaseTimingAssumption
    <3> QED
      BY <3>1, Products
  <2>2. post'[x] + slack'[x] = post[x] + slack[x] - 1
    BY <1>1, <1>4 DEF MayWait, Down, LeaseInv, Types
  <2>3. post[x] \in Nat /\ slack[x] \in Nat /\ post'[x] \in Nat /\ slack'[x] \in Nat
    BY DEF LeaseInv, Types
  <2>4. Budget(x)' = Budget(x) - 1 /\ Budget(x) \in Nat
    BY <1>1, <2>1, <2>2, <2>3 DEF Budget, Each
  <2>5. ASSUME NEW d \in Copies(x) \cap fresh[x] PROVE Leased(x, d)'
    <3>1. d \in Delivery /\ Leased(x, d)
      BY <2>5 DEF LeaseInv, Types
    <3>2. /\ row'[d].status = row[d].status /\ row'[d].by = row[d].by
          /\ row'[d].left = IF row[d].left >= 0 THEN row[d].left - 1 ELSE -1
      BY <3>1 DEF Tick
    <3> QED
      BY <2>4, <3>1, <3>2 DEF Leased
  <2> QED
    BY <1>1, <1>2, <2>5 DEF Safe
<1> QED
  BY <1>3, <1>4

LEMMA OtherStep ==
  ASSUME LeaseInv, Types',
         \/ \E d \in Delivery : Enqueue({d}) \/ Replay(d)
         \/ \E e \in Endpoint : SetDisabled(e, ~ep[e].disabled)
         \/ Crash
         \/ UNCHANGED vars
  PROVE  \A x \in Worker : Safe(x)'
<1> TAKE x \in Worker
<1>1. Safe(x)
  BY DEF LeaseInv, Safe
<1>2. ASSUME NEW d \in Delivery, Enqueue({d}) PROVE Safe(x)'
  <2>1. ASSUME NEW c \in Copies(x) \cap fresh'[x] PROVE row'[c] = row[c]
    <3>1. c \in Delivery /\ row[c].status = "in_progress"
      BY Zenon, <1>1, <1>2, <2>1 DEF Enqueue, workerVars, LeaseInv, Types, Safe, Leased
    <3>2. row[d].status = "absent"
      BY <1>2 DEF Enqueue
    <3> QED
      BY <1>2, <3>1, <3>2 DEF Enqueue
  <2> QED
    BY Zenon, <1>1, <1>2, <2>1, Untouched DEF Enqueue, workerVars, jobVars
<1>3. ASSUME NEW d \in Delivery, Replay(d) PROVE Safe(x)'
  <2>1. UNCHANGED <<pc, batch, cur, post, slack>> /\ fresh'[x] = fresh[x] \ {d}
    BY <1>3 DEF Replay, jobVars
  <2>2. ASSUME NEW c \in Copies(x) \cap fresh'[x] PROVE row'[c] = row[c]
    BY <1>3, <2>1, <2>2 DEF Replay, LeaseInv, Types
  <2> QED
    BY <1>1, <2>1, <2>2, Untouched
<1>4. CASE (\E e \in Endpoint : SetDisabled(e, ~ep[e].disabled)) \/ UNCHANGED vars
  <2>1. UNCHANGED <<row, workerVars>>
    BY <1>4 DEF SetDisabled, vars
  <2> QED
    BY Zenon, <1>1, <2>1, Untouched DEF workerVars, jobVars
<1>5. CASE Crash
  BY <1>5 DEF Crash, Safe, Shape, Copies
<1> QED
  BY Zenon, <1>2, <1>3, <1>4, <1>5

-----------------------------------------------------------------------------
(* The theorem *)

LEMMA InvInit ==
  ASSUME Init
  PROVE  LeaseInv
<1>1. Types
  BY DEF Init, Types, PC
<1>2. ASSUME NEW w \in Worker PROVE Shape(w) /\ Copies(w) = {}
  BY DEF Init, Shape, Copies
<1> QED
  BY <1>1, <1>2 DEF LeaseInv

LEMMA InvStep ==
  ASSUME Sized, LeaseInv, [Next]_vars
  PROVE  LeaseInv'
<1>1. Types'
  BY TypesStep DEF LeaseInv
<1> SUFFICES \A x \in Worker : Safe(x)'
  BY <1>1 DEF LeaseInv, Safe
<1>2. ASSUME NEW w \in Worker, Claim(w) PROVE \A x \in Worker : Safe(x)'
  BY <1>1, <1>2, ClaimStep
<1>3. ASSUME NEW w \in Worker, NEW d \in Delivery, Begin(w, d) PROVE \A x \in Worker : Safe(x)'
  BY <1>1, <1>3, BeginStep
<1>4. ASSUME NEW w \in Worker, AcquireProbe(w) \/ Respond(w) PROVE \A x \in Worker : Safe(x)'
  BY <1>1, <1>4, ForwardStep
<1>5. ASSUME NEW w \in Worker, Defer(w) \/ Record(w) \/ Abandon(w) \/ DbError(w)
      PROVE  \A x \in Worker : Safe(x)'
  <2>1. Done(w)
    BY Zenon, <1>5 DEF Defer, Record, Abandon, DbError
  <2>2. ASSUME NEW d \in Delivery PROVE row'[d] = row[d] \/ (d = cur[w] /\ row[d].by = w)
    <3>0. DOMAIN row = Delivery
      BY DEF LeaseInv, Types
    <3>1. CASE Defer(w)
      BY <3>0, <3>1 DEF Defer, Holds
    <3>2. CASE Record(w)
      BY <3>0, <3>2 DEF Record, Holds
    <3>3. CASE Abandon(w) \/ DbError(w)
      BY <3>3 DEF Abandon, DbError
    <3> QED
      BY <1>5, <3>1, <3>2, <3>3
  <2> QED
    BY <1>1, <2>1, <2>2, FinishStep
<1>6. CASE Tick
  BY <1>1, <1>6, TickStep
<1>7. CASE \/ \E d \in Delivery : Enqueue({d}) \/ Replay(d)
           \/ \E e \in Endpoint : SetDisabled(e, ~ep[e].disabled)
           \/ Crash
           \/ UNCHANGED vars
  BY Zenon, <1>1, <1>7, OtherStep
<1> QED
  BY <1>2, <1>3, <1>4, <1>5, <1>6, <1>7 DEF Next, WorkerStep

\* If lock_secs is longer than batch_size times the time that one delivery may
\* take, no worker ever has a copy in memory whose lease has run out, unless an
\* operator replayed the delivery.
THEOREM SizedLeaseOutlasts ==
  ASSUME Sized
  PROVE  Spec => []LeaseOutlasts
<1>1. LeaseInv => LeaseOutlasts
  <2> SUFFICES ASSUME LeaseInv, NEW w \in Worker, NEW d \in Copies(w) \cap fresh[w]
               PROVE  row[d].left > 0
    BY DEF LeaseOutlasts
  <2>1. Leased(w, d) /\ Budget(w) \in Nat
    BY BudgetType DEF LeaseInv
  <2> QED
    BY <2>1 DEF Leased
<1> QED
  BY <1>1, InvInit, InvStep, PTL DEF Spec

-----------------------------------------------------------------------------
(* Type correctness *)

USE CircuitAssumption, RetryAssumption

\* A worker that processes a delivery has one.
HasJob == \A w \in Worker : pc[w] \in PC \ {"idle", "batch"} => cur[w] \in Delivery

TypeInv == TypeOK /\ HasJob

LEMMA ReleasedType ==
  ASSUME NEW s \in {"absent", "pending", "failed", "succeeded", "dead"},
         NEW n \in Nat, NEW k \in Nat
  PROVE  Released(s, n, k) \in Row
BY DEF Released, Row

LEMMA CircuitTypes ==
  ASSUME NEW e \in EndpointRow, NEW n \in Nat
  PROVE  /\ on_success(e) \in EndpointRow
         /\ on_failure(e, [failures |-> n], 0) \in EndpointRow
         /\ acquire_probe(e, 0) \in EndpointRow
         /\ update_circuit(e, e.state, Down(e.open_until), e.failures) \in EndpointRow
         /\ gate(e, 0) = "skip" => e.open_until \in Nat
<1>1. on_success(e) \in EndpointRow
  BY DEF on_success, update_circuit, EndpointRow, Instant
<1>2. on_failure(e, [failures |-> n], 0) \in EndpointRow
  BY DEF on_failure, update_circuit, EndpointRow, Instant, SaturatingSucc
<1>3. acquire_probe(e, 0) \in EndpointRow
  BY DEF acquire_probe, update_circuit, EndpointRow, Instant
<1>4. update_circuit(e, e.state, Down(e.open_until), e.failures) \in EndpointRow
  <2>1. Down(e.open_until) \in Instant
    BY DEF Down, EndpointRow, Instant, NoTime
  <2> QED
    BY <2>1 DEF update_circuit, EndpointRow
<1>5. gate(e, 0) = "skip" => e.open_until \in Nat
  BY DEF gate, Barred, EndpointRow, Instant
<1> QED
  BY <1>1, <1>2, <1>3, <1>4, <1>5

LEMMA BackoffType ==
  ASSUME NEW n
  PROVE  backoff(n) \subseteq Nat
BY DEF backoff

LEMMA InitType ==
  ASSUME Init
  PROVE  TypeInv
<1>1. Released("absent", 0, 0) \in Row /\ NewEndpoint \in EndpointRow
  BY ReleasedType DEF NewEndpoint, EndpointRow, Instant
<1> QED
  BY <1>1 DEF Init, TypeInv, TypeOK, HasJob, PC

LEMMA ClaimType ==
  ASSUME TypeInv, NEW w \in Worker, Claim(w)
  PROVE  TypeInv'
<1> USE DEF TypeInv, TypeOK
<1>1. PICK S \in SUBSET Delivery :
        /\ row' = [d \in Delivery |->
                     IF d \in S THEN [status |-> "in_progress", next |-> row[d].next, by |-> w,
                                      left |-> LockSecs, tries |-> row[d].tries]
                                ELSE row[d]]
        /\ batch' = [batch EXCEPT ![w] = S]
        /\ count' = [count EXCEPT ![w] = [d \in Delivery |-> IF d \in S THEN row[d].tries ELSE 0]]
        /\ fresh' = [x \in Worker |-> IF x = w THEN S ELSE fresh[x] \ S]
  BY Zenon DEF Claim
<1>2. row' \in [Delivery -> Row]
  <2>1. ASSUME NEW d \in Delivery
        PROVE  [status |-> "in_progress", next |-> row[d].next, by |-> w,
                left |-> LockSecs, tries |-> row[d].tries] \in Row
    BY DEF Row
  <2> QED
    BY <1>1, <2>1
<1>3. count' \in [Worker -> [Delivery -> Nat]]
  BY <1>1 DEF Row
<1>4. batch' \in [Worker -> SUBSET Delivery] /\ fresh' \in [Worker -> SUBSET Delivery]
  BY <1>1
<1>5. pc' \in [Worker -> PC] /\ HasJob'
  BY DEF Claim, PC, HasJob, jobVars
<1> QED
  BY <1>2, <1>3, <1>4, <1>5 DEF Claim, jobVars, PC

LEMMA BeginType ==
  ASSUME TypeInv, NEW w \in Worker, NEW d \in Delivery, Begin(w, d)
  PROVE  TypeInv'
<1> USE DEF TypeInv, TypeOK
<1> DEFINE e == ep[EndpointOf[d]]
<1>1. e \in EndpointRow
  OBVIOUS
<1>2. \E p \in {"defer", "probe", "send"}, u \in Nat :
        pc' = [pc EXCEPT ![w] = p] /\ wait' = [wait EXCEPT ![w] = u]
  <2>1. e.disabled \/ gate(e, 0) # "skip" \/ e.open_until \in Nat
    BY Zenon, <1>1, CircuitTypes
  <2> QED
    BY Zenon, <2>1 DEF Begin
<1>3. pc' \in [Worker -> PC] /\ wait' \in [Worker -> Nat]
  BY <1>2 DEF PC
<1>4. e.failures \in Nat /\ seen' \in [Worker -> Nat]
  BY <1>1 DEF Begin, EndpointRow
<1>5. post' \in [Worker -> 0 .. HttpTimeout] /\ slack' \in [Worker -> 0 .. DbTime]
  BY DEF Begin
<1>6. /\ cur' \in [Worker -> Delivery \cup {NoDelivery}]
      /\ batch' \in [Worker -> SUBSET Delivery]
  BY DEF Begin
<1>7. HasJob'
  BY <1>2 DEF Begin, HasJob, PC
<1> QED
  BY <1>3, <1>4, <1>5, <1>6, <1>7 DEF Begin, PC

LEMMA ProbeType ==
  ASSUME TypeInv, NEW w \in Worker, AcquireProbe(w)
  PROVE  TypeInv'
<1> USE DEF TypeInv, TypeOK
<1>1. cur[w] \in Delivery
  BY Zenon DEF AcquireProbe, HasJob, PC
<1>2. acquire_probe(ep[EndpointOf[cur[w]]], 0) \in EndpointRow
  BY Zenon, <1>1, CircuitTypes
<1>3. ep' \in [Endpoint -> EndpointRow]
  <2>1. \/ ep' = ep
        \/ ep' = [ep EXCEPT ![EndpointOf[cur[w]]] = acquire_probe(ep[EndpointOf[cur[w]]], 0)]
    BY DEF AcquireProbe
  <2> QED
    BY Zenon, <1>2, <2>1
<1>4. pc' \in [Worker -> PC] /\ wait' \in [Worker -> Nat]
  <2>1. \E p \in PC : pc' = [pc EXCEPT ![w] = p]
    BY Zenon DEF AcquireProbe, PC
  <2>2. wait' = wait \/ wait' = [wait EXCEPT ![w] = 0]
    BY Zenon DEF AcquireProbe
  <2> QED
    BY <2>1, <2>2 DEF PC
<1>5. HasJob'
  BY <1>1 DEF AcquireProbe, HasJob, PC
<1> QED
  BY <1>3, <1>4, <1>5 DEF AcquireProbe, PC

LEMMA DoneType ==
  ASSUME TypeInv, NEW w \in Worker, cur[w] \in Delivery, Done(w),
         row' \in [Delivery -> Row], ep' \in [Endpoint -> EndpointRow],
         faults' \in 0 .. MaxFaults, ops' \in 0 .. MaxOps
  PROVE  TypeInv'
<1> USE DEF TypeInv, TypeOK
<1>1. pc' \in [Worker -> PC] /\ cur' \in [Worker -> Delivery \cup {NoDelivery}] /\ HasJob'
  BY DEF Done, HasJob, PC
<1>2. count' \in [Worker -> [Delivery -> Nat]]
  <2>1. count' = [count EXCEPT ![w] = [count[w] EXCEPT ![cur[w]] = 0]]
    BY DEF Done
  <2>2. [count[w] EXCEPT ![cur[w]] = 0] \in [Delivery -> Nat]
    OBVIOUS
  <2> QED
    BY <2>1, <2>2
<1>3. fresh' \in [Worker -> SUBSET Delivery] /\ batch' \in [Worker -> SUBSET Delivery]
  BY DEF Done
<1>4. /\ seen' \in [Worker -> Nat] /\ wait' \in [Worker -> Nat]
      /\ post' \in [Worker -> 0 .. HttpTimeout] /\ slack' \in [Worker -> 0 .. DbTime]
      /\ result' \in [Worker -> {"none", "ok", "fail"}]
  BY DEF Done
<1> QED
  BY <1>1, <1>2, <1>3, <1>4 DEF PC

LEMMA FinishType ==
  ASSUME TypeInv, NEW w \in Worker, Defer(w) \/ Record(w) \/ Abandon(w) \/ DbError(w)
  PROVE  TypeInv'
<1> DEFINE d == cur[w]
           e == ep[EndpointOf[d]]
<1>1. d \in Delivery /\ Done(w)
  BY Zenon DEF Defer, Record, Abandon, DbError, TypeInv, HasJob, PC
<1>2. row[d] \in Row /\ row[d].tries \in Nat /\ row[d].next \in Nat /\ wait[w] \in Nat
  BY <1>1 DEF TypeInv, TypeOK, Row
<1>3. e \in EndpointRow /\ seen[w] \in Nat
  BY <1>1 DEF TypeInv, TypeOK
<1>4. CASE Defer(w)
  <2>1. Released("failed", wait[w], row[d].tries) \in Row
    BY Zenon, <1>2, ReleasedType
  <2>2. row' \in [Delivery -> Row] /\ UNCHANGED <<ep, faults, ops>>
    BY Zenon, <1>4, <2>1 DEF Defer, TypeInv, TypeOK
  <2> QED
    BY <1>1, <2>2, DoneType DEF TypeInv, TypeOK
<1>5. CASE Record(w)
  <2>1. attempt_number(w) \in Nat
    BY <1>1 DEF attempt_number, TypeInv, TypeOK
  <2>2. \E r \in Row : row' = [row EXCEPT ![d] = r]
    <3>1. CASE result[w] = "ok"
      <4>1. Released("succeeded", row[d].next, attempt_number(w)) \in Row
        BY Zenon, <1>2, <2>1, ReleasedType
      <4> QED
        BY Zenon, <1>5, <3>1, <4>1 DEF Record
    <3>2. CASE result[w] = "fail" /\ ~is_exhausted(attempt_number(w))
      <4>1. PICK delay \in backoff(attempt_number(w)) :
              row' = [row EXCEPT ![d] = Released("failed", delay, attempt_number(w))]
        BY Zenon, <1>5, <3>2 DEF Record
      <4>2. Released("failed", delay, attempt_number(w)) \in Row
        BY <2>1, BackoffType, ReleasedType
      <4> QED
        BY Zenon, <4>1, <4>2
    <3>3. CASE result[w] = "fail" /\ is_exhausted(attempt_number(w))
      <4>1. Released("dead", row[d].next, row[d].tries) \in Row
        BY Zenon, <1>2, ReleasedType
      <4> QED
        BY Zenon, <1>5, <3>3, <4>1 DEF Record
    <3> QED
      BY Zenon, <1>5, <3>1, <3>2, <3>3 DEF Record
  <2>3. \E x \in EndpointRow : ep' = [ep EXCEPT ![EndpointOf[d]] = x]
    <3>1. on_success(e) \in EndpointRow /\ on_failure(e, [failures |-> seen[w]], 0) \in EndpointRow
      BY Zenon, <1>3, CircuitTypes
    <3>2. \/ ep' = [ep EXCEPT ![EndpointOf[d]] = on_success(e)]
          \/ ep' = [ep EXCEPT ![EndpointOf[d]] = on_failure(e, [failures |-> seen[w]], 0)]
      BY Zenon, <1>5 DEF Record
    <3> QED
      BY Zenon, <3>1, <3>2
  <2>4. row' \in [Delivery -> Row] /\ ep' \in [Endpoint -> EndpointRow]
    <3>1. row \in [Delivery -> Row] /\ ep \in [Endpoint -> EndpointRow]
      BY DEF TypeInv, TypeOK
    <3>2. row' \in [Delivery -> Row]
      BY Zenon, <2>2, <3>1
    <3>3. PICK x \in EndpointRow : ep' = [ep EXCEPT ![EndpointOf[d]] = x]
      BY Zenon, <2>3
    <3>4. ep' \in [Endpoint -> EndpointRow]
      BY Zenon, <3>1, <3>3
    <3> QED
      BY <3>2, <3>4
  <2>5. UNCHANGED <<faults, ops>>
    BY Zenon, <1>5 DEF Record
  <2> QED
    BY <1>1, <2>4, <2>5, DoneType DEF TypeInv, TypeOK
<1>6. CASE Abandon(w) \/ DbError(w)
  <2>1. UNCHANGED <<row, ep, ops>> /\ faults' \in 0 .. MaxFaults
    BY <1>6 DEF Abandon, DbError, Fault, TypeInv, TypeOK
  <2> QED
    BY <1>1, <2>1, DoneType DEF TypeInv, TypeOK
<1> QED
  BY <1>4, <1>5, <1>6

LEMMA RespondType ==
  ASSUME TypeInv, NEW w \in Worker, Respond(w)
  PROVE  TypeInv'
<1> USE DEF TypeInv, TypeOK
<1>1. result' \in [Worker -> {"none", "ok", "fail"}] /\ post' \in [Worker -> 0 .. HttpTimeout]
  BY DEF Respond
<1>2. pc' \in [Worker -> PC] /\ HasJob'
  BY DEF Respond, HasJob, PC
<1> QED
  BY <1>1, <1>2 DEF Respond, PC

LEMMA TickType ==
  ASSUME TypeInv, Tick
  PROVE  TypeInv'
<1> USE DEF TypeInv, TypeOK
<1>1. row' \in [Delivery -> Row]
  <2>1. ASSUME NEW d \in Delivery
        PROVE  [status |-> row[d].status, next |-> Down(row[d].next), by |-> row[d].by,
                left |-> IF row[d].left >= 0 THEN row[d].left - 1 ELSE -1,
                tries |-> row[d].tries] \in Row
    BY DEF Row, Down
  <2> QED
    BY <2>1 DEF Tick
<1>2. ep' \in [Endpoint -> EndpointRow]
  <2>1. ASSUME NEW e \in Endpoint
        PROVE  update_circuit(ep[e], ep[e].state, Down(ep[e].open_until), ep[e].failures)
                 \in EndpointRow
    BY Zenon, CircuitTypes
  <2> QED
    BY Zenon, <2>1 DEF Tick
<1>3. /\ wait' \in [Worker -> Nat]
      /\ post' \in [Worker -> 0 .. HttpTimeout] /\ slack' \in [Worker -> 0 .. DbTime]
  <2>1. ASSUME NEW w \in Worker
        PROVE  /\ Down(wait[w]) \in Nat
               /\ Down(post[w]) \in 0 .. HttpTimeout /\ post[w] \in 0 .. HttpTimeout
               /\ Down(slack[w]) \in 0 .. DbTime /\ slack[w] \in 0 .. DbTime
    BY DEF Down
  <2> QED
    BY <2>1 DEF Tick
<1>4. HasJob'
  BY DEF Tick, HasJob
<1> QED
  BY <1>1, <1>2, <1>3, <1>4 DEF Tick

LEMMA OtherType ==
  ASSUME TypeInv,
         \/ \E D \in SUBSET Delivery : Enqueue(D)
         \/ \E d \in Delivery : Replay(d)
         \/ \E e \in Endpoint, b \in BOOLEAN : SetDisabled(e, b)
         \/ Crash
         \/ UNCHANGED vars
  PROVE  TypeInv'
<1>1. ASSUME NEW D \in SUBSET Delivery, Enqueue(D) PROVE TypeInv'
  <2> USE DEF TypeInv, TypeOK
  <2>1. Released("pending", 0, 0) \in Row
    BY ReleasedType
  <2>2. row' \in [Delivery -> Row]
    BY <1>1, <2>1 DEF Enqueue
  <2> QED
    BY <1>1, <2>2 DEF Enqueue, workerVars, jobVars, HasJob
<1>2. ASSUME NEW d \in Delivery, Replay(d) PROVE TypeInv'
  <2> USE DEF TypeInv, TypeOK
  <2>1. Released("pending", 0, row[d].tries) \in Row
    BY Zenon, ReleasedType DEF Row
  <2>2. row' \in [Delivery -> Row] /\ fresh' \in [Worker -> SUBSET Delivery]
    BY <1>2, <2>1 DEF Replay
  <2>3. ops' \in 0 .. MaxOps
    BY <1>2 DEF Replay, OperatorCall
  <2> QED
    BY <1>2, <2>2, <2>3 DEF Replay, jobVars, HasJob
<1>3. ASSUME NEW e \in Endpoint, NEW b \in BOOLEAN, SetDisabled(e, b) PROVE TypeInv'
  <2> USE DEF TypeInv, TypeOK
  <2>1. [disabled |-> b, state |-> ep[e].state, open_until |-> ep[e].open_until,
         failures |-> ep[e].failures] \in EndpointRow
    BY DEF EndpointRow
  <2>2. ep' \in [Endpoint -> EndpointRow]
    BY Zenon, <1>3, <2>1 DEF SetDisabled
  <2>3. ops' \in 0 .. MaxOps
    BY <1>3 DEF SetDisabled, OperatorCall
  <2> QED
    BY Zenon, <1>3, <2>2, <2>3 DEF SetDisabled, workerVars, jobVars, HasJob
<1>4. CASE Crash
  <2> USE DEF TypeInv, TypeOK
  <2>1. faults' \in 0 .. MaxFaults
    BY <1>4 DEF Crash, Fault
  <2> QED
    BY <1>4, <2>1 DEF Crash, HasJob, PC
<1>5. CASE UNCHANGED vars
  BY <1>5 DEF TypeInv, TypeOK, vars, workerVars, jobVars, HasJob
<1> QED
  BY <1>1, <1>2, <1>3, <1>4, <1>5

LEMMA NextType ==
  ASSUME TypeInv, [Next]_vars
  PROVE  TypeInv'
<1>1. \A e \in Endpoint : (~ep[e].disabled) \in BOOLEAN
  OBVIOUS
<1>2. \A d \in Delivery : {d} \in SUBSET Delivery
  OBVIOUS
<1>3. ASSUME NEW w \in Worker, WorkerStep(w) \/ DbError(w) PROVE TypeInv'
  BY <1>3, ClaimType, BeginType, ProbeType, FinishType, RespondType DEF WorkerStep
<1> QED
  BY Zenon, <1>1, <1>2, <1>3, TickType, OtherType DEF Next

\* The columns and the workers' variables hold what their types say: a lease is
\* never longer than lock_secs, and a worker always has the delivery it records.
THEOREM LeaseTimingTyped == Spec => []TypeOK
<1>1. Spec => []TypeInv
  BY InitType, NextType, PTL DEF Spec
<1> QED
  BY <1>1, PTL DEF TypeInv

=============================================================================
