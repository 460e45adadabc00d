------------------------------- MODULE Circuit -------------------------------
(***************************************************************************)
(* The per-endpoint circuit breaker of dropless-core/src/circuit.rs: the   *)
(* decision taken before an attempt (gate) and the fields written after it *)
(* (on_success, on_failure).  The breaker lives in three columns of the    *)
(* endpoints table, so every operator takes the endpoint row it read.      *)
(***************************************************************************)
EXTENDS Integers

CONSTANTS
  FailureThreshold,  \* CircuitPolicy.failure_threshold (5)
  OpenDuration,      \* CircuitPolicy.open_duration, in clock units (30 s)
  MaxI32             \* i32::MAX, where consecutive_failures stops growing

ASSUME CircuitAssumption ==
  /\ FailureThreshold \in Nat \ {0}
  /\ OpenDuration \in Nat \ {0}
  /\ MaxI32 \in Nat /\ FailureThreshold <= MaxI32

\* SQL NULL in a timestamp column.  Instants are natural numbers.
NoTime == -1

Instant == Nat \cup {NoTime}

EndpointRow ==
  [disabled : BOOLEAN,
   state : {"closed", "open", "half_open"},
   open_until : Instant,
   failures : Nat]

\* The column defaults of a new endpoint.
NewEndpoint ==
  [disabled |-> FALSE, state |-> "closed", open_until |-> NoTime, failures |-> 0]

\* The breaker denies traffic until open_until, whether it is open or waits
\* for the outcome of a half-open probe.
Barred(e, t) ==
  /\ e.state \in {"open", "half_open"}
  /\ e.open_until # NoTime
  /\ t < e.open_until

\* The columns agree: a breaker that is not closed has a deadline and has seen
\* the threshold's failures, a closed one neither.
Coherent(e) ==
  /\ e.state # "closed" <=> e.open_until # NoTime
  /\ e.state # "closed" <=> e.failures >= FailureThreshold

gate(e, t) ==
  CASE Barred(e, t) -> "skip"
    [] e.state \in {"open", "half_open"} /\ ~Barred(e, t) -> "probe"
    [] OTHER -> "allow"

\* store::update_circuit: the row e with new circuit fields.
update_circuit(e, state, open_until, failures) ==
  [disabled |-> e.disabled,
   state |-> state, open_until |-> open_until, failures |-> failures]

on_success(e) == update_circuit(e, "closed", NoTime, 0)

SaturatingSucc(n) == IF n < MaxI32 THEN n + 1 ELSE n

\* Mutant: one failure too many before the breaker trips.
on_failure_late(e, seen, t) ==
  LET failures == SaturatingSucc(seen.failures) IN
  IF failures > FailureThreshold THEN update_circuit(e, "open", t + OpenDuration, failures)
                                 ELSE update_circuit(e, "closed", NoTime, failures)

\* Mutant: trips on reaching the threshold, not beyond it.
on_failure_once(e, seen, t) ==
  LET failures == SaturatingSucc(seen.failures) IN
  IF failures = FailureThreshold THEN update_circuit(e, "open", t + OpenDuration, failures)
                                 ELSE update_circuit(e, "closed", NoTime, failures)

\* The update computed from the row `seen' and written over the row `e'.
on_failure(e, seen, t) ==
  LET failures == SaturatingSucc(seen.failures)
      trips == failures >= FailureThreshold
  IN IF trips THEN update_circuit(e, "open", t + OpenDuration, failures)
              ELSE update_circuit(e, "closed", NoTime, failures)

\* store::try_acquire_probe: the condition of its UPDATE and the new row.
ProbeFree(e, t) ==
  /\ e.state \in {"open", "half_open"}
  /\ e.open_until = NoTime \/ e.open_until <= t

acquire_probe(e, t) ==
  update_circuit(e, "half_open", t + OpenDuration, e.failures)

=============================================================================
