-------------------------- MODULE DeliveryContract --------------------------
(***************************************************************************)
(* What dropless promises about a delivery once it is accepted, without    *)
(* workers, leases, clocks or breakers: it stays open until its endpoint   *)
(* has accepted it or its attempts are used up, and every attempt that     *)
(* counts is in the log, which only grows.  Duplicate acceptances are      *)
(* allowed (at least once); losses are not.                                *)
(***************************************************************************)
EXTENDS Naturals, Sequences

CONSTANTS Delivery, Poison, MaxAttempts

VARIABLES
  fate,   \* "absent", "open", "succeeded" or "dead"
  log,    \* recorded attempts of each delivery
  acked   \* deliveries their endpoint has accepted at least once

vars == <<fate, log, acked>>

Init ==
  /\ fate = [d \in Delivery |-> "absent"]
  /\ log = [d \in Delivery |-> << >>]
  /\ acked = {}

Submit(d) ==
  /\ fate[d] = "absent"
  /\ fate' = [fate EXCEPT ![d] = "open"]
  /\ UNCHANGED <<log, acked>>

\* The endpoint accepts the delivery; the answer may be lost or come late, when
\* the delivery has been settled or reopened already.
Accept(d) ==
  /\ fate[d] # "absent"
  /\ acked' = acked \cup {d}
  /\ UNCHANGED <<fate, log>>

\* An attempt's number never runs ahead of the log.
Record(d, ok) ==
  \E n \in 1 .. (Len(log[d]) + 1) :
    log' = [log EXCEPT ![d] = Append(@, [number |-> n, ok |-> ok])]

Succeed(d) ==
  /\ fate[d] = "open" /\ d \in acked
  /\ Record(d, TRUE)
  /\ fate' = [fate EXCEPT ![d] = "succeeded"]
  /\ UNCHANGED acked

Fail(d) ==
  /\ fate[d] = "open"
  /\ Record(d, FALSE)
  /\ UNCHANGED <<fate, acked>>

Exhaust(d) ==
  /\ fate[d] = "open" /\ Len(log[d]) + 1 >= MaxAttempts
  /\ Record(d, FALSE)
  /\ fate' = [fate EXCEPT ![d] = "dead"]
  /\ UNCHANGED acked

\* A delivery that can never be sent is given up at once.
Refuse(d) ==
  /\ fate[d] = "open" /\ d \in Poison
  /\ fate' = [fate EXCEPT ![d] = "dead"]
  /\ UNCHANGED <<log, acked>>

Reopen(d) ==
  /\ fate[d] # "absent"
  /\ fate' = [fate EXCEPT ![d] = "open"]
  /\ UNCHANGED <<log, acked>>

Next ==
  \E d \in Delivery :
    \/ Submit(d) \/ Accept(d) \/ Succeed(d) \/ Fail(d)
    \/ Exhaust(d) \/ Refuse(d) \/ Reopen(d)

Spec == Init /\ [][Next]_vars

=============================================================================
