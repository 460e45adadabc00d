------------------------------ MODULE Notifier ------------------------------
(***************************************************************************)
(* The coalescing notifier of notify.rs: `ping' reads the clock, loads the *)
(* stamp of the last NOTIFY and, when that is a window old, claims the     *)
(* next window with a compare_exchange and spawns a task that sends the    *)
(* NOTIFY.  Threads ping concurrently and may be descheduled anywhere      *)
(* between those three steps.                                              *)
(***************************************************************************)
EXTENDS Integers

CONSTANTS
  Thread,     \* threads that call ping
  Window,     \* window_ms
  I64Max,     \* the largest i64; a small number in the models
  MaxTime     \* bound: milliseconds since start

ASSUME NotifierAssumption ==
  /\ I64Max \in Nat
  /\ Window \in 1 .. I64Max
  /\ MaxTime \in 0 .. I64Max

I64Min == -I64Max - 1
I64 == I64Min .. I64Max

VARIABLES
  now,        \* start.elapsed()
  last_ms,    \* the atomic
  phase,      \* where each thread stands in ping
  at,         \* its local `now'
  seen,       \* its local `last'
  tasks,      \* spawned tasks that have not run pg_notify yet
  sent        \* history: when the latest of them was spawned

pingVars == <<last_ms, phase, at, seen, tasks, sent>>
notifierVars == <<now, pingVars>>

NotifierTypeOK ==
  /\ now \in 0 .. MaxTime
  /\ last_ms \in I64
  /\ phase \in [Thread -> {"idle", "timed", "loaded"}]
  /\ at \in [Thread -> I64]
  /\ seen \in [Thread -> I64]
  /\ tasks \in Nat
  /\ sent \in I64

NotifierInit ==
  /\ now = 0
  /\ last_ms = I64Min
  /\ phase = [p \in Thread |-> "idle"]
  /\ at = [p \in Thread |-> 0]
  /\ seen = [p \in Thread |-> I64Min]
  /\ tasks = 0
  /\ sent = I64Min

\* Mutant: wrapping subtraction.
wrapping_sub(a, b) ==
  LET d == a - b
      w == I64Max - I64Min + 1
  IN IF d > I64Max THEN d - w ELSE IF d < I64Min THEN d + w ELSE d

\* i64::saturating_sub.
saturating_sub(a, b) ==
  LET d == a - b IN IF d > I64Max THEN I64Max ELSE IF d < I64Min THEN I64Min ELSE d

Elapsed(p) ==
  /\ phase[p] = "idle"
  /\ phase' = [phase EXCEPT ![p] = "timed"]
  /\ at' = [at EXCEPT ![p] = now]
  /\ UNCHANGED <<now, last_ms, seen, tasks, sent>>

\* Load the stamp; inside the window the ping ends here.
Load(p) ==
  /\ phase[p] = "timed"
  /\ seen' = [seen EXCEPT ![p] = last_ms]
  /\ phase' = [phase EXCEPT ![p] =
                 IF saturating_sub(at[p], last_ms) < Window THEN "idle" ELSE "loaded"]
  /\ UNCHANGED <<now, last_ms, at, tasks, sent>>

\* Mutant: a store in place of the compare_exchange.
CompareExchange_store(p) ==
  /\ phase[p] = "loaded"
  /\ phase' = [phase EXCEPT ![p] = "idle"]
  /\ last_ms' = at[p] /\ tasks' = tasks + 1 /\ sent' = now
  /\ UNCHANGED <<now, at, seen>>

\* Mutant: stamps the end of the window.
CompareExchange_end(p) ==
  /\ phase[p] = "loaded"
  /\ phase' = [phase EXCEPT ![p] = "idle"]
  /\ \/ last_ms = seen[p] /\ last_ms' = at[p] + Window /\ tasks' = tasks + 1 /\ sent' = now
     \/ last_ms # seen[p] /\ UNCHANGED <<last_ms, tasks, sent>>
  /\ UNCHANGED <<now, at, seen>>

\* The winner stamps the window and spawns the task, a loser returns.
CompareExchange(p) ==
  /\ phase[p] = "loaded"
  /\ phase' = [phase EXCEPT ![p] = "idle"]
  /\ \/ last_ms = seen[p] /\ last_ms' = at[p] /\ tasks' = tasks + 1 /\ sent' = now
     \/ last_ms # seen[p] /\ UNCHANGED <<last_ms, tasks, sent>>
  /\ UNCHANGED <<now, at, seen>>

\* The task runs SELECT pg_notify.
Emit ==
  /\ tasks > 0
  /\ tasks' = tasks - 1
  /\ UNCHANGED <<now, last_ms, phase, at, seen, sent>>

Tick ==
  /\ now < MaxTime
  /\ now' = now + 1
  /\ UNCHANGED pingVars

NotifierNext ==
  \/ \E p \in Thread : Elapsed(p) \/ Load(p) \/ CompareExchange(p)
  \/ Emit
  \/ Tick

NotifierSpec == NotifierInit /\ [][NotifierNext]_notifierVars

-----------------------------------------------------------------------------
(* Properties *)

\* Windows are claimed in order and do not overlap, although the stamp that a
\* thread writes was read from the clock some time before: every new stamp is
\* at least a window later than the one it replaces.
StampsApart ==
  [][last_ms' # last_ms =>
       /\ last_ms' \in 0 .. now
       /\ last_ms # I64Min => last_ms' >= last_ms + Window]_notifierVars

\* A ping may stay silent only because another one speaks for it: when a ping
\* returns, a NOTIFY has been spawned less than a window before that ping began,
\* or since.
SilentIsCovered ==
  [][\A p \in Thread :
       phase[p] # "idle" /\ phase'[p] = "idle" => sent' > at[p] - Window]_notifierVars

=============================================================================
