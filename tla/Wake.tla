-------------------------------- MODULE Wake --------------------------------
(***************************************************************************)
(* How work reaches idle workers, and how they stop: enqueues ping the     *)
(* Notifier, its NOTIFYs reach the LISTEN connection of listen_loop, which *)
(* pulses the shared tokio Notify that idle workers wait on in run_worker, *)
(* next to the poll interval and the shutdown watch.                       *)
(*                                                                         *)
(* Of a row only its place counts here (what becomes of one is the subject *)
(* of Dispatcher): `due' rows can be claimed, `later' rows wait for their  *)
(* next attempt or for the end of a lease that nobody works on.            *)
(***************************************************************************)
EXTENDS Notifier, FiniteSets

CONSTANTS
  Worker,
  BatchSize,  \* batch_size
  MaxRows,    \* bound: rows enqueued in one behaviour
  MaxFaults   \* bound: failed calls in one behaviour

ASSUME WakeAssumption ==
  BatchSize \in Nat \ {0} /\ MaxRows \in Nat /\ MaxFaults \in Nat

VARIABLES
  owes,       \* threads that have committed a row and not yet called ping
  rows,       \* rows enqueued so far, numbered from 1
  due,        \* rows that a claim would return
  later,      \* rows whose next_attempt_at or locked_until is still to come
  pc,         \* where each worker stands in run_worker
  batch,      \* rows that its for loop has still to process
  listener,   \* where listen_loop stands
  notes,      \* notifications on the LISTEN connection
  shutdown,   \* the watch channel
  faults,     \* failed calls so far
  done,       \* rows that were processed for good
  missed      \* history: a NOTIFY was sent while nobody listened

workerVars == <<due, later, pc, batch, done>>
listenVars == <<listener, notes, missed>>
vars == <<notifierVars, owes, rows, workerVars, listenVars, shutdown, faults>>

\* "paused": sleeping after a failed claim; "empty": the claim returned no row
\* and the worker does not wait for a wake yet.
TypeOK ==
  /\ NotifierTypeOK
  /\ owes \subseteq Thread
  /\ rows \in 0 .. MaxRows
  /\ due \subseteq 1 .. rows
  /\ later \subseteq 1 .. rows
  /\ pc \in [Worker -> {"top", "claim", "paused", "empty", "waiting", "busy", "stopped"}]
  /\ batch \in [Worker -> SUBSET (1 .. rows)]
  /\ listener \in {"top", "connect", "backoff", "listening", "stopped"}
  /\ notes \in Nat
  /\ shutdown \in BOOLEAN
  /\ faults \in 0 .. MaxFaults
  /\ done \subseteq 1 .. rows
  /\ missed \in BOOLEAN

Init ==
  /\ NotifierInit
  /\ owes = {} /\ rows = 0 /\ due = {} /\ later = {}
  /\ pc = [w \in Worker |-> "top"]
  /\ batch = [w \in Worker |-> {}]
  /\ listener = "top" /\ notes = 0 /\ missed = FALSE
  /\ shutdown = FALSE
  /\ faults = 0 /\ done = {}

Fault == faults < MaxFaults /\ faults' = faults + 1

-----------------------------------------------------------------------------
(* Producers *)

Enqueue(p) ==
  /\ phase[p] = "idle" /\ p \notin owes /\ rows < MaxRows
  /\ rows' = rows + 1 /\ due' = due \cup {rows + 1}
  /\ owes' = owes \cup {p}
  /\ UNCHANGED <<notifierVars, later, pc, batch, done, listenVars, shutdown, faults>>

Ping(p) ==
  /\ \/ p \in owes /\ owes' = owes \ {p} /\ Elapsed(p)
     \/ (Load(p) \/ CompareExchange(p)) /\ UNCHANGED owes
  /\ UNCHANGED <<rows, workerVars, listenVars, shutdown, faults>>

\* A NOTIFY reaches whoever listens when it commits; pg_notify may also fail.
Notify ==
  /\ Emit
  /\ \/ /\ notes' = IF listener = "listening" THEN notes + 1 ELSE notes
        /\ missed' = (missed \/ listener # "listening")
        /\ UNCHANGED faults
     \/ Fault /\ UNCHANGED <<notes, missed>>
  /\ UNCHANGED <<owes, rows, workerVars, listener, shutdown>>

-----------------------------------------------------------------------------
(* listen_loop *)

\* The check at the top of the outer loop.
ListenTop ==
  /\ listener = "top"
  /\ listener' = IF shutdown THEN "stopped" ELSE "connect"
  /\ UNCHANGED <<notes, missed, pc, faults>>

\* connect_with and listen; when one fails the loop backs off for a second.
Connect ==
  /\ listener = "connect"
  /\ \/ listener' = "listening" /\ UNCHANGED faults
     \/ listener' = "backoff" /\ Fault
  /\ UNCHANGED <<notes, missed, pc>>

Backoff ==
  /\ listener = "backoff"
  /\ listener' = "top"
  /\ UNCHANGED <<notes, missed, pc, faults>>

\* recv returns a notification: notify_waiters wakes those that wait now.
Recv ==
  /\ listener = "listening" /\ notes > 0
  /\ notes' = notes - 1
  /\ pc' = [w \in Worker |-> IF pc[w] = "waiting" THEN "top" ELSE pc[w]]
  /\ UNCHANGED <<listener, missed, faults>>

\* recv fails: what was under way on the connection is lost.
RecvError ==
  /\ listener = "listening" /\ Fault
  /\ listener' = "top" /\ notes' = 0
  /\ UNCHANGED <<missed, pc>>

\* Mutant: the branch does not return.
ListenStop_ignored ==
  /\ listener = "listening" /\ shutdown
  /\ UNCHANGED <<listener, notes, missed, pc, faults>>

\* The shutdown branch of the select.
ListenStop ==
  /\ listener = "listening" /\ shutdown
  /\ listener' = "stopped"
  /\ UNCHANGED <<notes, missed, pc, faults>>

Listen ==
  /\ ListenTop \/ Connect \/ Backoff \/ Recv \/ ListenStop
  /\ UNCHANGED <<notifierVars, owes, rows, due, later, batch, done, shutdown>>

-----------------------------------------------------------------------------
(* run_worker *)

WorkerTop(w) ==
  /\ pc[w] = "top"
  /\ pc' = [pc EXCEPT ![w] = IF shutdown THEN "stopped" ELSE "claim"]
  /\ UNCHANGED <<due, later, batch, done, faults>>

\* What the claim may return: as many of the due rows as the limit allows.
claim_due_deliveries ==
  {S \in SUBSET due : /\ Cardinality(S) <= BatchSize
                      /\ S = due \/ Cardinality(S) = BatchSize}

Claim(w) ==
  /\ pc[w] = "claim"
  /\ \/ /\ \E S \in claim_due_deliveries :
             /\ pc' = [pc EXCEPT ![w] = IF S = {} THEN "empty" ELSE "busy"]
             /\ due' = due \ S
             /\ batch' = [batch EXCEPT ![w] = S]
        /\ UNCHANGED faults
     \/ pc' = [pc EXCEPT ![w] = "paused"] /\ Fault /\ UNCHANGED <<due, batch>>
  /\ UNCHANGED <<later, done>>

\* sleep_or_shutdown: both branches lead to the top of the loop, and the sleep
\* ends at any time.
Paused(w) ==
  /\ pc[w] = "paused"
  /\ pc' = [pc EXCEPT ![w] = "top"]
  /\ UNCHANGED <<due, later, batch, done, faults>>

\* The select creates the wake.notified() future.
Arm(w) ==
  /\ pc[w] = "empty"
  /\ pc' = [pc EXCEPT ![w] = "waiting"]
  /\ UNCHANGED <<due, later, batch, done, faults>>

\* Mutant: no poll interval.
Poll_none(w) ==
  /\ pc[w] = "waiting" /\ shutdown
  /\ pc' = [pc EXCEPT ![w] = "top"]
  /\ UNCHANGED <<due, later, batch, done, faults>>

\* The poll interval is over or shutdown changed (Recv is the third branch).
Poll(w) ==
  /\ pc[w] = "waiting"
  /\ pc' = [pc EXCEPT ![w] = "top"]
  /\ UNCHANGED <<due, later, batch, done, faults>>

\* The for loop: on shutdown the rest is left to its lease, else the next row is
\* processed, which may fail and become due again later.
ProcessNext(w) ==
  /\ pc[w] = "busy"
  /\ \/ /\ shutdown \/ batch[w] = {}
        /\ pc' = [pc EXCEPT ![w] = "top"]
        /\ later' = later \cup batch[w]
        /\ batch' = [batch EXCEPT ![w] = {}]
        /\ UNCHANGED <<done, faults>>
     \/ /\ ~shutdown
        /\ \E r \in batch[w] :
             /\ batch' = [batch EXCEPT ![w] = @ \ {r}]
             /\ \/ done' = done \cup {r} /\ UNCHANGED <<later, faults>>
                \/ later' = later \cup {r} /\ Fault /\ UNCHANGED done
        /\ UNCHANGED pc
  /\ UNCHANGED due

WorkerStep(w) ==
  /\ WorkerTop(w) \/ Claim(w) \/ Paused(w) \/ Arm(w) \/ Poll(w) \/ ProcessNext(w)
  /\ UNCHANGED <<notifierVars, owes, rows, listenVars, shutdown>>

\* A retry falls due; nobody pings for it.
Ripen ==
  /\ \E r \in later : later' = later \ {r} /\ due' = due \cup {r}
  /\ UNCHANGED <<notifierVars, owes, rows, pc, batch, done, listenVars, shutdown, faults>>

-----------------------------------------------------------------------------

Time == Tick /\ UNCHANGED <<owes, rows, workerVars, listenVars, shutdown, faults>>

\* wait_for_signal returns and the watch flips to true.
Signal ==
  /\ ~shutdown /\ shutdown' = TRUE
  /\ UNCHANGED <<notifierVars, owes, rows, workerVars, listenVars, faults>>

ListenError ==
  RecvError /\ UNCHANGED <<notifierVars, owes, rows, due, later, batch, done, shutdown>>

Next ==
  \/ \E p \in Thread : Enqueue(p) \/ Ping(p)
  \/ Notify
  \/ Listen
  \/ ListenError
  \/ \E w \in Worker : WorkerStep(w)
  \/ Ripen
  \/ Time
  \/ Signal

Spec == Init /\ [][Next]_vars

-----------------------------------------------------------------------------
(* Properties *)

\* A shutdown reaches every task, wherever the signal finds it: between its
\* check of the watch and its select, in a batch, sleeping or reconnecting.
ShutdownStops ==
  shutdown ~> listener = "stopped" /\ \A w \in Worker : pc[w] = "stopped"

\* "so first-delivery latency isn't bound by the poll interval": with the
\* listener up and no failure or missed NOTIFY so far, a row whose ping has
\* returned is not left to the poll interval, that is, some worker is awake or
\* a wake is on its way.
WokenForWork ==
  /\ due # {} /\ ~shutdown /\ faults = 0 /\ ~missed
  /\ owes = {} /\ \A p \in Thread : phase[p] = "idle"
  => \/ tasks > 0 \/ notes > 0
     \/ \E w \in Worker : pc[w] # "waiting"

=============================================================================
