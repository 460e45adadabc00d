----------------------------- MODULE Lifecycle ------------------------------
(***************************************************************************)
(* The life of one `dropless serve --role all' process around the tasks of *)
(* Wake: main spawns the workers, binds the API socket, serves until the   *)
(* shutdown watch flips, lets axum finish the open requests, and gives the *)
(* workers a bounded time to drain.  The process may also be killed at any *)
(* moment, and be started again on the rows that the last one left.        *)
(***************************************************************************)
EXTENDS Wake

CONSTANT
  MaxStarts   \* bound: processes in one behaviour

ASSUME LifecycleAssumption == MaxStarts \in Nat \ {0}

VARIABLES
  main,       \* where serve stands; "off" when no process runs
  open,       \* threads that handle an HTTP request
  starts      \* processes started so far

lifeVars == <<main, open, starts>>
allVars == <<vars, lifeVars>>

\* The rows that workers have claimed and not finished.
Claimed == UNION {batch[w] : w \in Worker}

LifecycleTypeOK ==
  /\ TypeOK
  /\ main \in {"off", "binding", "serving", "closing", "draining"}
  /\ open \subseteq Thread
  /\ starts \in 1 .. MaxStarts
  /\ main = "off" => open = {} /\ tasks = 0 /\ Claimed = {}

\* The rows are in the database; the first process has spawned its workers.
LifecycleInit == Init /\ main = "binding" /\ open = {} /\ starts = 1

-----------------------------------------------------------------------------
(* Requests *)

\* Mutant: accepts until the last request has ended.
Accept_always(p) ==
  /\ main \in {"serving", "closing"} /\ p \notin open
  /\ open' = open \cup {p}
  /\ UNCHANGED <<vars, main, starts>>

Accept(p) ==
  /\ main = "serving" /\ p \notin open
  /\ open' = open \cup {p}
  /\ UNCHANGED <<vars, main, starts>>

\* The handler has returned from ping, or never enqueued anything.
Respond(p) ==
  /\ p \in open /\ p \notin owes /\ phase[p] = "idle"
  /\ open' = open \ {p}
  /\ UNCHANGED <<vars, main, starts>>

Handle(p) == p \in open /\ (Enqueue(p) \/ Ping(p)) /\ UNCHANGED lifeVars

-----------------------------------------------------------------------------
(* serve *)

\* The Notifier, the threads that ping and the tasks they spawned go with the
\* process's memory.
ResetNotifier ==
  /\ now' = 0 /\ last_ms' = I64Min /\ tasks' = 0 /\ sent' = I64Min
  /\ phase' = [p \in Thread |-> "idle"]
  /\ at' = [p \in Thread |-> 0]
  /\ seen' = [p \in Thread |-> I64Min]

\* Mutant: the rows of a process die with it.
Exit_forgets ==
  /\ main' = "off" /\ open' = {} /\ owes' = {}
  /\ ResetNotifier /\ shutdown' = FALSE /\ missed' = FALSE
  /\ pc' = [w \in Worker |-> "stopped"] /\ listener' = "stopped" /\ notes' = 0
  /\ batch' = [w \in Worker |-> {}]
  /\ UNCHANGED <<rows, due, later, done, starts>>

\* Mutant: detached workers outlive main.
Exit_detached ==
  /\ main' = "off" /\ open' = {} /\ owes' = {}
  /\ ResetNotifier /\ shutdown' = FALSE /\ missed' = FALSE
  /\ listener' = "stopped" /\ notes' = 0
  /\ UNCHANGED <<rows, due, later, pc, batch, done, starts>>

\* Every task ends with the process, wherever it stands; the rows that workers
\* had claimed stay `in_progress' until their leases lapse.
Exit ==
  /\ main' = "off" /\ open' = {} /\ owes' = {}
  /\ ResetNotifier /\ shutdown' = FALSE /\ missed' = FALSE
  /\ pc' = [w \in Worker |-> "stopped"] /\ listener' = "stopped" /\ notes' = 0
  /\ later' = later \cup Claimed
  /\ batch' = [w \in Worker |-> {}]
  /\ UNCHANGED <<rows, due, done, starts>>

\* TcpListener::bind; the workers run already, and end when it fails.
Bind ==
  /\ main = "binding"
  /\ \/ main' = "serving" /\ UNCHANGED <<vars, open, starts>>
     \/ Exit /\ Fault

\* shutdown_when returns: axum stops accepting connections.
StopAccepting ==
  /\ main = "serving" /\ shutdown
  /\ main' = "closing"
  /\ UNCHANGED <<vars, open, starts>>

\* axum::serve returns once every open request has its response.
ApiDone ==
  /\ main = "closing" /\ open = {}
  /\ main' = "draining"
  /\ UNCHANGED <<vars, open, starts>>

\* The drain ends when every task has been joined or at its timeout, which may
\* come at any time: nothing relates it to how long a batch takes.
Drain == main = "draining" /\ Exit /\ UNCHANGED faults

\* SIGKILL, the OOM killer, a power cut.
Kill == main # "off" /\ Exit /\ Fault

\* The next process spawns its tasks.
Start ==
  /\ main = "off" /\ starts < MaxStarts
  /\ main' = "binding" /\ starts' = starts + 1
  /\ pc' = [w \in Worker |-> "top"] /\ listener' = "top"
  /\ UNCHANGED <<notifierVars, owes, rows, due, later, batch, done,
                 notes, missed, shutdown, faults, open>>

MainStep == Bind \/ StopAccepting \/ ApiDone \/ Drain

-----------------------------------------------------------------------------

\* What runs in the process next to main, and time in the database.
TaskStep ==
  /\ \/ Notify \/ Listen \/ ListenError \/ Ripen
     \/ \E w \in Worker : WorkerStep(w)
     \/ main # "off" /\ (Time \/ Signal)
  /\ UNCHANGED lifeVars

LifecycleNext ==
  \/ \E p \in Thread : Accept(p) \/ Respond(p) \/ Handle(p)
  \/ TaskStep
  \/ MainStep
  \/ Kill
  \/ Start

LifecycleSpec == LifecycleInit /\ [][LifecycleNext]_allVars

\* tokio runs main and the tasks, and their timers fire.  Nothing is assumed of
\* clients, of the operator or of whoever starts the process again.
LifecycleFairness ==
  /\ WF_allVars(MainStep)
  /\ WF_allVars(Listen /\ UNCHANGED lifeVars)
  /\ WF_allVars(Ripen /\ UNCHANGED lifeVars)
  /\ \A w \in Worker : WF_allVars(WorkerStep(w) /\ UNCHANGED lifeVars)

LifecycleFairSpec == LifecycleSpec /\ LifecycleFairness

-----------------------------------------------------------------------------
(* Properties *)

\* "Any in-flight rows not drained in time stay in_progress and are reclaimed
\* once their lease lapses on the next start -- never lost": however processes
\* stop, every row is due, waiting, in a worker's batch or processed, and it is
\* in one of these places only.
NothingLost ==
  /\ due \cup later \cup Claimed \cup done = 1 .. rows
  /\ due \cap later = {} /\ Claimed \cap (due \cup later) = {}
  /\ done \cap (due \cup later \cup Claimed) = {}
  /\ \A v, w \in Worker : v # w => batch[v] \cap batch[w] = {}

\* And the poll loop gets to them: once some process stays up, every row that
\* was ever enqueued is processed, whatever became of pings, NOTIFYs, the
\* listener and earlier processes.
UpServesAll == <>[](main = "serving" /\ ~shutdown) => <>[](done = 1 .. rows)

\* A signalled process ends, wherever the signal finds main and its tasks, if no
\* client keeps a request open for ever (axum's graceful phase has no bound).
SignalEnds == (\A p \in Thread : []<>(p \notin open)) => (shutdown ~> main = "off")

=============================================================================
