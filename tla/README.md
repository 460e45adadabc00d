# A TLA+ model of dropless

dropless accepts messages from producers and webhooks from providers, stores
them in Postgres, and delivers them over HTTP to subscribed endpoints, at least
once, with retries, a circuit breaker per endpoint and dead letters. The tables
are the only state that survives: there is no other queue. What makes the system
hard is that any number of tasks, of any number of processes, read those tables,
talk to the outside world for seconds, and then write on the strength of what
they read. This project models those tasks, checks small instances with TLC and
proves the main properties with TLAPS.

## Inventory

| Part | Source | Module |
| --- | --- | --- |
| Dispatcher workers (claim, lease, attempt, release) | `dropless-core/src/dispatcher.rs`, `store.rs` | `Dispatcher` |
| Leases and settlement in time | `dispatcher.rs`, `store.rs`, the warning in `main.rs` | `LeaseTiming` |
| What a delivery is promised | docs of `store.rs`, `README.md` | `DeliveryContract` (abstract) |
| Circuit breaker | `circuit.rs`, `store.rs` (`update_circuit`, `try_acquire_probe`) | `Circuit` |
| Retry policy | `retry.rs` | `Retry` |
| Outbox: producer messages | `outbox.rs`, `dropless/src/api.rs` | `Ingest` |
| Inbox: provider webhooks | `inbox.rs`, `api.rs` (`ingest`) | `Ingest` |
| From request to outcome | all of the above | `Pipeline` (composes `Ingest` and `LeaseTiming`) |
| Tenants, keys, endpoints, consumers, sources, reads | `api.rs`, `store.rs`, commands of `main.rs` | `Tenancy`; what fan-out and delivery read also in `Ingest`, `Dispatcher` |
| Coalescing notifier | `notify.rs` | `Notifier` |
| LISTEN loop, idle workers, shutdown watch | `dispatcher.rs` | `Wake` (extends `Notifier`) |
| Process lifecycle | `main.rs` (`serve`) | `Lifecycle` (extends `Wake`) |
| Rate limiter | `dropless/src/ratelimit.rs` | `RateLimiter` |
| Schema | `migrations/` | the columns, constraints and the index the models use |

What has no module is listed under "Not modelled".

How they interact: `Ingest` commits events and delivery rows and then pings the
`Notifier`; its NOTIFY reaches the listener of `Wake`, which wakes idle workers;
a woken worker claims rows and works through them as in `Dispatcher`, which
consults `Circuit` before an attempt and `Retry` after a failed one. `Lifecycle`
starts, drains, kills and restarts the process around those tasks, and `Pipeline`
puts the two ends together over one database. `Tenancy` looks at the same tables
from the side of the API: whose rows a call sees and writes. The rate limiter
stands in front of the producers' handlers.

`PROJECT.json` maps every definition to the lines it models, and lists the
hazards of the code, each at the line where it bites, with the properties that
watch it.

## The models

### Dispatcher, Circuit, Retry

State: the `deliveries` rows (`row`), the breaker columns and the disabled flag
of `endpoints` (`ep`), `delivery_attempts` (`log`) and `dead_letters`
(`letters`); per worker, where its loop stands (`pc`) and what it has in memory:
the rest of its batch, the `attempt_count` of each claimed copy (`count`), the
delivery in hand (`cur`), the endpoint row it read (`seen`), a remembered
instant (`stamp`) and the outcome of the POST (`result`).

| Action | Code |
| --- | --- |
| `Claim` | `claim_due_deliveries` in `run_worker` (a claim without rows changes nothing and is a stutter) |
| `Begin`, `Stop` | the `for` loop over the batch and both checks of the shutdown watch |
| `LoadEndpoint`, `AcquireProbe` | `process_one` up to the POST: disabled check, `gate`, `try_acquire_probe` |
| `Defer` | `defer_delivery` |
| `Respond`, `Unsendable` | the POST is answered, or the request cannot be built; the outcome's transaction begins |
| `CommitSuccess`, `CommitRetry`, `CommitExhausted`, `CommitPoison`, `Abandon` | the outcomes' transactions, which succeed or roll back on a lost lease |
| `DbError` | `process_one` returns an error: the lease is left to lapse |
| `Enqueue`, `Replay`, `SetDisabled`, `Shutdown`, `Restart`, `Tick` | producers, operators, signals, crashes, time |

Modelling decisions:

* A statement, or a transaction whose effects only show at its commit, is one
  step. Postgres' `now()` is the instant at which a transaction began, so
  `Respond` and `Unsendable` remember it in `stamp`, and the lease guard is
  evaluated with it however late the commit is. `Utc::now()` inside the
  transaction is any instant from then on.
* A row that an open outcome transaction has locked may be skipped by a claim
  (`SKIP LOCKED`), as the insert of its attempt row locks the delivery through
  the foreign key: `InOutcome`.
* Postgres and the processes read one clock. An instant is a number of clock
  units; a long step is a step with ticks before it.
* A COMMIT whose acknowledgement is lost is the commit followed by the return to
  the loop: the worker does nothing else with its copy.
* `locked_by` holds the worker's name, which is unique within a process only.
* The branches for an endpoint or event that "no longer exists" are left out:
  nothing deletes either, and the foreign keys would forbid it.
* `backoff` is any delay up to the ceiling (full jitter); the ceiling keeps the
  clamp of the exponent and the saturating multiplication.

`fresh` and `acked` are history variables: which copies come from the latest
claim of their row, and which deliveries some endpoint has answered with a 2xx.

### LeaseTiming

The same workers when it matters how long things take. `Dispatcher` has every
statement and every stale clock but ends with its clock; here instants are
distances from now, a tick takes one from each, and behaviours go on for ever. A
POST ends within `HttpTimeout`, and the statements of a delivery take up to
`DbTime` in all (a parameter: the code does not bound it). Time passes unless a
worker has used up what it may take (`MayWait`). `Record` is the outcome's
transaction as one step, `fresh` as in `Dispatcher`. Of rows that are due the
claim may take any, as distances do not tell how long ago they fell due. One
process; shutdown and unsendable requests are left to `Dispatcher`.

### DeliveryContract

The promise without workers, leases, clocks and breakers: a delivery is open
until its endpoint has accepted it or its budget is used up (or it can never be
sent), every outcome is appended to a log that is never rewritten, operators may
reopen it, and nothing else happens to it. `Dispatcher` implements it under the
mapping `Fate` (pending, in progress and failed are all "open").

### Ingest

Handlers serve requests, each with one READ COMMITTED transaction, statement by
statement: resolve the owner, insert the inbound row (webhooks only), insert the
event, snapshot the endpoints, insert one delivery after the other, commit,
reply. What other transactions feel before the commit is the entry in the unique
index `inbound_events_dedup_idx`: an equal insert waits for it (`Locked`) and
then sees a duplicate or, after a rollback, goes on. Only the first statement of
a webhook's transaction can wait, so no deadlock arises. `Fail` stands for every
refusal, error, broken connection and crash, after the commit as well. Clients
send a request until it is acknowledged, and may lose patience and send it again
while it is being served. Subscription patterns are model values with the set of
types that each covers. `must` and `may` are history variables: the endpoints
that wanted the request all the time, and at some time, since it came in.

### Pipeline

`Ingest` and an instance of `LeaseTiming` side by side. A delivery is an event's
position and an endpoint. The step that commits an event inserts its delivery
rows in the same step, claimable from then on, and a PATCH of `disabled` changes
what the snapshot reads and what workers read. Every other step belongs to one
side. `Disturb` brings crashes, failed statements and replays.

### Tenancy

Any number of calls at once, each one or two statements: `auth` (or the slug of a
webhook, or the CLI's argument) gives the tenant a call acts for (`who`), a first
statement may look up a row (`held`), and the last one writes or selects. Each
operator selects by the columns that the SQL names and no others: `get_consumer`
by tenant and uid, `deliveries_for_event` by the event alone, `reset_for_replay`
by the id alone, `list_consumers` counts by consumer alone. `shown` is whose rows
an answer has. Ids are any unused ones, as UUIDs are. A refused request is
`Refuse`; what a delivery goes through at its worker is the flag `queued`.

### Notifier, Wake

`Notifier` splits `ping` into its atomic operations: read the clock, load,
compare-and-exchange, spawn the task that sends. The arithmetic saturates at the
bounds of an `i64` of reduced width. `Wake` composes it with the LISTEN
connection, the tokio `Notify` (which only wakes tasks that already wait), the
idle `select!` of the workers and the shutdown watch. Of a row only its place
counts here: due, waiting for a time to come, in a worker's batch, or done.
`shutdown.changed()` fires once the flag is set however the check of the watch
and the `select!` interleave, because `borrow` does not mark the value as seen.

### Lifecycle

`serve` with `--role all`: the workers run while the socket is bound; when the
watch flips axum stops accepting, waits for the open requests and returns; the
drain ends when the tasks have, or at its timeout, which may come at any time.
`Exit` is what the end of a process does wherever its tasks stand: memory and
pending NOTIFYs are gone, the notifier's stamp and the watch with them, and
claimed rows wait for their leases. It follows a failed bind, the drain or a
kill. `Start` begins the next process on the rows that are left. Requests only enqueue and ping while a process is there to serve them.

### RateLimiter

One tenant's bucket. `check` reads the clock before `check_at` takes the mutex,
so calls reach the bucket in any order. Amounts are whole units instead of
`f64`; rounding errors of `f64` are not modelled.

## What is checked

Passing runs (TLC, exhaustive):

| Run | Instance | Shows |
| --- | --- | --- |
| `dispatcher_one` | 1 process, 2 workers, batches of 2 deliveries, one of which cannot be sent, 2 attempts, an operator call, time to 2 | all safety properties and `KeepsContract` |
| `lease_sized` | 2 workers, batches of 2, lease 5 > 2 * (1 + 1), a fault, an operator call, time without end | a batch drains within its lease; every delivery is settled |
| `ingest_hooks` | 2 handlers, 3 webhooks, 2 of them equal, 2 faults | bridged once, acknowledged only when stored, and acknowledged in the end if sent long enough |
| `pipeline` | 1 handler, 1 message (which may be accepted twice), 1 endpoint, 1 worker, a fault, 3 operator calls | exact fan-out; event and deliveries appear together, and before the 2xx; a second event for a request takes a fault; promised deliveries are settled |
| `notifier_pings` | 3 threads, several windows | windows do not overlap, silence is covered |
| `lifecycle` | 2 processes one after the other, a worker with batches of 2, 2 rows, a fault | no row is lost, whoever stays up serves all, a signal stops every task and ends the process |
| `limiter` | 2 callers, three rates (one is "off") | the rate bound while calls keep their order; Retry-After is kept in any order |
| `tenancy` | 2 concurrent calls, 2 tenants that share a consumer's name and a slug, 2 consumers, 2 endpoints, a source, an event | rows cohere, calls show and write their own tenant's rows |

Why the bounds suffice: the hazards of the dispatcher, the notifier and the
limiter need two workers (or handlers, threads, callers) on one row (or key,
window, bucket); a lease of one unit lapses and is claimed again within two units
of time; a budget of two separates "first failure" from "last failure", a
threshold of two "counting" from "tripped"; a third notifier thread lets one win,
one lose the race and one come late. In `lifecycle` one worker is enough, because
it is the processes that follow each other; in `tenancy` what one call does to
another shows with two calls, and two ids let a wrong one be picked. Faults and
operator calls are capped by `MaxFaults` and `MaxOps`, time by `MaxTime`, rows by
`MaxRows`, processes by `MaxStarts`; all are constants that the proofs leave
arbitrary. `MaxFaults` matters for liveness: an attempt that is lost in a crash is
not counted, so with a crash during every attempt no delivery would ever be
settled, and "every delivery is settled" is said of behaviours in which crashes
and database errors come to an end. The runs of `Ingest`, `Wake` and `Lifecycle`
do not check deadlock: with all requests acknowledged, or all processes used up,
those systems may stop. The others can always go on.

Two properties are conditional because the code is: `Settles`,
`AcceptedIsSettled` speak of endpoints that do not stay disabled, and
`SignalEnds` of clients that do not keep a request open for ever, as axum's
graceful phase has no bound of its own.

Fairness, used by the runs with a liveness property:

* `Ingest!FairSpec`: tokio runs every handler whose statement can proceed (weak
  fairness of its steps), and clients send what is not acknowledged again. The
  server has a task for every request, so a client that keeps sending is served
  again and again (strong fairness of `Receive`: the pool of handlers is a bound
  of the model). A handler that waits for the index is not assumed to proceed;
  the holder's commit or rollback frees it.
* `LeaseTiming!FairSpec`: time passes and each worker takes the steps it can. An
  idle worker claims a poll interval after an empty claim at the latest.
  Endpoints may hang or fail for ever.
* `PipelineFairSpec`: that of the two parts.
* `LifecycleFairSpec`: tokio runs main and the tasks and its timers fire (weak
  fairness of `MainStep`, the listener, each worker; `Ripen`, as time passes).
  Nothing is assumed of clients, pings, NOTIFY delivery, the operator or whoever
  starts the next process.

## Where code and documentation disagree

Each of these runs checks one documented statement, and TLC finds a behaviour of
the code that contradicts it.

| Run | Statement | What happens |
| --- | --- | --- |
| `nodes_fenced` | the lease guard keeps a late worker from clobbering "the new owner's state" (`store.rs:548`) | with several processes two workers are called `worker-0`, and the guard takes one for the other. Safety of the delivery survives: `ContractKept` and the theorems of `DispatcherSafety` hold for any number of processes |
| `failure_keeps_open` | `open_duration` is "How long the breaker stays open before a half-open probe." (`circuit.rs:17`) | a failure computed from an older endpoint row closes a breaker that has tripped meanwhile |
| `wake_prompt` | "first-delivery latency isn't bound by the poll interval" (`dispatcher.rs:86`) | a pulse between the empty claim and the wait, or a silent ping, leaves a row to the poll |
| `lease_edge` | "if a claimed batch can't drain within the lease, its tail is re-claimed and re-delivered. Warn so operators size it." (`main.rs:296`), "(no loss, just extra duplicates)" (`main.rs:304`) | with `lock_secs` equal to `batch * http_timeout` nothing is warned of, yet a POST that times out ends with its lease: the failure is rolled back and not counted, and the delivery is sent again, for ever if the endpoint keeps hanging |

Four smaller ones have no run of their own. The attempt that exhausts the budget
is in `delivery_attempts` but not in `attempt_count` (`model.rs:170`: "Number of
attempts made so far."); `CountsAttempts` states what holds instead. GitHub
webhooks are deduplicated by body and not by id (`README.md:46`), as `dedup_key`
says; the comment in `api.rs:585` gives the reason. A ping that is delayed between
reading the clock and claiming the window stamps the past, so two NOTIFYs may be
less than a window apart in time (`notify.rs:4`); `StampsApart` states what holds
instead, about stamps. And rate-limited calls that take the mutex out of clock
order move `last` back, so the time in between is refilled twice
(`ratelimit.rs:57`); `RateBound` says what holds while they keep their order.

## What is proved

All theorems hold for every value of the constants that satisfies the named
assumptions (`CircuitAssumption`, `RetryAssumption`, `DispatcherAssumption`,
`LeaseTimingAssumption`, `IngestAssumption`, `PipelineAssumption`,
`TenancyAssumption`, `RateLimiterAssumption` and those of `Notifier`, `Wake` and
`Lifecycle`): types, positive thresholds, durations and batch sizes, and finitely
many requests and handlers where they are counted. The bounds on time, faults and calls are part of the
specifications and arbitrary.

* `DispatcherProofs`: `TypeCorrect`, type correctness together with `HasJob`; the
  ways a step can change the deliveries table (`RowStep`), what workers hold, the
  breakers and the log.
* `DispatcherSafety`: the inductive invariant `SafetyInv`, whose conjuncts are
  preserved one by one, and its consequences `LeasesCoherent`,
  `CircuitsCoherent`, `NoEarlyDeath`, `SuccessIsRecorded`. The strengthening says
  what a worker's memory may be trusted for: its endpoint snapshot is stale but
  coherent (`SeenCoherent`), so a failure computed from it writes coherent
  columns; the `attempt_count` of its copy never exceeds the log
  (`CountsBelowLog`), so an exhausted budget is backed by recorded attempts even
  if the copy is stale; its rows exist (`CopiesExist`); and an outcome "ok" means
  that the endpoint answered 2xx (`OutcomeTrue`). None of it needs unique worker
  names.
* `DispatcherPromises`: `ContractKept`, the refinement of `DeliveryContract` step
  by step; `ProbesReopen`; and, under `UniqueNames` (one process per database),
  `LeaseIsFence` and `AttemptsAccounted`. The invariant `NamedIsFresh` says that a
  copy whose row still carries the worker's name comes from the latest claim and
  has the row's `attempt_count`. The run `nodes_fenced` shows that the assumption
  is needed.
* `LeaseTimingProofs`: `SizedLeaseOutlasts`, under `Sized`
  (`lock_secs > batch * (http_timeout + DbTime)`). The invariant is a budget: what
  is left of the lease of any row in a worker's hands exceeds what the worker may
  still spend, that is `http_timeout + DbTime` for each delivery it has not
  started and the rest of both for the one it has. A claim establishes it, a tick
  takes one from both sides, and each finished delivery only lowers the right one.
  The run `lease_edge` shows what happens without the strict margin.
  `LeaseTimingTyped` is type correctness without that premise, strengthened with
  `HasJob`.
* `PipelineProofs`, about `Ingest`: `IngestTyped`, `WebhooksBridgedOnce`,
  `AcksAreStored`, `FanOutIsExact`, from `IngestInv`: open transactions exclude
  each other on a key and exclude a stored key (`Exclusive`), a handler about to
  reply has committed (`ReplyCommitted`), and what a transaction has inserted and
  has still to insert lies between `must` and `may` (`Enclosed`, `Drafts`).
  `ExtraEventsAreFaults` is an account (`Paid`): every event, every handler that
  may yet commit and every request that its client has still to send is paid for
  by a request of its own or by a fault. A commit turns a handler underway into
  an event; a refusal gives the request back to its client.
* `PipelineProofs`, about `Pipeline`: `EventsAndDeliveriesAppearTogether`,
  `PromisesSurviveSending`, `AnsweredIsQueued`,
  `ExtraEventsAreFaultsWhileSending`, `EveryDeliveryIsStored`. A step of the
  pipeline is a step of `Ingest` or leaves all but its counters alone
  (`IngestPart`), so `IngestInv` carries over. What is added is `Rows`: a row that
  is not committed is leased to nobody, so that no worker that writes under its
  lease can bring one about. `AnsweredIsQueued` then follows from three of the
  parts, and `EveryDeliveryIsStored` from the account: the positions in `Delivery`
  cover every event that can be committed, so that bound hides nothing. The
  theorems of both parts assume that there is a request at all.
* `TenancyProofs`: `TenancyTyped`, `RowsCohere`, `AnswersShowOwn`,
  `CallsWriteOwn`. The strengthening is `Trusted`: the row that a call's first
  statement found belongs to the tenant it acts for, and stays so, because no
  statement changes the tenant of a row (`Kept`); so the second statement needs no
  check of its own. `Rooted` says that only rows that exist refer to a consumer.
* `RateLimiterProofs`: `LimiterTyped`, `RateIsBounded` and `RetryAfterIsKept`.
  `granted[s]` is a history, the calls that were granted at `s` or later, so that a
  stretch of time is a difference and needs no sum. The invariant for the rate says
  that what was granted since any instant, with what the bucket still holds, is at
  most a burst and the refill since then. For Retry-After the invariant
  `Promised` says that by the promised instant a whole token will have flowed in
  since `last`; a refused call moves `last` and the tokens along the same line,
  backwards too, and a granted one withdraws the promise.
* `LifecycleProofs`: `NotifierTyped`, `StampsAreApart`, `SilenceIsCovered`, from an
  invariant that relates the stamp, what racing threads have loaded, and the
  latest send; then `LifecycleTyped` and `NoRowIsLost`, for any number of workers,
  rows and processes. The invariant `LifeInv` has the places of rows, which are
  disjoint and together all rows, and the fact that only a busy worker has a
  batch, so a claim never overwrites one. `EachProcessNotifies` carries the
  notifier's two properties over to every process of a lifecycle.

The proof modules open with `USE ZenonT(5), SMTT(20), ZenonT(30), SMTT(60)`, tried
in that order. Most leaves are small enough for Zenon, and `tlapm` sometimes loses
a call of the SMT solver in a module with many obligations, so a leaf that needs
it is tried twice.

Only model-checked: the liveness properties (`EventuallyAcked`, `Settles`,
`AcceptedIsSettled`, `UpServesAll`, `ShutdownStops`, `SignalEnds`), which rest on
fairness and are out of the prover's reach, and the disagreements above, which are
counterexamples. Every invariant and action property of a passing run is a
theorem.

## Not modelled

* Signing and signature verification (`signing.rs`, `inbound.rs`): functions of
  their arguments without state, whose content is the HMAC itself. A webhook that
  fails is refused (`Fail`, `Refuse`), a request that cannot be signed is in
  `Poison`.
* The text of event types and patterns: `Covers` gives the types that a pattern
  covers. Splitting `prefix.*` is string work that a unit test of `model.rs`
  covers.
* The operator's console, metrics, health probes and pages: they change no state,
  and read across tenants by design.
* Argument parsing and defaults (`main.rs`, `config.rs`): every value of the
  settings that the assumptions allow is covered by the proofs. `--role api` and
  `--role worker` are `Lifecycle` without workers and without requests.
* Migrations at start: Postgres and sqlx serialize them; the models begin after.
* Endpoints, events or consumers that vanish: nothing deletes one. An inbound
  source is never disabled by the code either, so that check is not modelled.
* The memory that the rate limiter's map takes (it keeps a bucket per tenant) and
  the rounding of `f64`.
* The pool of database connections: a handler or worker that waits for one is
  slow, which the models allow everywhere but in `LeaseTiming`, where the wait is
  part of `DbTime`.
* The TypeScript client, benchmarks, examples and scripts: outside the system.
