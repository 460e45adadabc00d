-------------------------- MODULE LifecycleProofs ---------------------------
(***************************************************************************)
(* Proofs about Notifier for any number of threads, any window and any     *)
(* width of the stamp (stamps are a window apart, and no ping is silent    *)
(* without another one that speaks for it), and about Lifecycle for any    *)
(* number of workers, rows, faults and processes: no row is lost, however  *)
(* processes end, and the Notifier's guarantees hold in each of them.      *)
(***************************************************************************)
EXTENDS Lifecycle, TLAPS

USE ZenonT(5), SMTT(20), ZenonT(30), SMTT(60),
    NotifierAssumption, WakeAssumption, LifecycleAssumption

-----------------------------------------------------------------------------
(* Notifier *)

\* What the clock says about the stamp and the threads' locals.
Stamped ==
  /\ last_ms = I64Min \/ last_ms \in 0 .. now
  /\ sent = I64Min \/ sent \in 0 .. now
  /\ last_ms <= sent
  /\ \A p \in Thread :
       /\ at[p] \in 0 .. now
       /\ seen[p] = I64Min \/ seen[p] \in 0 .. now

\* A thread about to claim: its window is free as far as it saw, and if another
\* thread was faster, that one spawned its NOTIFY after this ping began.
Racing ==
  \A p \in Thread : phase[p] = "loaded" =>
    /\ seen[p] # I64Min => at[p] - seen[p] >= Window
    /\ last_ms # seen[p] => sent >= at[p]

NotifierInv == NotifierTypeOK /\ Stamped /\ Racing

LEMMA Widths == I64Min \in Int /\ I64Min < 0 /\ I64Max \in Nat /\ Window \in Nat /\ Window >= 1
                /\ Window <= I64Max /\ MaxTime \in Nat /\ MaxTime <= I64Max
BY DEF I64Min

\* A subtraction of instants does not saturate; one of I64Min does.
LEMMA SaturatingSub ==
  ASSUME NEW a \in 0 .. MaxTime
  PROVE  /\ \A b \in 0 .. MaxTime : saturating_sub(a, b) = a - b
         /\ saturating_sub(a, I64Min) = I64Max
BY DEF saturating_sub, I64Min

LEMMA InitNotifier == NotifierInit => NotifierInv
BY DEF NotifierInit, NotifierInv, NotifierTypeOK, Stamped, Racing, I64, I64Min

LEMMA ElapsedStep ==
  ASSUME NotifierInv, NEW p \in Thread, Elapsed(p)
  PROVE  NotifierInv'
<1>1. NotifierTypeOK'
  BY Widths DEF NotifierInv, NotifierTypeOK, Elapsed, I64
<1>2. Stamped'
  BY Widths DEF NotifierInv, NotifierTypeOK, Stamped, Elapsed
<1>3. Racing'
  BY DEF NotifierInv, NotifierTypeOK, Racing, Elapsed
<1> QED
  BY <1>1, <1>2, <1>3 DEF NotifierInv

LEMMA LoadStep ==
  ASSUME NotifierInv, NEW p \in Thread, Load(p)
  PROVE  NotifierInv'
<1>1. NotifierTypeOK'
  BY DEF NotifierInv, NotifierTypeOK, Load, I64
<1>2. Stamped'
  BY DEF NotifierInv, NotifierTypeOK, Stamped, Load
<1>3. ASSUME NEW q \in Thread, phase'[q] = "loaded"
      PROVE  /\ seen'[q] # I64Min => at'[q] - seen'[q] >= Window
             /\ last_ms' # seen'[q] => sent' >= at'[q]
  <2>1. CASE q = p
    <3>1. seen'[p] = last_ms /\ last_ms' = last_ms /\ at' = at
          /\ ~(saturating_sub(at[p], last_ms) < Window)
      BY <1>3, <2>1 DEF NotifierInv, NotifierTypeOK, Load
    <3>2. last_ms # I64Min => at[p] - last_ms >= Window
      <4>1. at[p] \in 0 .. MaxTime /\ (last_ms # I64Min => last_ms \in 0 .. MaxTime)
        BY Widths DEF NotifierInv, NotifierTypeOK, Stamped
      <4> QED
        BY <3>1, <4>1, SaturatingSub, Widths
    <3> QED
      BY <2>1, <3>1, <3>2
  <2>2. CASE q # p
    BY <1>3, <2>2 DEF NotifierInv, NotifierTypeOK, Racing, Load
  <2> QED
    BY <2>1, <2>2
<1> QED
  BY <1>1, <1>2, <1>3 DEF NotifierInv, Racing

\* The winner's stamp lies a window after the one it replaces.
LEMMA WindowClaimed ==
  ASSUME NotifierInv, NEW p \in Thread, CompareExchange(p), last_ms = seen[p]
  PROVE  /\ last_ms' = at[p] /\ sent' = now
         /\ at[p] \in 0 .. now
         /\ last_ms # I64Min => at[p] >= last_ms + Window
         /\ last_ms' > last_ms
<1>1. last_ms' = at[p] /\ sent' = now /\ at[p] \in 0 .. now
  BY DEF NotifierInv, Stamped, CompareExchange
<1>2. last_ms # I64Min => at[p] - last_ms >= Window
  BY DEF NotifierInv, Racing, CompareExchange
<1>3. last_ms \in Int /\ now \in Nat
  BY Widths DEF NotifierInv, NotifierTypeOK, I64
<1> QED
  BY <1>1, <1>2, <1>3, Widths

LEMMA CompareExchangeStep ==
  ASSUME NotifierInv, NEW p \in Thread, CompareExchange(p)
  PROVE  NotifierInv'
<1>1. CASE last_ms # seen[p]
  <2>1. NotifierTypeOK' /\ Stamped'
    BY <1>1 DEF NotifierInv, NotifierTypeOK, Stamped, CompareExchange
  <2>2. Racing'
    BY <1>1 DEF NotifierInv, NotifierTypeOK, Racing, CompareExchange
  <2> QED
    BY <2>1, <2>2 DEF NotifierInv
<1>2. CASE last_ms = seen[p]
  <2>1. NotifierTypeOK'
    <3>1. last_ms' \in I64 /\ sent' \in I64
      BY <1>2, WindowClaimed, Widths DEF NotifierInv, NotifierTypeOK, I64
    <3> QED
      BY <1>2, <3>1 DEF NotifierInv, NotifierTypeOK, CompareExchange
  <2>2. Stamped'
    BY <1>2, WindowClaimed, Widths DEF NotifierInv, NotifierTypeOK, Stamped, CompareExchange
  <2>3. Racing'
    BY <1>2, WindowClaimed DEF NotifierInv, NotifierTypeOK, Stamped, Racing, CompareExchange
  <2> QED
    BY <2>1, <2>2, <2>3 DEF NotifierInv
<1> QED
  BY <1>1, <1>2

LEMMA NextNotifier == NotifierInv /\ [NotifierNext]_notifierVars => NotifierInv'
<1> SUFFICES ASSUME NotifierInv, [NotifierNext]_notifierVars PROVE NotifierInv'
  OBVIOUS
<1>1. CASE Emit
  BY <1>1 DEF Emit, NotifierInv, NotifierTypeOK, Stamped, Racing
<1>2. CASE Tick
  <2>1. NotifierTypeOK'
    BY <1>2 DEF Tick, pingVars, NotifierInv, NotifierTypeOK
  <2>2. Stamped' /\ Racing'
    BY <1>2 DEF Tick, pingVars, NotifierInv, NotifierTypeOK, Stamped, Racing
  <2> QED
    BY <2>1, <2>2 DEF NotifierInv
<1>3. CASE UNCHANGED notifierVars
  BY <1>3 DEF notifierVars, pingVars, NotifierInv, NotifierTypeOK, Stamped, Racing
<1> QED
  BY <1>1, <1>2, <1>3, ElapsedStep, LoadStep, CompareExchangeStep DEF NotifierNext

\* The stamp, the threads' locals and the clock stay in step.
THEOREM NotifierCorrect == NotifierSpec => []NotifierInv
BY InitNotifier, NextNotifier, PTL DEF NotifierSpec

\* The stamp is an i64 and no task is sent twice.
THEOREM NotifierTyped == NotifierSpec => []NotifierTypeOK
<1>1. NotifierInv => NotifierTypeOK
  BY DEF NotifierInv
<1> QED
  BY <1>1, NotifierCorrect, PTL

\* The actions of StampsApart and SilentIsCovered.
Apart ==
  last_ms' # last_ms => /\ last_ms' \in 0 .. now
                        /\ last_ms # I64Min => last_ms' >= last_ms + Window

Covers ==
  \A p \in Thread : phase[p] # "idle" /\ phase'[p] = "idle" => sent' > at[p] - Window

LEMMA ApartStep ==
  ASSUME NotifierInv, [NotifierNext]_notifierVars
  PROVE  Apart
<1> SUFFICES ASSUME last_ms' # last_ms
             PROVE  /\ last_ms' \in 0 .. now
                    /\ last_ms # I64Min => last_ms' >= last_ms + Window
  BY DEF Apart
<1>1. PICK p \in Thread : CompareExchange(p) /\ last_ms = seen[p]
  BY DEF NotifierNext, Elapsed, Load, CompareExchange, Emit, Tick, notifierVars, pingVars
<1> QED
  BY <1>1, WindowClaimed

LEMMA CoversStep ==
  ASSUME NotifierInv, [NotifierNext]_notifierVars
  PROVE  Covers
<1> SUFFICES ASSUME NEW p \in Thread, phase[p] # "idle", phase'[p] = "idle"
             PROVE  sent' > at[p] - Window
  BY DEF Covers
<1>1. Load(p) \/ CompareExchange(p)
  BY DEF NotifierNext, Elapsed, Load, CompareExchange, Emit, Tick, notifierVars, pingVars,
         NotifierInv, NotifierTypeOK
<1>2. CASE Load(p)
  <2>1. at[p] \in 0 .. MaxTime /\ (last_ms # I64Min => last_ms \in 0 .. MaxTime)
    BY Widths DEF NotifierInv, NotifierTypeOK, Stamped
  <2>2. saturating_sub(at[p], last_ms) < Window /\ sent' = sent
    BY <1>2 DEF Load, NotifierInv, NotifierTypeOK
  <2>3. last_ms # I64Min /\ at[p] - last_ms < Window
    BY <2>1, <2>2, SaturatingSub, Widths
  <2>4. last_ms <= sent /\ sent \in Int
    BY Widths DEF NotifierInv, Stamped, NotifierTypeOK, I64
  <2> QED
    BY <2>1, <2>2, <2>3, <2>4, Widths
<1>3. CASE CompareExchange(p)
  <2>1. CASE last_ms = seen[p]
    BY <1>3, <2>1, WindowClaimed, Widths DEF NotifierInv, NotifierTypeOK
  <2>2. CASE last_ms # seen[p]
    <3>1. sent' = sent /\ sent >= at[p]
      BY <1>3, <2>2 DEF CompareExchange, NotifierInv, Racing
    <3>2. at[p] \in Int /\ sent \in Int
      BY Widths DEF NotifierInv, NotifierTypeOK, I64
    <3> QED
      BY <3>1, <3>2, Widths
  <2> QED
    BY <2>1, <2>2
<1> QED
  BY <1>1, <1>2, <1>3

\* Each claimed window begins at least a window after the one before it, however
\* long threads are descheduled between reading the clock and claiming.
THEOREM StampsAreApart == NotifierSpec => StampsApart
<1>1. NotifierInv /\ [NotifierNext]_notifierVars => [Apart]_notifierVars
  BY ApartStep
<1> QED
  BY <1>1, NotifierCorrect, PTL DEF NotifierSpec, StampsApart, Apart

\* A ping that sends nothing is covered by a NOTIFY spawned less than a window
\* before it began, or since.
THEOREM SilenceIsCovered == NotifierSpec => SilentIsCovered
<1>1. NotifierInv /\ [NotifierNext]_notifierVars => [Covers]_notifierVars
  BY CoversStep
<1> QED
  BY <1>1, NotifierCorrect, PTL DEF NotifierSpec, SilentIsCovered, Covers

-----------------------------------------------------------------------------
(* Lifecycle: what runs *)

\* A worker that is not in its batch has none, and nothing runs without a process.
Shape ==
  /\ \A w \in Worker : pc[w] # "busy" => batch[w] = {}
  /\ main = "off" => listener = "stopped" /\ \A w \in Worker : pc[w] = "stopped"

LifeInv == NotifierInv /\ LifecycleTypeOK /\ Shape /\ NothingLost

\* What a step may do to the Notifier: one of its own steps, or the process ends
\* and the next one begins with a new one.
LEMMA NotifierPart ==
  ASSUME [LifecycleNext]_allVars
  PROVE  [NotifierNext]_notifierVars \/ (NotifierInit' /\ main' = "off")
<1>1. ASSUME NEW p \in Thread, Accept(p) \/ Respond(p) \/ Handle(p)
      PROVE  [NotifierNext]_notifierVars
  BY <1>1 DEF Accept, Respond, Handle, vars, Enqueue, Ping, NotifierNext
<1>2. CASE TaskStep
  BY <1>2 DEF TaskStep, Notify, Listen, ListenError, Ripen, WorkerStep, Time, Signal, NotifierNext
<1>3. CASE Exit
  BY <1>3 DEF Exit, ResetNotifier, NotifierInit
<1>4. CASE StopAccepting \/ ApiDone \/ Start \/ (Bind /\ ~Exit)
  BY <1>4 DEF StopAccepting, ApiDone, Start, Bind, vars
<1>5. CASE UNCHANGED allVars
  BY <1>5 DEF allVars, vars
<1> QED
  BY <1>1, <1>2, <1>3, <1>4, <1>5 DEF LifecycleNext, MainStep, Bind, Drain, Kill

LEMMA NotifierKept ==
  ASSUME NotifierInv, [LifecycleNext]_allVars
  PROVE  NotifierInv'
<1>1. CASE NotifierInit'
  BY <1>1 DEF NotifierInit, NotifierInv, NotifierTypeOK, Stamped, Racing, I64, I64Min
<1> QED
  BY <1>1, NotifierPart, NextNotifier

-----------------------------------------------------------------------------
(* Lifecycle: types *)

LEMMA InitLifecycle == LifecycleInit => LifeInv
<1> SUFFICES ASSUME LifecycleInit PROVE LifeInv
  OBVIOUS
<1>1. NotifierInv
  BY InitNotifier DEF LifecycleInit, Init
<1>2. /\ owes = {} /\ rows = 0 /\ due = {} /\ later = {} /\ done = {}
      /\ \A w \in Worker : batch[w] = {}
  BY DEF LifecycleInit, Init
<1>3. Claimed = {} /\ 1 .. rows = {}
  BY <1>2 DEF Claimed
<1>4. TypeOK
  <2>1. NotifierTypeOK /\ owes \subseteq Thread /\ rows \in 0 .. MaxRows
    BY <1>1, <1>2 DEF NotifierInv
  <2>2. due \subseteq 1 .. rows /\ later \subseteq 1 .. rows /\ done \subseteq 1 .. rows
    BY <1>2
  <2>3. /\ pc \in [Worker -> {"top", "claim", "paused", "empty", "waiting", "busy", "stopped"}]
        /\ batch \in [Worker -> SUBSET (1 .. rows)]
    BY DEF LifecycleInit, Init
  <2>4. /\ listener \in {"top", "connect", "backoff", "listening", "stopped"}
        /\ notes \in Nat /\ faults \in 0 .. MaxFaults
    BY DEF LifecycleInit, Init
  <2>5. shutdown \in BOOLEAN /\ missed \in BOOLEAN
    BY DEF LifecycleInit, Init
  <2> QED
    BY <2>1, <2>2, <2>3, <2>4, <2>5 DEF TypeOK
<1>5. LifecycleTypeOK
  BY <1>4 DEF LifecycleInit, LifecycleTypeOK
<1>6. Shape
  BY <1>2 DEF LifecycleInit, Shape
<1>7. NothingLost
  BY <1>2, <1>3 DEF NothingLost
<1> QED
  BY <1>1, <1>5, <1>6, <1>7 DEF LifeInv

\* Types of what the Notifier does not have.
WakeTypes ==
  /\ owes \subseteq Thread
  /\ rows \in 0 .. MaxRows
  /\ due \subseteq 1 .. rows
  /\ later \subseteq 1 .. rows
  /\ pc \in [Worker -> {"top", "claim", "paused", "empty", "waiting", "busy", "stopped"}]
  /\ batch \in [Worker -> SUBSET (1 .. rows)]
  /\ listener \in {"top", "connect", "backoff", "listening", "stopped"}
  /\ notes \in Nat
  /\ shutdown \in BOOLEAN
  /\ faults \in 0 .. MaxFaults
  /\ done \subseteq 1 .. rows
  /\ missed \in BOOLEAN

MainTypes ==
  /\ main \in {"off", "binding", "serving", "closing", "draining"}
  /\ open \subseteq Thread
  /\ starts \in 1 .. MaxStarts

LEMMA TypesSplit ==
  LifecycleTypeOK <=> /\ NotifierTypeOK /\ WakeTypes /\ MainTypes
                      /\ main = "off" => open = {} /\ tasks = 0 /\ Claimed = {}
BY DEF LifecycleTypeOK, TypeOK, WakeTypes, MainTypes

LEMMA EnqueueTypes ==
  ASSUME WakeTypes, NEW p \in Thread, Enqueue(p)
  PROVE  WakeTypes'
<1>1. rows' = rows + 1 /\ rows' \in 0 .. MaxRows /\ 1 .. rows \subseteq 1 .. rows' /\ rows + 1 \in 1 .. rows'
  BY DEF WakeTypes, Enqueue
<1>2. due' \subseteq 1 .. rows' /\ later' \subseteq 1 .. rows' /\ done' \subseteq 1 .. rows'
  BY <1>1 DEF WakeTypes, Enqueue
<1>3. batch' \in [Worker -> SUBSET (1 .. rows')]
  BY <1>1 DEF WakeTypes, Enqueue
<1> QED
  BY <1>1, <1>2, <1>3 DEF WakeTypes, Enqueue, listenVars

LEMMA WorkerTypes ==
  ASSUME WakeTypes, NEW w \in Worker, WorkerStep(w)
  PROVE  WakeTypes'
<1>1. CASE WorkerTop(w) \/ Paused(w) \/ Arm(w) \/ Poll(w)
  BY <1>1 DEF WakeTypes, WorkerStep, WorkerTop, Paused, Arm, Poll, listenVars
<1>2. CASE Claim(w)
  <2>1. faults' \in 0 .. MaxFaults
    BY <1>2 DEF Claim, Fault, WakeTypes
  <2>2. due' \subseteq due /\ batch' \in [Worker -> SUBSET (1 .. rows)]
    BY <1>2 DEF Claim, claim_due_deliveries, WakeTypes
  <2>3. pc' \in [Worker -> {"top", "claim", "paused", "empty", "waiting", "busy", "stopped"}]
    BY <1>2 DEF Claim, WakeTypes
  <2> QED
    BY <1>2, <2>1, <2>2, <2>3 DEF Claim, WorkerStep, WakeTypes, listenVars
<1>3. CASE ProcessNext(w)
  <2>1. faults' \in 0 .. MaxFaults
    BY <1>3 DEF ProcessNext, Fault, WakeTypes
  <2>2. batch' \in [Worker -> SUBSET (1 .. rows)]
    BY <1>3 DEF ProcessNext, WakeTypes
  <2>3. later' \subseteq 1 .. rows /\ done' \subseteq 1 .. rows
    BY <1>3 DEF ProcessNext, WakeTypes
  <2>4. pc' \in [Worker -> {"top", "claim", "paused", "empty", "waiting", "busy", "stopped"}]
    BY <1>3 DEF ProcessNext, WakeTypes
  <2> QED
    BY <1>3, <2>1, <2>2, <2>3, <2>4 DEF ProcessNext, WorkerStep, WakeTypes, listenVars
<1> QED
  BY <1>1, <1>2, <1>3 DEF WorkerStep

LEMMA TaskTypes ==
  ASSUME WakeTypes, TaskStep
  PROVE  WakeTypes'
<1>1. CASE Notify
  <2>1. notes' \in Nat /\ faults' \in 0 .. MaxFaults
    BY <1>1 DEF Notify, Fault, WakeTypes
  <2>2. missed' \in BOOLEAN
    BY <1>1, Zenon DEF Notify, WakeTypes
  <2> QED
    BY <1>1, <2>1, <2>2 DEF Notify, WakeTypes, workerVars
<1>2. CASE Listen
  BY <1>2 DEF WakeTypes, Listen, ListenTop, Connect, Backoff, Recv, ListenStop, Fault
<1>3. CASE ListenError
  BY <1>3 DEF WakeTypes, ListenError, RecvError, Fault
<1>4. CASE Ripen
  BY <1>4 DEF WakeTypes, Ripen, listenVars
<1>5. CASE Time \/ Signal
  BY <1>5 DEF WakeTypes, Time, Signal, workerVars, listenVars
<1> QED
  BY <1>1, <1>2, <1>3, <1>4, <1>5, WorkerTypes DEF TaskStep

LEMMA ExitTypes ==
  ASSUME WakeTypes, Exit, faults' \in 0 .. MaxFaults
  PROVE  WakeTypes' /\ Claimed' = {}
<1>1. Claimed \subseteq 1 .. rows
  BY DEF WakeTypes, Claimed
<1>2. Claimed' = {}
  BY DEF Exit, Claimed
<1> QED
  BY <1>1, <1>2 DEF WakeTypes, Exit

\* Without a process only the database moves.
LEMMA OffStep ==
  ASSUME LifeInv, main = "off", TaskStep
  PROVE  Ripen /\ UNCHANGED lifeVars
<1>1. tasks = 0 /\ listener = "stopped" /\ \A w \in Worker : pc[w] = "stopped"
  BY DEF LifeInv, LifecycleTypeOK, Shape
<1>2. ~Notify
  BY <1>1 DEF Notify, Emit
<1>3. ~Listen /\ ~ListenError
  BY <1>1 DEF Listen, ListenError, ListenTop, Connect, Backoff, Recv, ListenStop, RecvError
<1>4. \A w \in Worker : ~WorkerStep(w)
  BY <1>1 DEF WorkerStep, WorkerTop, Claim, Paused, Arm, Poll, ProcessNext
<1> QED
  BY <1>2, <1>3, <1>4 DEF TaskStep

\* A worker has rows in its batch only while it works on them.
LEMMA IdleWithout ==
  ASSUME WakeTypes, \A w \in Worker : pc[w] # "busy" => batch[w] = {}, TaskStep
  PROVE  \A w \in Worker : pc'[w] # "busy" => batch'[w] = {}
<1>1. ASSUME NEW v \in Worker, WorkerStep(v) PROVE \A w \in Worker : pc'[w] # "busy" => batch'[w] = {}
  BY <1>1 DEF WakeTypes, WorkerStep, WorkerTop, Claim, Paused, Arm, Poll, ProcessNext
<1>2. CASE Listen \/ ListenError
  BY <1>2 DEF WakeTypes, Listen, ListenError, ListenTop, Connect, Backoff, Recv, ListenStop, RecvError
<1>3. CASE Notify \/ Ripen \/ Time \/ Signal
  BY <1>3 DEF Notify, Ripen, Time, Signal, workerVars
<1> QED
  BY <1>1, <1>2, <1>3 DEF TaskStep

LEMMA LifecycleTypesStep ==
  ASSUME LifeInv, [LifecycleNext]_allVars
  PROVE  LifecycleTypeOK' /\ Shape'
<1>0. NotifierTypeOK' /\ WakeTypes /\ MainTypes /\ Shape
  BY NotifierKept, TypesSplit DEF LifeInv, NotifierInv
<1> SUFFICES /\ WakeTypes' /\ MainTypes' /\ Shape'
             /\ main' = "off" => open' = {} /\ tasks' = 0 /\ Claimed' = {}
  BY <1>0 DEF LifecycleTypeOK, TypeOK, WakeTypes, MainTypes
<1>1. main = "off" => open = {} /\ tasks = 0 /\ Claimed = {}
  BY DEF LifeInv, LifecycleTypeOK
<1>2. ASSUME UNCHANGED vars
      PROVE  /\ WakeTypes' /\ Claimed' = Claimed
             /\ UNCHANGED <<tasks, pc, batch, listener>>
  BY <1>0, <1>2 DEF vars, notifierVars, pingVars, workerVars, listenVars, WakeTypes, Claimed
<1>3. ASSUME NEW p \in Thread, Accept(p) \/ Respond(p)
      PROVE  WakeTypes' /\ MainTypes' /\ Shape' /\ main' # "off"
  <2>1. MainTypes' /\ main # "off" /\ main' = main /\ UNCHANGED vars
    BY <1>0, <1>1, <1>3 DEF Accept, Respond, MainTypes
  <2> QED
    BY <1>0, <1>2, <2>1 DEF Shape
<1>4. ASSUME UNCHANGED <<vars, open, starts>>, main' \in {"serving", "closing", "draining"}
      PROVE  WakeTypes' /\ MainTypes' /\ Shape' /\ main' # "off"
  BY <1>0, <1>2, <1>4 DEF MainTypes, Shape
<1>5. CASE UNCHANGED allVars
  BY <1>0, <1>1, <1>2, <1>5 DEF MainTypes, Shape, allVars, lifeVars
<1>6. ASSUME NEW p \in Thread, Handle(p)
      PROVE  WakeTypes' /\ MainTypes' /\ Shape' /\ main' # "off"
  <2>1. main # "off" /\ main' = main /\ MainTypes'
    BY <1>0, <1>1, <1>6 DEF Handle, lifeVars, MainTypes
  <2>2. UNCHANGED <<pc, batch, listener>>
    BY <1>6 DEF Handle, Enqueue, Ping, workerVars, listenVars
  <2>3. CASE Ping(p)
    BY <1>0, <2>1, <2>2, <2>3 DEF Ping, workerVars, listenVars, WakeTypes, Shape
  <2>4. CASE Enqueue(p)
    BY <1>0, <2>1, <2>2, <2>4, EnqueueTypes DEF Shape
  <2> QED
    BY <1>6, <2>3, <2>4 DEF Handle
<1>7. ASSUME TaskStep, main # "off"
      PROVE  WakeTypes' /\ MainTypes' /\ Shape' /\ main' # "off"
  <2>1. main' = main /\ MainTypes'
    BY <1>0, <1>7 DEF TaskStep, lifeVars, MainTypes
  <2> QED
    BY <1>0, <1>7, <2>1, TaskTypes, IdleWithout DEF Shape
<1>8. CASE TaskStep /\ main = "off"
  <2>1. Ripen /\ UNCHANGED lifeVars
    BY <1>8, OffStep
  <2>2. UNCHANGED <<main, open, starts, tasks, pc, batch, listener>>
    BY <2>1 DEF Ripen, lifeVars, listenVars, notifierVars, pingVars
  <2>3. Claimed' = Claimed /\ MainTypes' /\ Shape'
    BY <1>0, <2>2 DEF Claimed, MainTypes, Shape
  <2> QED
    BY <1>0, <1>1, <1>8, <2>2, <2>3, TaskTypes
<1>9. CASE Exit /\ faults' \in 0 .. MaxFaults
  <2>1. WakeTypes' /\ Claimed' = {}
    BY <1>0, <1>9, ExitTypes
  <2>2. MainTypes' /\ open' = {} /\ tasks' = 0
    BY <1>0, <1>9 DEF Exit, ResetNotifier, MainTypes
  <2>3. Shape'
    BY <1>9 DEF Exit, Shape
  <2> QED
    BY <2>1, <2>2, <2>3
<1>10. CASE Start
  <2>1. WakeTypes' /\ batch' = batch /\ main' = "binding"
    BY <1>0, <1>10 DEF Start, WakeTypes
  <2>2. MainTypes'
    BY <1>0, <1>10 DEF Start, MainTypes
  <2>3. \A w \in Worker : batch[w] = {}
    BY <1>1, <1>10 DEF Start, Claimed
  <2> QED
    BY <2>1, <2>2, <2>3 DEF Shape
<1>11. Bind \/ Drain \/ Kill =>
         \/ Exit /\ faults' \in 0 .. MaxFaults
         \/ main' = "serving" /\ UNCHANGED <<vars, open, starts>>
  BY <1>0 DEF Bind, Drain, Kill, Fault, WakeTypes
<1> QED
  BY <1>3, <1>4, <1>5, <1>6, <1>7, <1>8, <1>9, <1>10, <1>11
     DEF LifecycleNext, MainStep, StopAccepting, ApiDone

-----------------------------------------------------------------------------
(* Lifecycle: rows *)

\* NothingLost, row by row.
OnePlace(n, d, l, f, b) ==
  /\ \A r : r \in 1 .. n <=> r \in d \/ r \in l \/ r \in f \/ \E w \in Worker : r \in b[w]
  /\ \A r : /\ r \in d => r \notin l /\ r \notin f
            /\ r \in l => r \notin f
            /\ \A w \in Worker : r \in b[w] => r \notin d /\ r \notin l /\ r \notin f
  /\ \A v, w \in Worker : v # w => \A r : ~(r \in b[v] /\ r \in b[w])

LEMMA RowByRow ==
  ASSUME NEW n, NEW d, NEW l, NEW f, NEW b
  PROVE  LET c == UNION {b[w] : w \in Worker} IN
         (/\ d \cup l \cup c \cup f = 1 .. n
          /\ d \cap l = {} /\ c \cap (d \cup l) = {}
          /\ f \cap (d \cup l \cup c) = {}
          /\ \A v, w \in Worker : v # w => b[v] \cap b[w] = {})
         <=> OnePlace(n, d, l, f, b)
<1> DEFINE c == UNION {b[w] : w \in Worker}
           N == 1 .. n
<1>1. \A r : r \in c <=> \E w \in Worker : r \in b[w]
  OBVIOUS
<1>2. \A v, w \in Worker : b[v] \cap b[w] = {} <=> \A r : ~(r \in b[v] /\ r \in b[w])
  OBVIOUS
<1>3. d \cup l \cup c \cup f = N <=> \A r : r \in N <=> r \in d \/ r \in l \/ r \in f \/ r \in c
  OBVIOUS
<1>4. (d \cap l = {} /\ c \cap (d \cup l) = {} /\ f \cap (d \cup l \cup c) = {})
      <=> \A r : /\ r \in d => r \notin l /\ r \notin f
                 /\ r \in l => r \notin f
                 /\ r \in c => r \notin d /\ r \notin l /\ r \notin f
  OBVIOUS
<1> HIDE DEF c, N
<1> QED
  BY <1>1, <1>2, <1>3, <1>4 DEF OnePlace, N, c

LEMMA EnqueueRows ==
  ASSUME WakeTypes, OnePlace(rows, due, later, done, batch), NEW p \in Thread, Enqueue(p)
  PROVE  OnePlace(rows, due, later, done, batch)'
<1>1. /\ \A r : r \in 1 .. rows' <=> r \in 1 .. rows \/ r = rows + 1
      /\ rows + 1 \notin 1 .. rows
  BY DEF WakeTypes, Enqueue
<1>2. due' = due \cup {rows + 1} /\ UNCHANGED <<later, done, batch>>
  BY DEF Enqueue
<1> QED
  BY <1>1, <1>2 DEF OnePlace

LEMMA ClaimRows ==
  ASSUME WakeTypes, Shape, OnePlace(rows, due, later, done, batch), NEW w \in Worker, Claim(w),
         UNCHANGED rows
  PROVE  OnePlace(rows, due, later, done, batch)'
<1>1. CASE UNCHANGED <<due, batch>>
  BY <1>1 DEF Claim, OnePlace
<1>2. CASE \E S \in SUBSET due : due' = due \ S /\ batch' = [batch EXCEPT ![w] = S]
  <2>1. PICK S \in SUBSET due : due' = due \ S /\ batch' = [batch EXCEPT ![w] = S]
    BY <1>2
  <2>2. batch[w] = {} /\ UNCHANGED <<later, done>>
    BY DEF Claim, Shape
  <2>3. batch'[w] = S /\ \A v \in Worker : v # w => batch'[v] = batch[v]
    BY <2>1 DEF WakeTypes
  <2> QED
    BY <2>1, <2>2, <2>3 DEF OnePlace
<1> QED
  BY <1>1, <1>2 DEF Claim, claim_due_deliveries

LEMMA ProcessRows ==
  ASSUME WakeTypes, OnePlace(rows, due, later, done, batch), NEW w \in Worker, ProcessNext(w),
         UNCHANGED rows
  PROVE  OnePlace(rows, due, later, done, batch)'
<1>1. CASE later' = later \cup batch[w] /\ batch' = [batch EXCEPT ![w] = {}] /\ UNCHANGED <<due, done>>
  <2>1. batch'[w] = {} /\ \A v \in Worker : v # w => batch'[v] = batch[v]
    BY <1>1 DEF WakeTypes
  <2> QED
    BY <1>1, <2>1 DEF OnePlace
<1>2. CASE \E r \in batch[w] : /\ batch' = [batch EXCEPT ![w] = @ \ {r}]
                               /\ \/ done' = done \cup {r} /\ UNCHANGED <<due, later>>
                                  \/ later' = later \cup {r} /\ UNCHANGED <<due, done>>
  <2>1. PICK r \in batch[w] : /\ batch' = [batch EXCEPT ![w] = @ \ {r}]
                              /\ \/ done' = done \cup {r} /\ UNCHANGED <<due, later>>
                                 \/ later' = later \cup {r} /\ UNCHANGED <<due, done>>
    BY <1>2
  <2>2. batch'[w] = batch[w] \ {r} /\ \A v \in Worker : v # w => batch'[v] = batch[v]
    BY <2>1 DEF WakeTypes
  <2> QED
    BY <2>1, <2>2 DEF OnePlace
<1> QED
  BY <1>1, <1>2 DEF ProcessNext

LEMMA ExitRows ==
  ASSUME OnePlace(rows, due, later, done, batch), Exit
  PROVE  OnePlace(rows, due, later, done, batch)'
<1>1. \A r : r \in later' <=> r \in later \/ \E w \in Worker : r \in batch[w]
  BY DEF Exit, Claimed
<1>2. UNCHANGED <<rows, due, done>> /\ \A w \in Worker : batch'[w] = {}
  BY DEF Exit
<1> QED
  BY <1>1, <1>2 DEF OnePlace

LEMMA RowsStep ==
  ASSUME LifeInv, [LifecycleNext]_allVars
  PROVE  NothingLost'
<1>0. WakeTypes /\ Shape /\ OnePlace(rows, due, later, done, batch)
  BY TypesSplit, RowByRow DEF LifeInv, NothingLost, Claimed
<1> SUFFICES OnePlace(rows, due, later, done, batch)'
  BY RowByRow DEF NothingLost, Claimed
<1>1. CASE UNCHANGED <<rows, due, later, done, batch>>
  BY <1>0, <1>1 DEF OnePlace
<1>2. ASSUME NEW p \in Thread, Accept(p) \/ Respond(p) \/ Handle(p)
      PROVE  OnePlace(rows, due, later, done, batch)'
  BY <1>0, <1>1, <1>2, EnqueueRows DEF Accept, Respond, Handle, Ping, vars, workerVars
<1>3. ASSUME NEW w \in Worker, WorkerStep(w) PROVE OnePlace(rows, due, later, done, batch)'
  BY <1>0, <1>1, <1>3, ClaimRows, ProcessRows DEF WorkerStep, WorkerTop, Paused, Arm, Poll
<1>4. CASE Ripen
  <2>1. PICK r \in later : later' = later \ {r} /\ due' = due \cup {r}
    BY <1>4 DEF Ripen
  <2> QED
    BY <1>0, <1>4, <2>1 DEF Ripen, OnePlace
<1>5. CASE Notify \/ Listen \/ ListenError \/ Time \/ Signal
  BY <1>1, <1>5 DEF Notify, Listen, ListenError, ListenTop, Connect, Backoff, Recv, ListenStop,
                    RecvError, Time, Signal, workerVars
<1>6. CASE Exit
  BY <1>0, <1>6, ExitRows
<1>7. CASE UNCHANGED vars
  BY <1>1, <1>7 DEF vars, workerVars
<1>8. CASE Start
  BY <1>1, <1>8 DEF Start
<1> QED
  BY <1>2, <1>3, <1>4, <1>5, <1>6, <1>7, <1>8
     DEF LifecycleNext, TaskStep, MainStep, Bind, StopAccepting, ApiDone, Drain, Kill, allVars

-----------------------------------------------------------------------------
(* Lifecycle: the theorems *)

\* Whatever a process was at when it ended, the next one finds the database and
\* nothing else of it.
THEOREM LifecycleInvariant == LifecycleSpec => []LifeInv
<1>1. LifeInv /\ [LifecycleNext]_allVars => LifeInv'
  BY NotifierKept, LifecycleTypesStep, RowsStep DEF LifeInv
<1> QED
  BY <1>1, InitLifecycle, PTL DEF LifecycleSpec

\* When no process runs, nothing of it is left: no open request, no task that has
\* yet to send a NOTIFY and no worker with rows.
THEOREM LifecycleTyped == LifecycleSpec => []LifecycleTypeOK
<1>1. LifeInv => LifecycleTypeOK
  BY DEF LifeInv
<1> QED
  BY <1>1, LifecycleInvariant, PTL

\* "never lost": a drain that times out, a failed bind and a kill at any moment
\* leave every row in exactly one place, for any number of workers, rows, faults
\* and processes.
THEOREM NoRowIsLost == LifecycleSpec => []NothingLost
<1>1. LifeInv => NothingLost
  BY DEF LifeInv
<1> QED
  BY <1>1, LifecycleInvariant, PTL

\* Around the Notifier the process starts, answers requests, stops and is started
\* again: as long as one goes on, its stamps are a window apart and its silent
\* pings are covered.
THEOREM EachProcessNotifies == LifecycleSpec => [][main' # "off" => Apart /\ Covers]_allVars
<1>1. LifeInv /\ [LifecycleNext]_allVars => [main' # "off" => Apart /\ Covers]_allVars
  BY NotifierPart, ApartStep, CoversStep DEF LifeInv
<1> QED
  BY <1>1, LifecycleInvariant, PTL DEF LifecycleSpec

=============================================================================
