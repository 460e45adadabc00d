----------------------------- MODULE RateLimiter -----------------------------
(***************************************************************************)
(* The token bucket of ratelimit.rs, for one tenant (each has a bucket of  *)
(* its own in the map).  `check' reads the clock and `check_at' takes the  *)
(* mutex, so calls may reach the bucket in another order than they read    *)
(* the clock in.                                                           *)
(*                                                                         *)
(* The f64 amounts are whole numbers here: a token is Unit units, and rps *)
(* units flow in per tick of the clock, TicksPerSec of which are a second. *)
(***************************************************************************)
EXTENDS Integers

CONSTANTS
  Caller,       \* concurrent requests of the tenant
  Unit,         \* units in one token
  Rates,        \* the rps settings, in units per tick; 0 disables the limiter
  TicksPerSec,  \* resolution of the clock
  BurstArg,     \* the configured burst, in units
  MaxTime       \* bound: ticks

ASSUME RateLimiterAssumption ==
  /\ Unit \in Nat \ {0} /\ Rates \subseteq Nat /\ TicksPerSec \in Nat \ {0}
  /\ BurstArg \in Nat /\ MaxTime \in Nat

\* burst.max(1.0)
burst == IF BurstArg < Unit THEN Unit ELSE BurstArg

VARIABLES
  rps,      \* the setting, fixed at start
  now,      \* the clock
  pending,  \* callers between Instant::now() and the mutex
  at,       \* the instant each of them read
  exists,   \* the bucket is in the map
  tokens,   \* its tokens, in units
  last,     \* its `last'
  ordered,  \* history: calls took the mutex in the order of their instants
  granted,  \* history: calls let through that read this instant or a later one
  promise   \* history: the earliest instant promised by a Retry-After since then

vars == <<rps, now, pending, at, exists, tokens, last, ordered, granted, promise>>

Time == 0 .. MaxTime
Never == MaxTime + 1

TypeOK ==
  /\ rps \in Rates
  /\ now \in Time
  /\ pending \subseteq Caller
  /\ at \in [Caller -> Time]
  /\ exists \in BOOLEAN
  /\ tokens \in 0 .. burst
  /\ last \in Time
  /\ ordered \in BOOLEAN
  /\ granted \in [0 .. Never -> Nat]
  /\ promise \in 0 .. Never

Init ==
  /\ rps \in Rates
  /\ now = 0
  /\ pending = {}
  /\ at = [c \in Caller |-> 0]
  /\ exists = FALSE /\ tokens = 0 /\ last = 0
  /\ ordered = TRUE
  /\ granted = [t \in 0 .. Never |-> 0]
  /\ promise = Never

\* check: Instant::now().
ReadClock(c) ==
  /\ c \notin pending
  /\ pending' = pending \cup {c}
  /\ at' = [at EXCEPT ![c] = now]
  /\ UNCHANGED <<rps, now, exists, tokens, last, ordered, granted, promise>>

min(a, b) == IF a < b THEN a ELSE b

\* Mutant: refill without the cap.
refilled_uncapped(t) ==
  IF exists THEN tokens + (IF t > last THEN t - last ELSE 0) * rps ELSE burst

\* Mutant: refill for the time since the start, again on every call.
refilled_since_start(t) == IF exists THEN min(tokens + t * rps, burst) ELSE burst

\* The bucket's tokens for a call that read instant t: a new bucket is full,
\* an old one refills for the (saturating) time since `last'.
refilled(t) ==
  LET elapsed == IF t > last THEN t - last ELSE 0 IN
  IF exists THEN min(tokens + elapsed * rps, burst) ELSE burst

\* Mutant: rounds down.
retry_after_floor(have) ==
  LET secs == (Unit - have) \div (rps * TicksPerSec) IN IF secs < 1 THEN 1 ELSE secs

\* ((1.0 - tokens) / rps).ceil().max(1.0), in seconds.
retry_after(have) ==
  LET perSec == rps * TicksPerSec
      secs == (Unit - have + perSec - 1) \div perSec
  IN IF secs < 1 THEN 1 ELSE secs

\* check_at under the mutex; rps <= 0 lets every call through.
check_at(c) ==
  LET t == at[c]
      have == refilled(t)
  IN
  /\ c \in pending
  /\ pending' = pending \ {c}
  /\ ordered' = (ordered /\ (exists => t >= last))
  /\ \/ rps = 0 /\ UNCHANGED <<exists, tokens, last, granted, promise>>
     \/ /\ rps > 0 /\ have >= Unit
        /\ tokens' = have - Unit
        /\ granted' = [s \in 0 .. Never |-> IF s <= t THEN granted[s] + 1 ELSE granted[s]]
        /\ promise' = Never
        /\ exists' = TRUE /\ last' = t
     \/ /\ rps > 0 /\ have < Unit
        /\ tokens' = have
        /\ promise' = min(promise, t + retry_after(have) * TicksPerSec)
        /\ exists' = TRUE /\ last' = t
        /\ UNCHANGED granted
  /\ UNCHANGED <<rps, now, at>>

Tick ==
  /\ now < MaxTime
  /\ now' = now + 1
  /\ UNCHANGED <<rps, pending, at, exists, tokens, last, ordered, granted, promise>>

Next ==
  \/ \E c \in Caller : ReadClock(c) \/ check_at(c)
  \/ Tick

Spec == Init /\ [][Next]_vars

-----------------------------------------------------------------------------
(* Properties *)

GrantedIn(s, e) == granted[s] - granted[e + 1]

\* Of the calls in any stretch of time, no more were let through than a full
\* bucket and what flows in meanwhile pay for.
WithinRate ==
  \A s, e \in Time : s <= e => GrantedIn(s, e) * Unit <= burst + rps * (e - s)

\* "`rps` tokens/sec refill, up to `burst` capacity": the bucket bounds the rate,
\* as long as calls take the mutex in the order in which they read the clock.
\* (A call that takes it late moves `last' back, and the time in between is
\* refilled again.)
RateBound == ordered => WithinRate

\* Retry-After is honest: once a caller has been told to come back after some
\* seconds, the first call that comes then is let through, unless another one
\* took the token in between.  It holds whatever order calls take the mutex in.
PromiseKept ==
  [][\A c \in Caller :
       c \in pending /\ c \notin pending' /\ at[c] >= promise => granted' # granted]_vars

=============================================================================
