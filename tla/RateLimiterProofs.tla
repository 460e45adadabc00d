-------------------------- MODULE RateLimiterProofs --------------------------
(***************************************************************************)
(* The bucket bounds the rate, and Retry-After is honest in whatever order *)
(* callers take the mutex, for every rate, burst, resolution of the clock  *)
(* and number of callers.                                                  *)
(***************************************************************************)
EXTENDS RateLimiter, TLAPS

USE ZenonT(5), SMTT(20), ZenonT(30), SMTT(60), RateLimiterAssumption

\* By the promised instant a token will have flowed in, if nobody takes one.
Promised ==
  promise # Never =>
    /\ rps > 0 /\ exists /\ last < promise
    /\ tokens + (promise - last) * rps >= Unit

PromiseInv == TypeOK /\ Promised

\* The action of PromiseKept.
Keeps ==
  \A c \in Caller : c \in pending /\ c \notin pending' /\ at[c] >= promise => granted' # granted

-----------------------------------------------------------------------------
(* Arithmetic *)

\* Rounding up covers the whole amount.
LEMMA Ceiling ==
  ASSUME NEW a \in Nat, NEW b \in Nat \ {0}
  PROVE  /\ (a + b - 1) \div b \in Int
         /\ ((a + b - 1) \div b) * b >= a
  <1> DEFINE n == a + b - 1
             q == n \div b
  <1>1. n \in Nat
    OBVIOUS
  <1> HIDE DEF n
  <1>2. q \in Int /\ b * q + b > n
    BY <1>1
  <1>3. b * q = q * b
    BY <1>2
  <1> HIDE DEF q
  <1> QED BY <1>2, <1>3 DEF n, q

LEMMA Distributes ==
  ASSUME NEW a \in Int, NEW b \in Int, NEW r \in Int
  PROVE  (a + b) * r = a * r + b * r
  OBVIOUS

LEMMA Grows ==
  ASSUME NEW a \in Int, NEW b \in Int, NEW r \in Nat, a <= b
  PROVE  a * r \in Int /\ b * r \in Int /\ a * r <= b * r
  OBVIOUS

LEMMA NatProduct ==
  ASSUME NEW a \in Nat, NEW b \in Nat
  PROVE  a * b \in Nat
  OBVIOUS

LEMMA Positive ==
  ASSUME NEW a \in Nat \ {0}, NEW b \in Nat \ {0}
  PROVE  a * b \in Nat \ {0} /\ a * b >= b
  OBVIOUS

LEMMA Regroup ==
  ASSUME NEW a \in Nat, NEW b \in Nat, NEW c \in Nat
  PROVE  (a * c) * b = a * (b * c)
  OBVIOUS

LEMMA BurstCovers == burst \in Nat /\ burst >= Unit
  BY DEF burst

-----------------------------------------------------------------------------
(* The helpers of check_at *)

LEMMA RefilledType ==
  ASSUME TypeOK, NEW t \in Time
  PROVE  refilled(t) \in 0 .. burst
  <1> DEFINE elapsed == IF t > last THEN t - last ELSE 0
  <1>1. elapsed \in Nat /\ rps \in Nat /\ tokens \in Nat
    BY BurstCovers DEF TypeOK, Time
  <1>2. elapsed * rps \in Nat
    BY <1>1, NatProduct
  <1> QED BY <1>1, <1>2, BurstCovers DEF refilled, min

\* Waiting that long brings the tokens to one, and is not no time.
LEMMA RetryAfterSuffices ==
  ASSUME rps \in Nat \ {0}, NEW have \in Nat, have < Unit
  PROVE  /\ retry_after(have) \in Nat \ {0}
         /\ have + (retry_after(have) * TicksPerSec) * rps >= Unit
  <1> DEFINE perSec == rps * TicksPerSec
             need == Unit - have
             secs == (need + perSec - 1) \div perSec
             ra == retry_after(have)
  <1>1. perSec \in Nat \ {0}
    BY Positive
  <1>2. need \in Nat /\ need > 0
    OBVIOUS
  <1>3. secs \in Int /\ secs * perSec >= need
    <2> HIDE DEF perSec, need
    <2> QED BY <1>1, <1>2, Ceiling
  <1>4. ra = IF secs < 1 THEN 1 ELSE secs
    BY DEF retry_after
  <1> HIDE DEF secs
  <1>5. ra \in Nat \ {0} /\ secs <= ra
    BY <1>3, <1>4
  <1> HIDE DEF ra
  <1>6. secs * perSec <= ra * perSec
    <2> HIDE DEF perSec
    <2> QED BY <1>1, <1>3, <1>5, Grows
  <1>7. (ra * TicksPerSec) * rps = ra * perSec
    BY <1>5, Regroup
  <1>8. ra * perSec \in Int /\ secs * perSec \in Int
    <2> HIDE DEF perSec
    <2> QED BY <1>1, <1>3, <1>5, Grows
  <1>9. have + ra * perSec >= Unit
    <2> HIDE DEF perSec
    <2> QED BY <1>2, <1>3, <1>6, <1>8
  <1> QED BY <1>5, <1>7, <1>9 DEF ra

-----------------------------------------------------------------------------
(* check_at *)

\* A call that comes when promised, or later, finds a token.
LEMMA PromisedIsGranted ==
  ASSUME PromiseInv, NEW t \in Time, t >= promise
  PROVE  rps > 0 /\ refilled(t) >= Unit
  <1>1. promise # Never /\ t > last /\ exists /\ rps > 0
    BY DEF PromiseInv, TypeOK, Promised, Time, Never
  <1>2. promise \in Nat /\ last \in Nat /\ rps \in Nat /\ tokens \in Nat /\ t \in Nat
    BY BurstCovers DEF PromiseInv, TypeOK, Time, Never
  <1>3. (promise - last) * rps <= (t - last) * rps /\ (t - last) * rps \in Int
    BY <1>2, Grows
  <1>4. (promise - last) * rps \in Int
    BY <1>2, Grows
  <1>5. tokens + (promise - last) * rps >= Unit
    BY <1>1 DEF PromiseInv, Promised
  <1>6. tokens + (t - last) * rps >= Unit
    BY <1>2, <1>3, <1>4, <1>5
  <1> QED BY <1>1, <1>6, BurstCovers DEF refilled, min

\* A call that is refused leaves the promise as good as it was.
LEMMA RefusalKeeps ==
  ASSUME PromiseInv, NEW t \in Time, refilled(t) < Unit, promise # Never
  PROVE  t < promise /\ refilled(t) + (promise - t) * rps >= Unit
  <1>1. /\ promise \in Nat /\ last \in Nat /\ rps \in Nat /\ tokens \in Nat /\ t \in Nat
        /\ exists /\ tokens + (promise - last) * rps >= Unit
    BY BurstCovers DEF PromiseInv, TypeOK, Time, Never, Promised
  <1>2. t < promise
    BY <1>1, PromisedIsGranted, RefilledType, BurstCovers DEF PromiseInv
  <1>3. CASE t > last
    <2>1. (t - last) * rps \in Int /\ (promise - t) * rps \in Int
      BY <1>1, Grows
    <2>2. refilled(t) = tokens + (t - last) * rps
      BY <1>1, <1>3, <2>1, BurstCovers DEF refilled, min
    <2>3. (promise - last) * rps = (t - last) * rps + (promise - t) * rps
      <3>1. promise - last = (t - last) + (promise - t)
        BY <1>1
      <3> QED BY <1>1, <3>1, Distributes
    <2> QED BY <1>1, <1>2, <2>1, <2>2, <2>3
  <1>4. CASE ~(t > last)
    <2>1. refilled(t) = tokens
      BY <1>1, <1>4, BurstCovers DEF refilled, min, PromiseInv, TypeOK
    <2>2. /\ (promise - last) * rps <= (promise - t) * rps
          /\ (promise - last) * rps \in Int /\ (promise - t) * rps \in Int
      BY <1>1, <1>4, Grows
    <2> QED BY <1>1, <1>2, <2>1, <2>2
  <1> QED BY <1>3, <1>4

LEMMA CheckStep ==
  ASSUME PromiseInv, NEW c \in Caller, check_at(c)
  PROVE  PromiseInv' /\ (at[c] >= promise => granted' # granted)
  <1> DEFINE t == at[c]
             have == refilled(t)
  <1>1. t \in Time /\ have \in 0 .. burst /\ rps \in Nat
    BY RefilledType DEF PromiseInv, TypeOK
  <1>2. /\ pending' \subseteq Caller /\ ordered' \in BOOLEAN
        /\ UNCHANGED <<rps, now, at>>
    BY DEF check_at, PromiseInv, TypeOK
  <1>3. CASE rps = 0 /\ UNCHANGED <<exists, tokens, last, granted, promise>>
    <2>1. PromiseInv'
      BY <1>2, <1>3 DEF PromiseInv, TypeOK, Promised
    <2>2. ~(t >= promise)
      BY <1>1, <1>3, PromisedIsGranted
    <2> QED BY <2>1, <2>2
  <1>4. CASE /\ rps > 0 /\ have >= Unit
             /\ tokens' = have - Unit
             /\ granted' = [s \in 0 .. Never |-> IF s <= t THEN granted[s] + 1 ELSE granted[s]]
             /\ promise' = Never
             /\ exists' = TRUE /\ last' = t
    <2>1. tokens' \in 0 .. burst
      BY <1>1, <1>4, BurstCovers
    <2>2. granted' \in [0 .. Never -> Nat] /\ granted'[t] # granted[t]
      BY <1>1, <1>4 DEF PromiseInv, TypeOK, Time, Never
    <2>3. promise' \in 0 .. Never
      BY <1>4 DEF Never
    <2>4. PromiseInv'
      BY <1>1, <1>2, <1>4, <2>1, <2>2, <2>3 DEF PromiseInv, TypeOK, Promised
    <2> QED BY <2>2, <2>4
  <1>5. CASE /\ rps > 0 /\ have < Unit
             /\ tokens' = have
             /\ promise' = min(promise, t + retry_after(have) * TicksPerSec)
             /\ exists' = TRUE /\ last' = t
             /\ UNCHANGED granted
    <2> DEFINE wait == retry_after(have) * TicksPerSec
    <2>1. ~(t >= promise)
      BY <1>1, <1>5, PromisedIsGranted, BurstCovers
    <2>2. retry_after(have) \in Nat \ {0} /\ have + wait * rps >= Unit
      BY <1>1, <1>5, RetryAfterSuffices, BurstCovers
    <2>3. wait \in Nat \ {0}
      BY <2>2, Positive
    <2>4. promise \in 0 .. Never /\ t \in Nat /\ Never \in Nat
      BY <1>1 DEF PromiseInv, TypeOK, Time, Never
    <2>5. promise' \in 0 .. Never /\ promise' \in {promise, t + wait}
      <3> HIDE DEF wait
      <3> QED BY <1>5, <2>3, <2>4 DEF min, wait
    <2>6. promise' # Never => last' < promise' /\ tokens' + (promise' - last') * rps' >= Unit
      <3>1. CASE promise' = promise
        BY <1>1, <1>2, <1>5, <3>1, RefusalKeeps
      <3>2. CASE promise' = t + wait
        <4>1. promise' - last' = wait
          <5> HIDE DEF wait
          <5> QED BY <1>5, <2>3, <2>4, <3>2
        <4> QED BY <1>2, <1>5, <2>2, <2>3, <2>4, <3>2, <4>1
      <3> QED BY <2>5, <3>1, <3>2
    <2>7. PromiseInv'
      BY <1>1, <1>2, <1>5, <2>5, <2>6 DEF PromiseInv, TypeOK, Promised
    <2> QED BY <2>1, <2>7
  <1> QED BY <1>3, <1>4, <1>5 DEF check_at

-----------------------------------------------------------------------------
(* The rate *)

\* What was let through since an instant is paid for by a full bucket then and by
\* what has flowed in up to `last', with what the bucket still holds to spare.
\* No call has been let through for an instant after `last'.
Paid ==
  /\ \A s \in 0 .. Never : (exists => s > last) => granted[s] = 0
  /\ exists => \A s \in 0 .. last : granted[s] * Unit + tokens <= burst + rps * (last - s)

RateInv == ordered => Paid /\ WithinRate

\* For a call that takes the mutex in order, that goes for the instant it read
\* and the tokens it finds.
LEMMA PaidAt ==
  ASSUME TypeOK, Paid, NEW t \in Time, exists => t >= last, NEW s \in 0 .. t
  PROVE  granted[s] * Unit + refilled(t) <= burst + rps * (t - s)
  <1>1. /\ rps \in Nat /\ tokens \in Nat /\ t \in Nat /\ s \in Nat /\ last \in Nat /\ Unit \in Nat
        /\ s \in 0 .. Never /\ granted[s] \in Nat
    BY BurstCovers DEF TypeOK, Time, Never
  <1>2. refilled(t) \in Nat /\ refilled(t) <= burst /\ burst \in Nat
    BY RefilledType, BurstCovers
  <1>3. granted[s] * Unit \in Nat /\ rps * (t - s) \in Nat
    <2>1. t - s \in Nat
      BY <1>1
    <2> QED BY <1>1, <2>1, NatProduct
  <1>4. CASE exists /\ s <= last
    <2>1. granted[s] * Unit + tokens <= burst + rps * (last - s)
      BY <1>1, <1>4 DEF Paid
    <2>2. t - last \in Nat /\ last - s \in Nat
      BY <1>1, <1>4
    <2>3. (t - last) * rps \in Nat /\ rps * (last - s) \in Nat
      BY <1>1, <2>2, NatProduct
    <2>4. refilled(t) <= tokens + (t - last) * rps
      <3>1. CASE t > last
        BY <1>1, <1>4, <2>3, <3>1, BurstCovers DEF refilled, min
      <3>2. CASE ~(t > last)
        <4>1. refilled(t) = tokens
          BY <1>1, <1>4, <3>2, BurstCovers DEF refilled, min, TypeOK
        <4> QED BY <1>1, <2>3, <4>1
      <3> QED BY <3>1, <3>2
    <2>5. rps * (t - s) = (t - last) * rps + rps * (last - s)
      <3>1. t - s = (t - last) + (last - s)
        BY <1>1
      <3>2. (t - s) * rps = (t - last) * rps + (last - s) * rps
        BY <1>1, <3>1, Distributes
      <3> QED BY <1>1, <3>2
    <2> QED BY <1>1, <1>2, <1>3, <2>1, <2>3, <2>4, <2>5
  <1>5. CASE ~(exists /\ s <= last)
    <2>1. granted[s] = 0
      BY <1>1, <1>5 DEF Paid
    <2> QED BY <1>1, <1>2, <1>3, <2>1
  <1> QED BY <1>4, <1>5

\* A refused call spends nothing.
LEMMA RefusedRate ==
  ASSUME TypeOK, Paid, WithinRate, NEW t \in Time, exists => t >= last,
         tokens' = refilled(t), exists' = TRUE, last' = t, UNCHANGED <<rps, granted>>
  PROVE  (Paid /\ WithinRate)'
  <1>1. WithinRate'
    BY DEF WithinRate, GrantedIn
  <1>2. \A s \in 0 .. Never : s > t => granted[s] = 0
    BY DEF Paid, TypeOK, Time, Never
  <1>3. \A s \in 0 .. t : granted[s] * Unit + refilled(t) <= burst + rps * (t - s)
    BY PaidAt
  <1> QED BY <1>1, <1>2, <1>3 DEF Paid

\* A call that is let through spends one token in each stretch that holds its
\* instant.
LEMMA GrantedRate ==
  ASSUME TypeOK, Paid, WithinRate, NEW t \in Time, exists => t >= last, refilled(t) >= Unit,
         tokens' = refilled(t) - Unit, exists' = TRUE, last' = t, UNCHANGED rps,
         granted' = [s \in 0 .. Never |-> IF s <= t THEN granted[s] + 1 ELSE granted[s]]
  PROVE  (Paid /\ WithinRate)'
  <1> DEFINE have == refilled(t)
  <1>1. have \in Nat /\ burst \in Nat /\ Unit \in Nat /\ rps \in Nat /\ t \in Nat
    BY RefilledType, BurstCovers DEF TypeOK, Time
  <1>2. \A s \in 0 .. Never : s > t => granted'[s] = 0
    BY DEF Paid, TypeOK, Time, Never
  <1>3. ASSUME NEW s \in 0 .. t
        PROVE  /\ granted'[s] \in Nat /\ granted'[s] * Unit \in Nat /\ rps * (t - s) \in Nat
               /\ granted'[s] * Unit + tokens' <= burst + rps * (t - s)
    <2>1. s \in 0 .. Never /\ granted'[s] = granted[s] + 1 /\ granted[s] \in Nat
      BY <1>3 DEF TypeOK, Time, Never
    <2>2. (granted[s] + 1) * Unit = granted[s] * Unit + 1 * Unit
      BY <1>1, <2>1, Distributes
    <2>3. granted[s] * Unit + have <= burst + rps * (t - s)
      BY PaidAt
    <2>4. granted[s] * Unit \in Nat /\ rps * (t - s) \in Nat
      <3>1. t - s \in Nat
        BY <1>1
      <3> QED BY <1>1, <2>1, <3>1, NatProduct
    <2> HIDE DEF have
    <2> QED BY <1>1, <2>1, <2>2, <2>3, <2>4 DEF have
  <1>4. Paid'
    BY <1>2, <1>3 DEF Paid
  <1>5. ASSUME NEW s \in Time, NEW e \in Time, s <= e
        PROVE  (granted'[s] - granted'[e + 1]) * Unit <= burst + rps * (e - s)
    <2>1. s \in Nat /\ e \in Nat /\ s \in 0 .. Never /\ e + 1 \in 0 .. Never
      BY DEF Time, Never
    <2>2. e - s \in Nat /\ rps * (e - s) \in Nat
      <3>1. e - s \in Nat
        BY <1>5, <2>1
      <3> QED BY <1>1, <3>1, NatProduct
    <2>3. CASE e < t
      <3>1. /\ granted'[s] = granted[s] + 1 /\ granted'[e + 1] = granted[e + 1] + 1
            /\ granted[s] \in Nat /\ granted[e + 1] \in Nat
        BY <1>1, <1>5, <2>1, <2>3 DEF TypeOK
      <3>2. granted'[s] - granted'[e + 1] = granted[s] - granted[e + 1]
        BY <3>1
      <3> QED BY <1>5, <3>2 DEF WithinRate, GrantedIn
    <2>4. CASE e >= t /\ s <= t
      <3>1. granted'[e + 1] = 0
        BY <1>1, <1>2, <2>1, <2>4
      <3>2. s \in 0 .. t
        BY <1>1, <2>1, <2>4
      <3>3. rps * (t - s) <= rps * (e - s)
        BY <1>1, <2>1, <2>4, Grows
      <3>4. /\ granted'[s] \in Nat /\ granted'[s] * Unit \in Nat /\ rps * (t - s) \in Nat
            /\ granted'[s] * Unit + tokens' <= burst + rps * (t - s)
        BY <1>3, <3>2
      <3>5. tokens' \in Nat
        <4> HIDE DEF have
        <4> QED BY <1>1 DEF have
      <3>6. granted'[s] - granted'[e + 1] = granted'[s]
        BY <3>1, <3>4
      <3>7. granted'[s] * Unit <= burst + rps * (e - s)
        BY <1>1, <2>2, <3>3, <3>4, <3>5
      <3> QED BY <3>6, <3>7
    <2>5. CASE s > t
      <3>1. granted'[e + 1] = 0 /\ granted'[s] = 0
        BY <1>1, <1>2, <1>5, <2>1, <2>5
      <3> QED BY <1>1, <2>2, <3>1
    <2> QED BY <1>1, <2>1, <2>3, <2>4, <2>5
  <1>6. WithinRate'
    BY <1>5 DEF WithinRate, GrantedIn
  <1> QED BY <1>4, <1>6

LEMMA RateStep ==
  ASSUME TypeOK, RateInv, [Next]_vars
  PROVE  RateInv'
  <1>1. ASSUME NEW c \in Caller, check_at(c) PROVE RateInv'
    <2> SUFFICES ASSUME ordered' PROVE (Paid /\ WithinRate)'
      BY DEF RateInv
    <2> DEFINE t == at[c]
    <2>1. /\ t \in Time /\ ordered /\ (exists => t >= last) /\ UNCHANGED rps
          /\ Paid /\ WithinRate
      BY <1>1 DEF check_at, TypeOK, RateInv
    <2>2. CASE UNCHANGED <<exists, tokens, last, granted>>
      BY <2>1, <2>2 DEF Paid, WithinRate, GrantedIn
    <2>3. CASE refilled(t) < Unit /\ tokens' = refilled(t) /\ exists' = TRUE /\ last' = t
               /\ UNCHANGED granted
      <3> HIDE DEF t
      <3> QED BY <2>1, <2>3, RefusedRate
    <2>4. CASE /\ refilled(t) >= Unit /\ tokens' = refilled(t) - Unit
               /\ granted' = [s \in 0 .. Never |-> IF s <= t THEN granted[s] + 1 ELSE granted[s]]
               /\ exists' = TRUE /\ last' = t
      <3> HIDE DEF t
      <3> QED BY <2>1, <2>4, GrantedRate
    <2> QED BY <1>1, <2>2, <2>3, <2>4 DEF check_at
  <1>2. CASE UNCHANGED <<rps, exists, tokens, last, ordered, granted>>
    BY <1>2 DEF RateInv, Paid, WithinRate, GrantedIn
  <1> QED BY <1>1, <1>2 DEF Next, ReadClock, Tick, vars

-----------------------------------------------------------------------------
(* The theorems *)

LEMMA LimiterInit == Init => PromiseInv
  <1> SUFFICES ASSUME Init PROVE PromiseInv
    OBVIOUS
  <1>1. 0 \in Time /\ 0 \in 0 .. burst /\ Never \in 0 .. Never
    BY BurstCovers DEF Time, Never
  <1>2. at \in [Caller -> Time] /\ granted \in [0 .. Never -> Nat]
    BY <1>1 DEF Init
  <1>3. TypeOK
    BY <1>1, <1>2 DEF Init, TypeOK
  <1> QED BY <1>3 DEF Init, PromiseInv, Promised

LEMMA LimiterStep ==
  ASSUME PromiseInv, [Next]_vars
  PROVE  PromiseInv' /\ Keeps
  <1>1. ASSUME NEW c \in Caller, ReadClock(c) PROVE PromiseInv' /\ Keeps
    BY <1>1 DEF ReadClock, PromiseInv, TypeOK, Promised, Keeps
  <1>2. ASSUME NEW c \in Caller, check_at(c) PROVE PromiseInv' /\ Keeps
    <2>1. PromiseInv' /\ (at[c] >= promise => granted' # granted)
      BY <1>2, CheckStep
    <2>2. pending' = pending \ {c}
      BY <1>2 DEF check_at
    <2> QED BY <2>1, <2>2 DEF Keeps
  <1>3. CASE Tick
    BY <1>3 DEF Tick, PromiseInv, TypeOK, Promised, Keeps, Time
  <1>4. CASE UNCHANGED vars
    BY <1>4 DEF vars, PromiseInv, TypeOK, Promised, Keeps
  <1> QED BY <1>1, <1>2, <1>3, <1>4 DEF Next

LEMMA LimiterInvariant == Spec => []PromiseInv
  BY LimiterInit, LimiterStep, PTL DEF Spec

\* The bucket never owes a token and never holds more than a burst.
THEOREM LimiterTyped == Spec => []TypeOK
  <1>1. PromiseInv => TypeOK
    BY DEF PromiseInv
  <1> QED BY <1>1, LimiterInvariant, PTL

\* Whoever comes back after Retry-After is let through, unless another call
\* took the token.
THEOREM RetryAfterIsKept == Spec => PromiseKept
  <1>1. PromiseInv /\ [Next]_vars => [Keeps]_vars
    BY LimiterStep
  <1> QED BY <1>1, LimiterInvariant, PTL DEF Spec, PromiseKept, Keeps

LEMMA RateInit == Init => RateInv
  <1> SUFFICES ASSUME Init PROVE Paid /\ WithinRate
    BY DEF RateInv
  <1>1. Paid
    BY DEF Init, Paid
  <1>2. ASSUME NEW s \in Time, NEW e \in Time, s <= e
        PROVE  (granted[s] - granted[e + 1]) * Unit <= burst + rps * (e - s)
    <2>1. granted[s] = 0 /\ granted[e + 1] = 0
      BY DEF Init, Time, Never
    <2>2. rps \in Nat /\ e - s \in Nat
      BY <1>2 DEF Init, Time
    <2>3. rps * (e - s) \in Nat
      BY <2>2, NatProduct
    <2> QED BY <2>1, <2>3, BurstCovers
  <1> QED BY <1>1, <1>2 DEF WithinRate, GrantedIn

\* "rps tokens/sec refill, up to burst capacity": in no stretch of time are more
\* calls let through than a full bucket and the refill pay for, while calls take
\* the mutex in the order in which they read the clock.
THEOREM RateIsBounded == Spec => []RateBound
  <1>1. RateInv => RateBound
    BY DEF RateInv, RateBound
  <1> QED BY <1>1, RateInit, RateStep, LimiterTyped, PTL DEF Spec

=============================================================================
