-------------------------------- MODULE Retry --------------------------------
(***************************************************************************)
(* Retry scheduling of dropless-core/src/retry.rs: exponential backoff     *)
(* with full jitter, in a machine word that saturates.                     *)
(***************************************************************************)
EXTENDS Integers

CONSTANTS
  BaseDelay,     \* RetryPolicy.base (2 s)
  MaxDelay,      \* RetryPolicy.max_delay (3600 s)
  MaxAttempts,   \* RetryPolicy.max_attempts (16)
  MaxShift,      \* the exponent's clamp (30)
  MaxWord        \* u64::MAX, the largest value of the word

ASSUME RetryAssumption ==
  /\ BaseDelay \in Nat
  /\ MaxDelay \in Nat
  /\ MaxAttempts \in Nat \ {0}
  /\ MaxShift \in Nat
  /\ MaxWord \in Nat \ {0}

\* Mutant: the budget is one attempt short.
is_exhausted_early(attempts) == attempts + 1 >= MaxAttempts

is_exhausted(attempts) == attempts >= MaxAttempts

Least(a, b) == IF a <= b THEN a ELSE b

Clamp(n, lo, hi) == IF n < lo THEN lo ELSE IF n > hi THEN hi ELSE n

SaturatingMul(a, b) == Least(a * b, MaxWord)

\* attempt is 1-based: BaseDelay doubles with every attempt after the first.
ceiling(attempt) ==
  Least(SaturatingMul(BaseDelay, 2 ^ Clamp(attempt - 1, 0, MaxShift)), MaxDelay)

\* Mutant: jitter on both sides of zero.
backoff_both_sides(attempt) == -ceiling(attempt) .. ceiling(attempt)

\* Full jitter: any delay up to the ceiling.
backoff(attempt) == 0 .. ceiling(attempt)

=============================================================================
