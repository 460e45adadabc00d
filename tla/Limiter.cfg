\* Two concurrent callers, a full bucket of two tokens, the limiter off or on.
SPECIFICATION Spec
CONSTANTS
  Caller = {c1, c2}
  Unit = 4
  Rates = {0, 1, 3}
  TicksPerSec = 2
  BurstArg = 8
  MaxTime = 6
INVARIANTS
  TypeOK
  RateBound
PROPERTY
  PromiseKept
