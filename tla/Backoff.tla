------------------------------- MODULE Backoff -------------------------------
(***************************************************************************)
(* Package backoff: the delay before a failed job may run again, in ticks  *)
(* of the model clock.  Durations are int64 nanoseconds in the code; here  *)
(* they are integers of the range -MaxDuration-1 .. MaxDuration.           *)
(***************************************************************************)
EXTENDS Integers

CONSTANTS
    MaxDuration,   \* the largest time.Duration
    OutOfRange     \* what converting a float64 beyond int64 yields: the Go
                   \* specification leaves it to the build (amd64 gives the
                   \* smallest int64, arm64 saturates at the largest)

ASSUME BackoffAssumption ==
    /\ MaxDuration \in Nat \ {0}
    /\ OutOfRange \in {-MaxDuration - 1, MaxDuration}

\* int64 arithmetic wraps around.
WrapDuration(d) ==
    ((d + MaxDuration + 1) % (2 * (MaxDuration + 1))) - (MaxDuration + 1)

\* time.Duration(float64(base) * math.Pow(2, attempt))
GrowByPowersOfTwo(attempt, base) ==
    LET exact == base * 2^attempt
    IN  IF exact <= MaxDuration THEN exact ELSE OutOfRange

\* The three kinds of Strategy.  New makes no Exponential of a factor other than 2.
Strategy ==
    [kind : {"constant"}, interval : Nat]
      \cup [kind : {"linear"}, step : Nat]
      \cup [kind : {"exponential"}, max : Nat]

Constant(interval) == [kind |-> "constant", interval |-> interval]
Linear(step) == [kind |-> "linear", step |-> step]
Exponential(max) == [kind |-> "exponential", max |-> max]

New(kind, base) ==
    CASE kind = "constant" -> Constant(base)
      [] kind = "linear"   -> Linear(base \div 2)
      [] OTHER             -> Exponential(16 * base)

\* Strategy.Next, before the n-th retry; a negative attempt counts as the first.
NextDelay(strategy, attempt, base) ==
    LET n == IF attempt < 0 THEN 0 ELSE attempt
        grown == GrowByPowersOfTwo(n, base)
    IN  CASE strategy.kind = "constant" ->
               IF strategy.interval > 0 THEN strategy.interval ELSE base
          [] strategy.kind = "linear" -> WrapDuration(base + n * strategy.step)
          [] strategy.kind = "exponential" ->
               IF strategy.max > 0 /\ grown > strategy.max THEN strategy.max ELSE grown

Clamp(d, min, max) ==
    IF d < min THEN min
    ELSE IF max > 0 /\ d > max THEN max ELSE d

Window(strategy, attempt, base, max) ==
    Clamp(NextDelay(strategy, attempt, base), base, max)
=============================================================================
