------------------------------ MODULE Backoff ------------------------------
(***************************************************************************)
(* Exponential.Duration of backoff.go: the delay after the given attempt,  *)
(* doubled in signed integers of a fixed width until it reaches the        *)
(* maximum.  A strategy b is a record of its fields initial and max.       *)
(***************************************************************************)
EXTENDS Integers

CONSTANTS
  Limit,      \* durations are -Limit..Limit-1; 2^63 in Go
  Default     \* the 100 ms that replace a value that is not positive

ASSUME WidthAssumption == Limit \in Nat \ {0} /\ Default \in 1..(Limit - 1)

\* Two's complement.
Wrap(x) == ((x + Limit) % (2 * Limit)) - Limit

Clamp(b, value) ==
  LET positive == IF value <= 0 THEN Default ELSE value
  IN IF b.max > 0 /\ positive > b.max THEN b.max ELSE positive

\* The variable `delay` before the i-th iteration of the loop.
Doubled(b, n) ==
  LET delay[i \in 1..n] == IF i = 1 THEN b.initial ELSE Wrap(2 * delay[i - 1]) IN delay

\* Mutant: the delay is capped only when the loop has ended.
DurationUncapped(b, attempt) ==
  IF attempt <= 1 THEN Clamp(b, b.initial) ELSE Clamp(b, Doubled(b, attempt)[attempt])

\* The loop returns the maximum as soon as a doubled delay reaches it.
Duration(b, attempt) ==
  IF attempt <= 1 THEN Clamp(b, b.initial)
  ELSE LET delay == Doubled(b, attempt)
       IN IF \E i \in 2..attempt : delay[i] >= b.max THEN Clamp(b, b.max)
          ELSE Clamp(b, delay[attempt])

-----------------------------------------------------------------------------
\* 2^n, by recursion, for the proofs.
Power(n) ==
  LET power[i \in 0..n] == IF i = 0 THEN 1 ELSE 2 * power[i - 1] IN power[n]

\* The delay that the comments of the code promise ("exponentially increasing delays
\* bounded by Max"), in unbounded integers.
Exponential(b, attempt) ==
  LET exponential == b.initial * Power(attempt - 1)
  IN IF exponential < b.max THEN exponential ELSE b.max
=============================================================================
