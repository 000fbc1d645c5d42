------------------------------- MODULE Backoff -------------------------------
(***************************************************************************)
(* The backoff strategies of retry/backoff.ts.  One strategy object serves *)
(* every execution of its policy; only the decorrelated one keeps state.   *)
(*                                                                         *)
(* Delays are whole milliseconds, the multiplier is a whole number, and    *)
(* Math.random() is any choice.  previous is previousDelay rounded down:   *)
(* its fraction is covered by the +2 of the largest decorrelated delay.    *)
(***************************************************************************)
EXTENDS Naturals

CONSTANTS InitialDelay, MaxDelay, Multiplier

ASSUME BackoffAssumption ==
    InitialDelay \in Nat /\ MaxDelay \in Nat

VARIABLES
    strategy,  \* the policy's strategy, never changed
    previous   \* previousDelay, shared by all executions of the policy

backoffVars == <<strategy, previous>>

Strategies == {"constant", "exponential", "full", "equal", "decorrelated"}

BackoffInit == strategy \in Strategies /\ previous = InitialDelay
-----------------------------------------------------------------------------
Lesser(a, b) == IF a < b THEN a ELSE b

\* Mutant: the first retry is taken for the second.
Exponential_StartsLate(attemptNumber) ==
    Lesser(InitialDelay * Multiplier ^ (attemptNumber - 1), MaxDelay)

\* attemptNumber 2 is the first retry.
Exponential(attemptNumber) ==
    Lesser(InitialDelay * Multiplier ^ (attemptNumber - 2), MaxDelay)

\* Math.floor of a random number below the top.
Below(top) == 0..(IF top = 0 THEN 0 ELSE top - 1)

\* Math.floor of half the top and a random number below the other half.
Upper(top) == (top \div 2)..(IF top = 0 THEN 0 ELSE top - 1)

\* Between the initial delay and three times the previous one, either of which
\* may be the greater.
Decorrelated ==
    Lesser(Lesser(InitialDelay, 3 * previous), MaxDelay)
    .. Lesser(IF InitialDelay > 3 * previous + 2 THEN InitialDelay ELSE 3 * previous + 2,
              MaxDelay)

\* The delays getDelay(attemptNumber) may return.
Delays(attemptNumber) ==
    CASE strategy = "constant" -> {InitialDelay}
      [] strategy = "exponential" -> {Exponential(attemptNumber)}
      [] strategy = "full" -> Below(Exponential(attemptNumber))
      [] strategy = "equal" -> Upper(Exponential(attemptNumber))
      [] strategy = "decorrelated" -> Decorrelated

GetDelay(attemptNumber, ms) ==
    /\ ms \in Delays(attemptNumber)
    /\ previous' = IF strategy = "decorrelated" THEN ms ELSE previous
    /\ UNCHANGED strategy
-----------------------------------------------------------------------------
\* What the comments promise of the delay after so many attempts: governed by
\* the initial delay times a power of the multiplier, capped; of decorrelated
\* delays only the two bounds are known.
Documented(ms, attempts) ==
    LET top == InitialDelay * Multiplier ^ (attempts - 1)
        capped == IF top < MaxDelay THEN top ELSE MaxDelay
    IN /\ strategy = "constant" => ms = InitialDelay
       /\ strategy = "exponential" => ms = capped
       /\ strategy = "full" => ms <= capped
       /\ strategy = "equal" => ms <= capped /\ 2 * ms + 1 >= capped
       /\ strategy = "decorrelated" =>
              ms <= MaxDelay /\ (ms >= InitialDelay \/ ms = MaxDelay)
=============================================================================
