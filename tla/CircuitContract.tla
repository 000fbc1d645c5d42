-------------------------- MODULE CircuitContract --------------------------
(***************************************************************************)
(* The circuit breaker state machine as the interface of the state stores  *)
(* documents it (circuit-breaker/state-store.ts, the diagram and the       *)
(* transition rules of CircuitBreakerStateStore): a failure count that     *)
(* exists only while the circuit is closed, a success count that exists    *)
(* only while it is half-open, an age that exists only while it is open.   *)
(***************************************************************************)
EXTENDS Naturals

CONSTANTS FailureThreshold, SuccessThreshold, BreakDuration

VARIABLES st, failures, successes, age

contractVars == <<st, failures, successes, age>>

Enter(new) == st' = new /\ failures' = 0 /\ successes' = 0 /\ age' = 0

Init == st = "closed" /\ failures = 0 /\ successes = 0 /\ age = 0

FailureCounted ==
    /\ st = "closed" /\ failures + 1 < FailureThreshold
    /\ failures' = failures + 1
    /\ UNCHANGED <<st, successes, age>>

Trip == st = "closed" /\ failures + 1 >= FailureThreshold /\ Enter("open")

FailuresForgotten ==
    /\ st = "closed"
    /\ failures' = 0
    /\ UNCHANGED <<st, successes, age>>

TimePasses ==
    /\ st = "open"
    /\ age' = age + 1
    /\ UNCHANGED <<st, failures, successes>>

Probe == st = "open" /\ age >= BreakDuration /\ Enter("halfOpen")

SuccessCounted ==
    /\ st = "halfOpen" /\ successes + 1 < SuccessThreshold
    /\ successes' = successes + 1
    /\ UNCHANGED <<st, failures, age>>

Recover == st = "halfOpen" /\ successes + 1 >= SuccessThreshold /\ Enter("closed")

ProbeFailed == st = "halfOpen" /\ Enter("open")

\* isolate() and reset(), from any state.
Manual == Enter("isolated") \/ Enter("closed")

Next ==
    \/ FailureCounted \/ Trip \/ FailuresForgotten
    \/ TimePasses \/ Probe
    \/ SuccessCounted \/ Recover \/ ProbeFailed
    \/ Manual

Spec == Init /\ [][Next]_contractVars
=============================================================================
