---------------------------- MODULE RetryTimeout ----------------------------
(***************************************************************************)
(* One call of wrap(retry, timeout): RetryPolicy (retry/retry-policy.ts)   *)
(* outside, TimeoutPolicy inside, joined by PolicyWrap (wrap/).  Attempt a *)
(* of the retry loop is execution a of the timeout policy; it is given the *)
(* signal of the retry policy's own controller.                            *)
(*                                                                         *)
(* The loop runs in synchronous segments between the awaits of fn and of   *)
(* delayFn.  A segment that goes round the loop starts the next attempt.   *)
(* The delay is computed (Backoff); how long the timer really takes is not *)
(* modelled.  Other calls of the same policy share its backoff strategy.   *)
(***************************************************************************)
EXTENDS Timeout, Backoff, FiniteSets

CONSTANTS
    MaxAttempts,  \* retries beyond the first attempt
    Limited       \* maxDuration is set

\* The last conjunct: uncapped delays are whole numbers, as MaxDelay is.
ASSUME RetryAssumption ==
    /\ MaxAttempts \in Nat /\ Limited \in BOOLEAN
    /\ Execs = 1..(1 + MaxAttempts)
    /\ \A n \in 0..MaxAttempts : InitialDelay * Multiplier ^ n \in Nat

VARIABLES
    at,         \* the await of the loop
    attempt,    \* attemptNumber
    delay,      \* of the pause the loop stands in, else 0
    overdue,    \* maxDuration has passed
    cancelled,  \* the caller's signal was aborted
    outcome,    \* the promise execute() returned
    reported    \* attempts in the failure event, 0 before it

loopVars == <<at, attempt, delay, overdue, cancelled, outcome, reported>>
vars == <<optimistic, fn, timer, told, winner, answer, strategy, previous,
          at, attempt, delay, overdue, cancelled, outcome, reported>>

Init ==
    /\ TimeoutInit /\ BackoffInit
    /\ at = "called" /\ attempt = 0 /\ delay = 0
    /\ overdue = FALSE /\ cancelled = FALSE
    /\ outcome = "pending" /\ reported = 0
-----------------------------------------------------------------------------
Done(o) ==
    /\ at' = "done" /\ outcome' = o /\ delay' = 0
    /\ UNCHANGED <<overdue, cancelled, backoffVars>>

\* After the loop: one failure event, with attemptNumber as it stands.
Exhausted(number) == Done("rejected") /\ attempt' = number /\ reported' = number

\* The reason of an aborted signal is thrown out of execute().
ThrowReason(number) == Done("aborted") /\ attempt' = number /\ UNCHANGED reported

\* The top of the loop.  Its condition attemptNumber <= maxAttempts holds
\* whenever it is reached: a last attempt leaves the loop from its body.
NextAttempt ==
    \/ /\ overdue
       /\ Exhausted(attempt + 1) /\ UNCHANGED timeoutVars
    \/ /\ ~overdue /\ cancelled
       /\ ThrowReason(attempt + 1) /\ UNCHANGED timeoutVars
    \/ /\ ~overdue /\ ~cancelled
       /\ attempt' = attempt + 1 /\ at' = "attempting" /\ delay' = 0
       /\ Begin(attempt + 1)
       /\ UNCHANGED <<overdue, cancelled, outcome, reported, backoffVars>>

Start == at = "called" /\ NextAttempt

\* The delay before the next attempt is asked for with that attempt's number.
Pause(kind) ==
    /\ attempt <= MaxAttempts
    /\ at' = kind
    /\ \E d \in Delays(attempt + 1) : delay' = d /\ GetDelay(attempt + 1, d)
    /\ UNCHANGED <<attempt, overdue, cancelled, outcome, reported>>

Answered(a) == at = "attempting" /\ a = attempt /\ answer[a] # "pending"

\* fn's result is taken, or shouldRetryResult wants another.
Returned(a) ==
    /\ Answered(a) /\ answer[a] = "returned"
    /\ \/ Done("resolved") /\ UNCHANGED <<attempt, reported>>
       \/ Pause("delay after result")
    /\ UNCHANGED timeoutVars

\* Mutant: the attempt number moves on before the loop gives up.
Failed_CountsNext(a) ==
    /\ Answered(a) /\ answer[a] # "returned"
    /\ Exhausted(attempt + 1) \/ Pause("delay after error")
    /\ UNCHANGED timeoutVars

\* The error ends the loop, or shouldRetryError wants another attempt.
Failed(a) ==
    /\ Answered(a) /\ answer[a] # "returned"
    /\ Exhausted(attempt) \/ Pause("delay after error")
    /\ UNCHANGED timeoutVars

\* The delay is over.
Resume ==
    /\ at \in {"delay after result", "delay after error"}
    /\ Decided = {}
    /\ NextAttempt

\* delayFn rejects once the signal is aborted.  After an error that leaves the
\* catch block; after a result the catch block takes it for an error of fn.
DelayAborted ==
    /\ cancelled
    /\ \/ at = "delay after error" /\ ThrowReason(attempt)
       \/ at = "delay after result" /\ (Exhausted(attempt) \/ Pause("delay after error"))
    /\ UNCHANGED timeoutVars

\* Mutant: the policy's own controller is not linked to the caller's signal.
Cancel_NotLinked ==
    /\ ~cancelled /\ cancelled' = TRUE
    /\ UNCHANGED <<timeoutVars, backoffVars>>
    /\ UNCHANGED <<at, attempt, delay, overdue, outcome, reported>>

\* The caller's signal: the retry policy's controller, then the controllers of
\* all timeout executions that were given its signal.
Cancel ==
    /\ ~cancelled /\ cancelled' = TRUE
    /\ Tell(Execs)
    /\ UNCHANGED <<at, attempt, delay, overdue, outcome, reported, backoffVars>>

\* Date.now() - startTime reaches maxDuration.
TimeRunsOut ==
    /\ Limited /\ ~overdue /\ overdue' = TRUE
    /\ UNCHANGED <<timeoutVars, backoffVars>>
    /\ UNCHANGED <<at, attempt, delay, cancelled, outcome, reported>>

\* Another execution of the same policy asks for one of its delays.
OthersPause ==
    /\ \E number \in 2..(1 + MaxAttempts) : \E d \in Delays(number) : GetDelay(number, d)
    /\ UNCHANGED <<timeoutVars, loopVars>>

Inner(e) == (TimerFires(e) \/ Continue(e)) /\ UNCHANGED <<loopVars, backoffVars>>
Operation(e) == FnEnds(e) /\ UNCHANGED <<loopVars, backoffVars>>
Loop == Start \/ Resume \/ DelayAborted \/ \E a \in Execs : Returned(a) \/ Failed(a)

Next ==
    \/ Loop
    \/ Cancel
    \/ TimeRunsOut
    \/ OthersPause
    \/ \E e \in Execs : Inner(e) \/ Operation(e)

Spec == Init /\ [][Next]_vars

\* Timers fire and microtasks run.  Nothing says that fn ever settles.
\* An optimistic timeout does not give up on an operation; there it must settle.
Fairness ==
    /\ WF_vars(Loop)
    /\ \A e \in Execs : WF_vars(Inner(e)) /\ WF_vars(optimistic /\ Operation(e))

FairSpec == Spec /\ Fairness
-----------------------------------------------------------------------------
TypeOK ==
    /\ TimeoutTypeOK
    /\ strategy \in Strategies /\ previous \in Nat /\ delay \in Nat
    /\ at \in {"called", "attempting", "delay after result", "delay after error", "done"}
    /\ attempt \in 0..(1 + MaxAttempts)
    /\ reported \in 0..(1 + MaxAttempts)
    /\ overdue \in BOOLEAN /\ cancelled \in BOOLEAN
    /\ outcome \in {"pending", "resolved", "rejected", "aborted"}

\* Operations that have been started, one for each attempt made.
Made == {e \in Execs : fn[e] # "none"}

Live == {e \in Execs : fn[e] = "running" /\ e \notin told}

\* A pessimistic timeout leaves its operation running in the background, but
\* never with a live signal: attempts that have not been told to stop do not
\* overlap, and none survives the call.  Under an optimistic one no operation
\* overlaps another at all.
OneLiveAttempt ==
    /\ \A e, f \in Live : e = f
    /\ at # "attempting" => Live = {}
    /\ optimistic => \A e, f \in Execs : fn[e] = "running" /\ fn[f] = "running" => e = f

\* Through two controllers and two policies an abort reaches every operation
\* that still runs, and no attempt starts after it.
CancelReachesAttempts == cancelled => Live = {}

\* FailureEventArgs, types/events.ts:51, "The number of attempts made before
\* giving up": true unless maxDuration ended the loop, which counts the attempt
\* it did not make.
AttemptsReported ==
    outcome = "rejected" =>
        LET made == Cardinality(Made)
        IN reported = made \/ (overdue /\ reported = made + 1)

\* backoff.ts:38 and :71-77: the delay before each attempt is what the strategy
\* promises for the number of attempts made, whatever was drawn for other calls.
DelayDocumented ==
    at \in {"delay after result", "delay after error"} =>
        Documented(delay, Cardinality(Made))

\* The call settles, although under a pessimistic timeout no operation need.
Settles == <>(at = "done")
=============================================================================
