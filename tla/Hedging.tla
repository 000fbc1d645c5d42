------------------------------ MODULE Hedging ------------------------------
(***************************************************************************)
(* One execute() of HedgingPolicy (hedging/hedging-policy.ts): attempt 1   *)
(* and its hedges race, the first that returns wins and cancels the rest.  *)
(*                                                                         *)
(* JavaScript runs one macrotask (execute itself, a timer callback, the    *)
(* event that settles fn's promise) and then every microtask it queued.    *)
(* An attempt whose promise has settled is "returned" or "threw" until the *)
(* microtask that runs onResult or onError; no timer fires before that.    *)
(***************************************************************************)
EXTENDS Integers, FiniteSets

CONSTANT MaxHedges  \* attempts beyond the first

ASSUME HedgingAssumption == MaxHedges \in Nat

Attempts == 1..(1 + MaxHedges)
Hedges == 2..(1 + MaxHedges)

VARIABLES
    delayed,    \* delayMs > 0: hedges start by timer; an option, never changed
    status,     \* where each attempt is
    aborted,    \* attempts whose own controller was aborted
    failures,   \* calls of onError
    completed,  \* onResult has won or onError has given up
    outcome,    \* the promise execute() returned
    cancelled   \* the caller's signal was aborted

vars == <<delayed, status, aborted, failures, completed, outcome, cancelled>>

\* "no call": execute() has not been called.  "armed": the timer of a hedge
\* runs.  "lost": fn threw into the timer callback, nobody tracks the attempt.
\* "unborn": the attempt is never launched.
Statuses == {"no call", "armed", "running", "returned", "threw", "won",
             "late", "failed", "lost", "unborn"}

Init ==
    /\ delayed \in BOOLEAN
    /\ status = [a \in Attempts |-> "no call"]
    /\ aborted = {}
    /\ failures = 0
    /\ completed = FALSE
    /\ outcome = "pending"
    /\ cancelled = FALSE
-----------------------------------------------------------------------------
Launched == {a \in Attempts : status[a] \notin {"no call", "armed", "unborn"}}
Settled == {a \in Attempts : status[a] \in {"returned", "threw"}}

\* Microtasks wait, so no timer callback runs.
Busy == Settled # {}

Called == status[1] # "no call"

Set(a, s) == status' = [status EXCEPT ![a] = s]

\* The caller's signal was aborted before the call.
AbortedBefore ==
    /\ ~Called /\ cancelled
    /\ status' = [a \in Attempts |-> "unborn"]
    /\ outcome' = "cancelled"
    /\ UNCHANGED <<delayed, aborted, failures, completed, cancelled>>

\* execute(): attempt 1, and with no delay every hedge, is launched at once.
Execute ==
    /\ ~Called /\ ~cancelled
    /\ status' = [a \in Attempts |->
                    IF a = 1 \/ ~delayed THEN "running" ELSE "armed"]
    /\ UNCHANGED <<delayed, aborted, failures, completed, outcome, cancelled>>

\* fn throws when attempt a is launched by execute() itself: for attempt 1
\* execute() ends, for a hedge the executor of the promise does, and the
\* attempts launched before it are tracked but nothing waits for them.
ExecuteThrows(a) ==
    /\ ~Called /\ ~cancelled
    /\ a = 1 \/ ~delayed
    /\ status' = [b \in Attempts |->
                    IF b < a THEN "running" ELSE IF b = a THEN "lost" ELSE "unborn"]
    /\ outcome' = "rejected"
    /\ UNCHANGED <<delayed, aborted, failures, completed, cancelled>>

\* Mutant: a hedge starts although the race is over.
HedgeTimer_IgnoresWinner(a) ==
    /\ status[a] = "armed" /\ ~Busy
    /\ \A b \in Attempts : b < a => status[b] # "armed"
    /\ Set(a, "running")
    /\ UNCHANGED <<delayed, aborted, failures, completed, outcome, cancelled>>

\* The timers are one delay apart, so they fire in order.
HedgeTimer(a) ==
    /\ status[a] = "armed" /\ ~Busy
    /\ \A b \in Attempts : b < a => status[b] # "armed"
    /\ \/ completed /\ Set(a, "unborn")
       \/ ~completed /\ Set(a, "running")
       \/ ~completed /\ Set(a, "lost")
    /\ UNCHANGED <<delayed, aborted, failures, completed, outcome, cancelled>>

\* fn's promise settles.
Return(a) ==
    /\ status[a] = "running"
    /\ Set(a, "returned")
    /\ UNCHANGED <<delayed, aborted, failures, completed, outcome, cancelled>>

Throw(a) ==
    /\ status[a] = "running"
    /\ Set(a, "threw")
    /\ UNCHANGED <<delayed, aborted, failures, completed, outcome, cancelled>>

\* A promise is settled by the first call of resolve or reject.
Answer(o) == outcome' = IF outcome = "pending" THEN o ELSE outcome

\* Mutant: the race is not closed by its winner.
OnResult_StaysOpen(a) ==
    /\ status[a] = "returned"
    /\ Set(a, "won")
    /\ aborted' = aborted \cup Launched
    /\ Answer("resolved")
    /\ UNCHANGED <<delayed, failures, completed, cancelled>>

OnResult(a) ==
    /\ status[a] = "returned"
    /\ IF completed
       THEN Set(a, "late") /\ UNCHANGED <<aborted, completed, outcome>>
       ELSE /\ Set(a, "won")
            /\ completed' = TRUE
            /\ aborted' = aborted \cup Launched
            /\ Answer("resolved")
    /\ UNCHANGED <<delayed, failures, cancelled>>

\* Mutant: only hedges that were launched are waited for.
OnError_CountsLaunched(a) ==
    /\ status[a] = "threw"
    /\ Set(a, "failed")
    /\ failures' = failures + 1
    /\ IF failures + 1 >= Cardinality(Launched) /\ ~completed
       THEN completed' = TRUE /\ Answer("rejected")
       ELSE UNCHANGED <<completed, outcome>>
    /\ UNCHANGED <<delayed, aborted, cancelled>>

\* Mutant: an off-by-one in the number of attempts.
OnError_WaitsForMore(a) ==
    /\ status[a] = "threw"
    /\ Set(a, "failed")
    /\ failures' = failures + 1
    /\ IF failures + 1 > 1 + MaxHedges /\ ~completed
       THEN completed' = TRUE /\ Answer("rejected")
       ELSE UNCHANGED <<completed, outcome>>
    /\ UNCHANGED <<delayed, aborted, cancelled>>

OnError(a) ==
    /\ status[a] = "threw"
    /\ Set(a, "failed")
    /\ failures' = failures + 1
    /\ IF failures + 1 >= 1 + MaxHedges /\ ~completed
       THEN completed' = TRUE /\ Answer("rejected")
       ELSE UNCHANGED <<completed, outcome>>
    /\ UNCHANGED <<delayed, aborted, cancelled>>

\* The caller's signal: it reaches the attempts that were launched and whose
\* listener is still there, which is removed one microtask after fn settled.
Cancel ==
    /\ ~cancelled
    /\ cancelled' = TRUE
    /\ \E listening \in SUBSET Settled :
         aborted' = aborted \cup listening
                      \cup {a \in Attempts : status[a] \in {"running", "lost"}}
    /\ UNCHANGED <<delayed, status, failures, completed, outcome>>

Start == AbortedBefore \/ Execute \/ \E a \in Attempts : ExecuteThrows(a)
Microtask(a) == OnResult(a) \/ OnError(a)

Next ==
    \/ Start
    \/ Cancel
    \/ \E a \in Attempts : HedgeTimer(a) \/ Return(a) \/ Throw(a) \/ Microtask(a)

Spec == Init /\ [][Next]_vars

\* The call is made, timers fire, microtasks run, and fn's promises settle.
Fairness ==
    /\ WF_vars(Start)
    /\ \A a \in Attempts :
         /\ WF_vars(HedgeTimer(a))
         /\ WF_vars(Return(a) \/ Throw(a))
         /\ WF_vars(Microtask(a))

FairSpec == Spec /\ Fairness
-----------------------------------------------------------------------------
TypeOK ==
    /\ delayed \in BOOLEAN
    /\ status \in [Attempts -> Statuses]
    /\ aborted \subseteq Launched
    /\ failures \in 0..(1 + MaxHedges)
    /\ completed \in BOOLEAN
    /\ outcome \in {"pending", "resolved", "rejected", "cancelled"}
    /\ cancelled \in BOOLEAN

Running == {a \in Attempts : status[a] = "running"}
Lost == {a \in Attempts : status[a] = "lost"}

\* "The first successful response wins, and all other in-flight requests are
\* cancelled": after the answer nothing runs with a live signal, not even a
\* hedge whose timer fires later.
LosersCancelled == outcome = "resolved" => Running \subseteq aborted

\* "Only fires once per execution": one attempt wins, and the call resolves
\* exactly when one has won, however many return at the same time.
OneWinner ==
    /\ \A a, b \in Attempts : status[a] = "won" /\ status[b] = "won" => a = b
    /\ outcome = "resolved" => \E a \in Attempts : status[a] = "won"

\* "The error from the last attempt if all attempts fail": unless fn threw
\* before it returned a promise, a call that could still succeed is not given
\* up, even when every attempt so far has failed.
RejectsOnlyWhenAllFailed ==
    outcome = "rejected" /\ Lost = {} => \A a \in Attempts : status[a] = "failed"

\* hedging-policy.ts:152, "Optional AbortSignal to cancel all attempts
\* externally."
CancelReachesAll == cancelled => Running \subseteq aborted

\* An attempt that returns decides the call, and so does the last failure,
\* unless fn threw into a timer callback.
Settles == Called ~> outcome # "pending" \/ Lost # {}
=============================================================================
