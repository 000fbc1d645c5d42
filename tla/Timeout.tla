------------------------------ MODULE Timeout ------------------------------
(***************************************************************************)
(* Executions of TimeoutPolicy (timeout/timeout-policy.ts).  Each has its  *)
(* own timer and its own AbortController, whose signal fn is given.        *)
(*                                                                         *)
(* pessimistic races fn's promise against a promise the timer rejects,     *)
(* optimistic only aborts the signal and waits for fn.  A race is decided  *)
(* by the promise that settles first; the continuation that reads it is a  *)
(* later microtask, and no timer fires before that.                        *)
(***************************************************************************)
EXTENDS Naturals

CONSTANT Execs  \* executions of the policy

VARIABLES
    optimistic,  \* options.strategy, never changed
    fn,      \* the operation of each execution
    timer,   \* its timer
    told,    \* executions whose signal was aborted
    winner,  \* the promise that decided each race
    answer   \* the promise execute() returned

timeoutVars == <<optimistic, fn, timer, told, winner, answer>>

TimeoutInit ==
    /\ optimistic \in BOOLEAN
    /\ fn = [e \in Execs |-> "none"]
    /\ timer = [e \in Execs |-> "none"]
    /\ told = {}
    /\ winner = [e \in Execs |-> "none"]
    /\ answer = [e \in Execs |-> "pending"]
-----------------------------------------------------------------------------
Decided == {e \in Execs : winner[e] # "none" /\ answer[e] = "pending"}

\* execute(): the timer is armed and fn is called.
Begin(e) ==
    /\ fn[e] = "none"
    /\ fn' = [fn EXCEPT ![e] = "running"]
    /\ timer' = [timer EXCEPT ![e] = "armed"]
    /\ UNCHANGED <<optimistic, told, winner, answer>>

\* fn settles.  What it throws after its signal was aborted may be the
\* TimeoutError the signal carries.
Ends(e) == {"returned", "threw"} \cup IF timer[e] = "fired" THEN {"timed out"} ELSE {}

FnEnds(e) ==
    /\ fn[e] = "running"
    /\ \E end \in Ends(e) : fn' = [fn EXCEPT ![e] = end]
    /\ winner' = [winner EXCEPT ![e] = IF @ = "none" THEN "fn" ELSE @]
    /\ UNCHANGED <<optimistic, timer, told, answer>>

\* Mutant: the timeout promise is rejected, but the signal is not aborted.
TimerFires_Silent(e) ==
    /\ timer[e] = "armed" /\ Decided = {}
    /\ timer' = [timer EXCEPT ![e] = "fired"]
    /\ winner' = [winner EXCEPT ![e] = IF optimistic THEN @ ELSE "timer"]
    /\ UNCHANGED <<optimistic, fn, told, answer>>

\* Mutant: the signal is aborted, but the race goes on.
TimerFires_NoReject(e) ==
    /\ timer[e] = "armed" /\ Decided = {}
    /\ timer' = [timer EXCEPT ![e] = "fired"]
    /\ told' = told \cup {e}
    /\ UNCHANGED <<optimistic, fn, winner, answer>>

\* The timer aborts the signal first, and an abort listener may settle fn's
\* promise there and then: it wins although onTimeout is emitted.
TimerFires(e) ==
    /\ timer[e] = "armed" /\ Decided = {}
    /\ timer' = [timer EXCEPT ![e] = "fired"]
    /\ told' = told \cup {e}
    /\ \/ /\ winner' = [winner EXCEPT ![e] = IF optimistic THEN @ ELSE "timer"]
          /\ UNCHANGED fn
       \/ /\ fn[e] = "running"
          /\ \E end \in {"returned", "threw", "timed out"} : fn' = [fn EXCEPT ![e] = end]
          /\ winner' = [winner EXCEPT ![e] = "fn"]
    /\ UNCHANGED <<optimistic, answer>>

\* Mutant: clearTimeout is missing after an error.
Continue_LeavesTimer(e) ==
    /\ e \in Decided
    /\ answer' = [answer EXCEPT ![e] =
                    IF winner[e] = "timer" THEN "timed out" ELSE fn[e]]
    /\ timer' = [timer EXCEPT ![e] =
                    IF @ = "armed" /\ fn[e] = "returned" THEN "cleared" ELSE @]
    /\ UNCHANGED <<optimistic, fn, told, winner>>

\* The continuation of the race: clearTimeout, an event, and the answer.
Continue(e) ==
    /\ e \in Decided
    /\ answer' = [answer EXCEPT ![e] =
                    IF winner[e] = "timer" THEN "timed out" ELSE fn[e]]
    /\ timer' = [timer EXCEPT ![e] = IF @ = "armed" THEN "cleared" ELSE @]
    /\ UNCHANGED <<optimistic, fn, told, winner>>

\* The signal execute() was given is aborted: the listener passes it on.
Tell(E) ==
    /\ told' = told \cup {e \in E : fn[e] # "none"}
    /\ UNCHANGED <<optimistic, fn, timer, winner, answer>>
-----------------------------------------------------------------------------
FnStates == {"none", "running", "returned", "threw", "timed out"}

TimeoutTypeOK ==
    /\ optimistic \in BOOLEAN
    /\ fn \in [Execs -> FnStates]
    /\ timer \in [Execs -> {"none", "armed", "fired", "cleared"}]
    /\ told \subseteq Execs
    /\ winner \in [Execs -> {"none", "fn", "timer"}]
    /\ answer \in [Execs -> {"pending", "returned", "threw", "timed out"}]

\* An execution that has answered leaves no timer behind that would abort a
\* signal or emit onTimeout later.
NoLateTimer == \A e \in Execs : answer[e] # "pending" => timer[e] # "armed"
=============================================================================
