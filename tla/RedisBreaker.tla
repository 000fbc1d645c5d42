---------------------------- MODULE RedisBreaker ----------------------------
(***************************************************************************)
(* CircuitBreakerPolicy in several processes that share one circuit in     *)
(* Redis (redis/redis-state-store.ts).  A store method is a request: the   *)
(* server runs its script some time after it was sent and the reply comes  *)
(* some time later.  A script is atomic; setState is a pipeline, whose     *)
(* commands the server may interleave with those of other clients.         *)
(*                                                                         *)
(* Scripts compare times the clients sampled when they sent the request.   *)
(* openedAt is kept as age, the time since then while the circuit is open, *)
(* and a request's time as lag, the time since it was sent; age stops at   *)
(* the largest value a comparison can tell apart.                          *)
(***************************************************************************)
EXTENDS Integers, Sequences

CONSTANTS
    Clients,           \* slots for execute() calls in any process
    Admins,            \* slots for isolate() and reset()
    FailThreshold, SuccessThreshold, BreakDuration,
    MaxDelay,          \* the longest time a request is under way
    Faulty             \* requests may fail, before or after they are run, and
                       \* processes may crash

ASSUME RedisAssumption ==
    /\ FailThreshold \in Nat \ {0} /\ SuccessThreshold \in Nat \ {0}
    /\ BreakDuration \in Nat /\ MaxDelay \in Nat /\ Faulty \in BOOLEAN
    /\ Clients \cap Admins = {}

Procs == Clients \cup Admins

VARIABLES
    hash,    \* the circuit's hash in Redis
    at,      \* the await each call stands at
    request, \* commands of each call's request that have not been run
    lag,     \* time since the request was sent
    reply,   \* what the server answered
    inTry,   \* calls whose handleFailure stands inside execute()'s try
    target,  \* newState in transitionTo
    failed,  \* history: calls whose fn threw or returned a failure
    misled,  \* history: calls whose store call failed inside execute()'s try
    counted, \* history: failures recorded for each call
    probes,  \* history: successes recorded since the circuit went half-open
    torn     \* history: counters that a reset closed the circuit without
             \* zeroing, until they are zero

ofCall == <<inTry, target, failed, misled, counted>>
vars == <<hash, at, request, lag, reply, ofCall, probes, torn>>

None == "none"
Lesser(a, b) == IF a < b THEN a ELSE b
States == {"closed", "open", "halfOpen", "isolated"}

Init ==
    /\ hash = [state |-> "closed", failures |-> 0, successes |-> 0, age |-> 0]
    /\ at = [p \in Procs |-> "idle"]
    /\ request = [p \in Procs |-> <<>>]
    /\ lag = [p \in Procs |-> 0]
    /\ reply = [p \in Procs |-> None]
    /\ inTry = {}
    /\ target = [p \in Procs |-> None]
    /\ failed = {} /\ misled = {}
    /\ counted = [p \in Procs |-> 0]
    /\ probes = 0
    /\ torn = {}
-----------------------------------------------------------------------------
(* The server.  A missing field reads as closed or 0. *)

Elapsed(sent) == hash.state = "open" /\ hash.age - sent >= BreakDuration

Enter(new, sent) ==
    hash' = [hash EXCEPT !.state = new, !.age = IF new = "open" THEN sent ELSE 0]

GetStateScript(sent) ==
    IF Elapsed(sent) THEN Enter("halfOpen", sent) ELSE UNCHANGED hash

\* Mutant: successes are counted, never compared with the threshold.
RecordSuccessScript_NeverCloses ==
    CASE hash.state = "halfOpen" ->
           hash' = [hash EXCEPT !.successes = Lesser(@ + 1, SuccessThreshold)]
      [] hash.state = "closed" -> hash' = [hash EXCEPT !.failures = 0]
      [] OTHER -> UNCHANGED hash

RecordSuccessScript ==
    CASE hash.state = "halfOpen" /\ hash.successes + 1 >= SuccessThreshold ->
           hash' = [state |-> "closed", failures |-> 0, successes |-> 0, age |-> 0]
      [] hash.state = "halfOpen" /\ hash.successes + 1 < SuccessThreshold ->
           hash' = [hash EXCEPT !.successes = @ + 1]
      [] hash.state = "closed" -> hash' = [hash EXCEPT !.failures = 0]
      [] OTHER -> UNCHANGED hash

\* Mutant: every failure beyond the threshold opens, whatever the state is.
RecordFailureScript_AnyState(sent) ==
    IF hash.state = "halfOpen" \/ hash.failures + 1 >= FailThreshold
    THEN hash' = [hash EXCEPT !.state = "open", !.failures = FailThreshold, !.age = sent]
    ELSE hash' = [hash EXCEPT !.failures = @ + 1]

\* Mutant: the circuit opens one failure late.
RecordFailureScript_OffByOne(sent) ==
    CASE hash.state = "closed" /\ hash.failures >= FailThreshold ->
           hash' = [hash EXCEPT !.state = "open", !.age = sent]
      [] hash.state = "closed" /\ hash.failures < FailThreshold ->
           hash' = [hash EXCEPT !.failures = @ + 1]
      [] hash.state = "halfOpen" -> Enter("open", sent)
      [] OTHER -> UNCHANGED hash

\* failures stays at the threshold, where a later one only opens again.
RecordFailureScript(sent) ==
    CASE hash.state = "closed" /\ hash.failures + 1 >= FailThreshold ->
           hash' = [hash EXCEPT !.state = "open", !.failures = FailThreshold, !.age = sent]
      [] hash.state = "closed" /\ hash.failures + 1 < FailThreshold ->
           hash' = [hash EXCEPT !.failures = @ + 1]
      [] hash.state = "halfOpen" -> Enter("open", sent)
      [] OTHER -> UNCHANGED hash

\* The pipeline of setState for the states the policy sets.
Pipeline(new) ==
    IF new = "closed"
    THEN <<"set closed", "zero failures", "zero successes">>
    ELSE <<"set isolated">>

Run(command, sent) ==
    CASE command = "getState" -> GetStateScript(sent)
      [] command = "recordSuccess" -> RecordSuccessScript
      [] command = "recordFailure" -> RecordFailureScript(sent)
      [] command = "set closed" -> Enter("closed", sent)
      [] command = "set isolated" -> Enter("isolated", sent)
      [] command = "zero failures" -> hash' = [hash EXCEPT !.failures = 0]
      [] command = "zero successes" -> hash' = [hash EXCEPT !.successes = 0]

\* What a script returns: the state, or whether it changed the circuit.
Answer(command) ==
    CASE command = "getState" -> hash'.state
      [] command = "recordSuccess" ->
           IF hash.state # hash'.state THEN "changed" ELSE "unchanged"
      [] command = "recordFailure" ->
           IF hash.state # hash'.state THEN "changed" ELSE "unchanged"
      [] OTHER -> "ok"

\* The server runs the next command of a request.
Serve(p) ==
    /\ request[p] # <<>>
    /\ Run(Head(request[p]), lag[p])
    /\ request' = [request EXCEPT ![p] = Tail(@)]
    /\ reply' = [reply EXCEPT ![p] = Answer(Head(request[p]))]
    /\ lag' = [lag EXCEPT ![p] = IF Len(request[p]) = 1 THEN 0 ELSE @]
    /\ counted' = [counted EXCEPT ![p] =
                     IF Head(request[p]) = "recordFailure" THEN @ + 1 ELSE @]
    /\ probes' = IF hash'.state # "halfOpen" THEN 0
                 ELSE IF Head(request[p]) = "recordSuccess" THEN Lesser(probes + 1, SuccessThreshold)
                 ELSE probes
    /\ torn' = {n \in torn : hash'[n] # 0}
    /\ UNCHANGED <<at, inTry, target, failed, misled>>

\* The store call stands in the try block of execute(), whose catch block takes
\* its error for one of fn.
InsideTry(p) == p \in inTry \/ at[p] = "succeeding"

\* The counters that a reset has still to zero.
Unzeroed(p) ==
    IF request[p] = <<>> \/ Head(request[p]) \notin {"zero failures", "zero successes"} THEN {}
    ELSE IF Len(request[p]) = 2 THEN {"failures", "successes"} ELSE {"successes"}

\* A reset is cut off.
Tear(p) == torn' = torn \cup {n \in Unzeroed(p) : hash[n] # 0}

\* The connection fails: what is left of the request is run or not, the reply
\* is lost either way.
Lose(p) ==
    /\ Faulty
    /\ request[p] # <<>> \/ reply[p] # None
    /\ request' = [request EXCEPT ![p] = <<>>]
    /\ reply' = [reply EXCEPT ![p] = "error"]
    /\ lag' = [lag EXCEPT ![p] = 0]
    /\ misled' = IF InsideTry(p) THEN misled \cup {p} ELSE misled
    /\ Tear(p)
    /\ UNCHANGED <<hash, at, inTry, target, failed, counted, probes>>

TimePasses ==
    /\ \A p \in Procs : request[p] # <<>> => lag[p] < MaxDelay
    /\ hash' = [hash EXCEPT !.age = IF hash.state = "open"
                                    THEN Lesser(@ + 1, BreakDuration + MaxDelay)
                                    ELSE 0]
    /\ lag' = [p \in Procs |-> IF request[p] = <<>> THEN 0 ELSE lag[p] + 1]
    /\ UNCHANGED <<at, request, reply, ofCall, probes, torn>>
-----------------------------------------------------------------------------
(* The policy. *)

Answered(p, place) == at[p] = place /\ request[p] = <<>>

Goto(p, place) == at' = [at EXCEPT ![p] = place]

\* A store method is called; the call goes on at place when it is answered.
Send(p, commands, place) ==
    /\ Goto(p, place)
    /\ request' = [request EXCEPT ![p] = commands]
    /\ reply' = [reply EXCEPT ![p] = None]
    /\ UNCHANGED <<hash, lag, probes, torn>>

Return(p) ==
    /\ Goto(p, "idle")
    /\ reply' = [reply EXCEPT ![p] = None]
    /\ inTry' = inTry \ {p}
    /\ target' = [target EXCEPT ![p] = None]
    /\ failed' = failed \ {p} /\ misled' = misled \ {p}
    /\ counted' = [counted EXCEPT ![p] = 0]
    /\ UNCHANGED <<hash, request, lag, probes, torn>>

Begin(c) ==
    /\ at[c] = "idle"
    /\ Send(c, <<"getState">>, "checking")
    /\ UNCHANGED ofCall

\* Refused, or getState failed outside of the try block.
Refuse(c) ==
    /\ Answered(c, "checking")
    /\ reply[c] \in {"open", "isolated", "error"}
    /\ Return(c)

Start(c) ==
    /\ Answered(c, "checking")
    /\ reply[c] \in {"closed", "halfOpen"}
    /\ Goto(c, "running")
    /\ reply' = [reply EXCEPT ![c] = None]
    /\ UNCHANGED <<hash, request, lag, ofCall, probes, torn>>

\* The process dies with its call, before or after the server saw a request.
Crash(p) ==
    /\ Faulty
    /\ at[p] # "idle"
    /\ Goto(p, "idle")
    /\ request' = [request EXCEPT ![p] = <<>>]
    /\ lag' = [lag EXCEPT ![p] = 0]
    /\ reply' = [reply EXCEPT ![p] = None]
    /\ inTry' = inTry \ {p}
    /\ target' = [target EXCEPT ![p] = None]
    /\ failed' = failed \ {p} /\ misled' = misled \ {p}
    /\ counted' = [counted EXCEPT ![p] = 0]
    /\ Tear(p)
    /\ UNCHANGED <<hash, probes>>

Succeed(c) ==
    /\ at[c] = "running"
    /\ Send(c, <<"recordSuccess">>, "succeeding")
    /\ UNCHANGED ofCall

\* handleFailure: it asks for the state first.
HandleFailure(c) == Send(c, <<"getState">>, "failing")

\* fn threw, or its result counts as a failure; then handleFailure is called
\* from the catch block or from the try block.
Fail(c) ==
    /\ at[c] = "running"
    /\ HandleFailure(c)
    /\ failed' = failed \cup {c}
    /\ inTry' \in {inTry, inTry \cup {c}}
    /\ UNCHANGED <<target, misled, counted>>

\* fn threw what shouldHandle does not count, or the call was cancelled.
FinishUncounted(c) ==
    /\ at[c] = "running"
    /\ Return(c)

\* Mutant: a failing store is reported to handleFailure wherever the call stands.
StoreFailed_AlwaysHandled(c) ==
    /\ \E place \in {"succeeding", "failing", "failed", "announcing"} : Answered(c, place)
    /\ reply[c] = "error"
    /\ HandleFailure(c)
    /\ inTry' = inTry \ {c}
    /\ UNCHANGED <<target, failed, misled, counted>>

\* A store method failed.  Inside the try block its error is handled like one
\* of fn; outside it leaves execute().
StoreFailed(c) ==
    /\ \E place \in {"succeeding", "failing", "failed", "announcing"} : Answered(c, place)
    /\ reply[c] = "error"
    /\ \/ /\ InsideTry(c)
          /\ HandleFailure(c)
          /\ inTry' = inTry \ {c}
          /\ UNCHANGED <<target, failed, misled, counted>>
       \/ Return(c)

Succeeded(c) ==
    /\ Answered(c, "succeeding")
    /\ reply[c] # "error"
    /\ Return(c)

Record(c) ==
    /\ Answered(c, "failing")
    /\ reply[c] # "error"
    /\ Send(c, <<"recordFailure">>, "failed")
    /\ UNCHANGED ofCall

\* The new state is asked for when recordFailure opened the circuit.
Recorded(c) ==
    /\ Answered(c, "failed")
    /\ \/ /\ reply[c] = "changed"
          /\ Send(c, <<"getState">>, "announcing")
          /\ UNCHANGED ofCall
       \/ reply[c] = "unchanged" /\ Return(c)

Announced(c) ==
    /\ Answered(c, "announcing")
    /\ reply[c] # "error"
    /\ Return(c)

\* isolate() and reset().
Command(a, new) ==
    /\ at[a] = "idle"
    /\ Send(a, <<"getState">>, "deciding")
    /\ target' = [target EXCEPT ![a] = new]
    /\ UNCHANGED <<inTry, failed, misled, counted>>

Apply(a) ==
    /\ Answered(a, "deciding")
    /\ reply[a] \notin {target[a], "error"}
    /\ Send(a, Pipeline(target[a]), "setting")
    /\ UNCHANGED ofCall

Commanded(a) ==
    /\ \/ Answered(a, "deciding") /\ reply[a] \in {target[a], "error"}
       \/ Answered(a, "setting")
    /\ Return(a)

Call(c) ==
    \/ Refuse(c) \/ Start(c) \/ StoreFailed(c) \/ Succeeded(c)
    \/ Record(c) \/ Recorded(c) \/ Announced(c)
Settle(c) == Succeed(c) \/ Fail(c) \/ FinishUncounted(c)
Continue(p) == Serve(p) \/ (p \in Clients /\ Call(p)) \/ (p \in Admins /\ (Apply(p) \/ Commanded(p)))

Next ==
    \/ \E c \in Clients : Begin(c) \/ Settle(c)
    \/ \E a \in Admins, new \in {"isolated", "closed"} : Command(a, new)
    \/ \E p \in Procs : Continue(p) \/ Lose(p) \/ Crash(p)
    \/ TimePasses

Spec == Init /\ [][Next]_vars

\* Requests are answered, calls go on, operations settle.  The clock advances
\* also when calls come so fast that some request is always at MaxDelay.
Fairness ==
    /\ \A p \in Procs : WF_vars(Continue(p))
    /\ \A c \in Clients : WF_vars(Settle(c))
    /\ SF_vars(TimePasses)

FairSpec == Spec /\ Fairness
-----------------------------------------------------------------------------
Places == {"idle", "checking", "running", "succeeding", "failing", "failed",
           "announcing", "deciding", "setting"}
\* What may be left of a request.
Requests == {<<>>, <<"getState">>, <<"recordSuccess">>, <<"recordFailure">>,
             <<"set isolated">>, <<"set closed", "zero failures", "zero successes">>,
             <<"zero failures", "zero successes">>, <<"zero successes">>}
Replies == States \cup {None, "changed", "unchanged", "ok", "error"}

TypeOK ==
    /\ hash \in [state : States, failures : 0..FailThreshold,
                 successes : 0..(SuccessThreshold - 1), age : 0..(BreakDuration + MaxDelay)]
    /\ at \in [Procs -> Places]
    /\ request \in [Procs -> Requests]
    /\ lag \in [Procs -> 0..MaxDelay]
    /\ reply \in [Procs -> Replies]
    /\ inTry \subseteq Clients /\ failed \subseteq Clients /\ misled \subseteq Clients
    /\ target \in [Procs -> {"isolated", "closed", None}]
    /\ counted \in [Procs -> 0..2]
    /\ probes \in 0..SuccessThreshold
    /\ torn \subseteq {"failures", "successes"}

\* isolated "won't auto-recover" (state-store.ts:32) in a shared circuit too:
\* only a reset() pipeline ends an isolation, whoever sent what before it.
IsolationHolds ==
    [][hash.state = "isolated" /\ hash'.state # "isolated"
         => \E a \in Admins : request[a] # <<>> /\ Head(request[a]) = "set closed"]_vars

\* redis-state-store.ts:166-180: no circuit is left closed at its threshold,
\* where the next failure of anybody opens it, or with successes, while no
\* reset() is at work.  The exception is a counter that a reset() was cut off
\* from between its commands, until something else zeroes it.
ClosedHasRoom ==
    hash.state = "closed" /\ (\A a \in Admins : at[a] # "setting") =>
        /\ hash.failures < FailThreshold \/ "failures" \in torn
        /\ hash.successes = 0 \/ "successes" \in torn

\* state-store.ts:73, recordFailure "Records a failed operation": a call is
\* counted only when its operation failed, and once.  The exception is a call
\* whose own store call failed inside the try block: the policy takes that for
\* a failure of the operation (circuit-breaker-policy.ts:166) and counts it, or
\* counts the operation's failure again, but no more than once.
FailuresAreReal ==
    \A c \in Clients :
        counted[c] <= (IF c \in failed THEN 1 ELSE 0) + (IF c \in misled THEN 1 ELSE 0)

\* redis-state-store.ts:34, "The number of successes required to close the
\* Circuit Breaker from half-open state."
ClosesAfterThreshold ==
    [][hash.state = "halfOpen" /\ hash'.state = "closed"
         => \/ \E a \in Admins : request[a] # <<>> /\ Head(request[a]) = "set closed"
            \/ probes + 1 >= SuccessThreshold]_vars

\* Whatever was lost and whoever crashed before: once requests are no more cut
\* off, no operation fails and nobody commands the circuit, operations that keep
\* succeeding close it, unless it was isolated.  Processes may go on crashing
\* between their requests.
Recovers ==
    ( /\ <>[][~\E p \in Procs : Lose(p) \/ (request[p] # <<>> /\ Crash(p))]_vars
      /\ []<><<\E c \in Clients : Succeed(c)>>_vars
      /\ <>[][~\E c \in Clients : Fail(c)]_vars
      /\ <>[][~\E a \in Admins : Apply(a)]_vars )
    => <>[](hash.state \in {"closed", "isolated"})
=============================================================================
