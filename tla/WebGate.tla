------------------------------ MODULE WebGate ------------------------------
(***************************************************************************)
(* Requests that pass through the Express middleware                       *)
(* (express/polly-middleware.ts) or the Fastify hook                       *)
(* (fastify/polly-plugin.ts).  The adapter gives the policy an operation   *)
(* that lets the request in and waits for its response.  Every call of the *)
(* operation awaits the same promise, requestPromise or waitForResponse,   *)
(* which the response's events settle.                                     *)
(*                                                                         *)
(* The policy is a composition of the core policies, reduced to what they  *)
(* can do to the operation: traits tells which of it they do.  Its         *)
(* timeouts are all pessimistic or all optimistic.  It holds a slot of its *)
(* bulkhead for every call that has not settled.                           *)
(***************************************************************************)
EXTENDS Naturals, FiniteSets

CONSTANTS
    Requests,  \* all of them received, none let in yet
    Slots,     \* maxConcurrent of a bulkhead in the policy
    MaxCalls,  \* the most often a policy calls the operation for a request
    Policies   \* the policies looked at, each a set of traits

\* abort:      it aborts the signal it gave the operation (timeout)
\* abandon:    and then does not wait for it (pessimistic timeout)
\* retry:      it calls the operation again (retry)
\* hedge:      it calls the operation while it waits for other calls of it;
\*             the first result counts, the other calls are aborted (hedging)
\* wait:       it awaits something else first and then calls the operation
\*             without a look at the signal (rate limiter, cache)
\* substitute: it resolves where others reject, or before any call (fallback, cache)
\* fault:      it rejects, or calls again, though the operation returned (a
\*             failing circuit or cache store, a predicate on results)
Traits == {"abort", "abandon", "retry", "hedge", "wait", "substitute", "fault"}

ASSUME GateAssumption ==
    /\ Slots \in Nat \ {0} /\ MaxCalls \in Nat \ {0}
    /\ Policies \subseteq SUBSET Traits
    /\ \A p \in Policies : "abandon" \in p => "abort" \in p

VARIABLES
    adapter,   \* "express" or "fastify", never changed
    traits,    \* what the policy does, never changed
    stage,     \* of every call: "none", "waiting", "refused", "made", or
               \* "late": made after its signal was aborted or the policy
               \* had left it
    told,      \* calls whose signal was aborted
    left,      \* calls that the policy does not wait for any more
    answer,    \* the promise of policy.execute()
    promise,   \* requestPromise, waitForResponse
    listening, \* requests whose response has the adapter's listeners
    admitted,  \* requests whose route handler was started
    erred,     \* requests handed to the error handler
    resp,      \* the response; its headers are sent unless it is quiet
    status,    \* its statusCode, "error" for 500 and above
    closed     \* requests whose connection was closed before the response finished

gate == <<adapter, traits>>
policy == <<stage, told, left, answer>>
response == <<promise, listening, resp, status, closed>>
vars == <<gate, policy, response, admitted, erred>>

Calls == 1..MaxCalls

Init ==
    /\ adapter \in {"express", "fastify"} /\ traits \in Policies
    /\ stage = [r \in Requests |-> [i \in Calls |-> "none"]]
    /\ told = {} /\ left = {}
    /\ answer = [r \in Requests |-> "pending"]
    /\ promise = [r \in Requests |-> "pending"]
    /\ listening = Requests
    /\ admitted = {} /\ erred = {}
    /\ resp = [r \in Requests |-> "quiet"]
    /\ status = [r \in Requests |-> "ok"]
    /\ closed = {}
-----------------------------------------------------------------------------
(* The policy's calls of the operation. *)

Made(r, i) == stage[r][i] \in {"made", "late"}

Begun(r) == {i \in Calls : stage[r][i] # "none"}

HoldsSlot(r, i) == Made(r, i) /\ promise[r] = "pending"

SlotFree == Cardinality({h \in Requests \X Calls : HoldsSlot(h[1], h[2])}) < Slots

HeadersSent(r) == resp[r] # "quiet"

\* The policy expects nothing of the call any more.
Failed(r, i) ==
    \/ stage[r][i] = "refused"
    \/ Made(r, i) /\ promise[r] = "rejected"
    \/ <<r, i>> \in left

AllFailed(r) == \A i \in Begun(r) : Failed(r, i)

\* The operation: Express calls next(), Fastify opens the gate unless it has
\* passed an error on.  A call with an aborted signal never hears of it.
Operation(r, i, as) ==
    /\ SlotFree
    /\ stage' = [stage EXCEPT ![r][i] = as]
    /\ admitted' = IF adapter = "fastify" /\ r \in erred THEN admitted ELSE admitted \cup {r}

\* The policy turns to the operation: for the first time, after all else
\* failed, or as a hedge.  A hedge whose timer fires in a policy that was
\* given up is awaited by nobody.
Begin(r, i) ==
    /\ stage[r][i] = "none" /\ \A j \in 1..(i - 1) : stage[r][j] # "none"
    /\ \E stray \in BOOLEAN :
          /\ IF stray
             THEN "hedge" \in traits /\ \E j \in Calls : <<r, j>> \in left
             ELSE /\ answer[r] = "pending"
                  /\ i = 1 \/ "hedge" \in traits \/ ("retry" \in traits /\ AllFailed(r))
          /\ left' = IF stray THEN left \cup {<<r, i>>} ELSE left
          /\ IF "wait" \in traits
             THEN stage' = [stage EXCEPT ![r][i] = "waiting"] /\ UNCHANGED admitted
             ELSE Operation(r, i, IF stray THEN "late" ELSE "made")
    /\ UNCHANGED <<gate, told, answer, response, erred>>

\* The permit, or the provider's answer, is there: the policy calls the
\* operation, whatever has happened meanwhile.
Call(r, i) ==
    /\ stage[r][i] = "waiting"
    /\ Operation(r, i, IF <<r, i>> \in told \cup left THEN "late" ELSE "made")
    /\ UNCHANGED <<gate, told, left, answer, response, erred>>

\* There is no permit, or what the policy awaited failed.
Refuse(r, i) ==
    /\ stage[r][i] = "waiting"
    /\ stage' = [stage EXCEPT ![r][i] = "refused"]
    /\ UNCHANGED <<gate, told, left, answer, response, admitted, erred>>

\* Mutant: the abort listener does not answer.
Tell_Silent(r, S) ==
    /\ told' = told \cup ({r} \X S)
    /\ UNCHANGED <<resp, status>>

\* The signals of calls are aborted.  Express answers 503 unless the handler
\* has sent headers, Fastify does not listen.
Tell(r, S) ==
    /\ told' = told \cup ({r} \X S)
    /\ IF adapter = "express" /\ ~HeadersSent(r) /\ \E i \in S : Made(r, i)
       THEN /\ resp' = [resp EXCEPT ![r] = "ended"]
            /\ status' = [status EXCEPT ![r] = "error"]
       ELSE UNCHANGED <<resp, status>>

\* A timeout around some of the calls fires, also when those outside it have
\* given up long before.  Late calls have an aborted signal, or a new one
\* that a cache made for them.
Abort(r, S) ==
    /\ "abort" \in traits /\ S # {}
    /\ \A i \in S : i \in Begun(r) /\ (<<r, i>> \notin told \/ stage[r][i] = "late")
    /\ Tell(r, S)
    /\ left' = IF "abandon" \in traits THEN left \cup ({r} \X S) ELSE left
    /\ UNCHANGED <<gate, stage, answer, promise, listening, closed, admitted, erred>>
-----------------------------------------------------------------------------
(* The policy's answer and the adapter's part in it. *)

\* There is a result for the policy to pass on.  Hedging then aborts the other calls.
Result(r) ==
    \/ \E i \in Begun(r) : Made(r, i) /\ <<r, i>> \notin left /\ promise[r] = "resolved"
    \/ "substitute" \in traits /\ ("hedge" \in traits \/ AllFailed(r))

\* A hedging policy that has its result leaves all its calls.
Settle(r) ==
    IF "hedge" \in traits
    THEN Tell(r, Begun(r)) /\ left' = left \cup ({r} \X Begun(r))
    ELSE UNCHANGED <<told, left, resp, status>>

\* Neither adapter does anything with a result.
Resolve(r) ==
    /\ answer[r] = "pending" /\ Result(r)
    /\ answer' = [answer EXCEPT ![r] = "resolved"]
    /\ Settle(r)
    /\ UNCHANGED <<gate, stage, promise, listening, closed, admitted, erred>>

\* A result is lost further out in the policy, which can only fail or retry.
Spoil(r) ==
    /\ "fault" \in traits /\ answer[r] = "pending" /\ Result(r) /\ ~AllFailed(r)
    /\ IF "hedge" \in traits THEN Settle(r)
       ELSE left' = left \cup ({r} \X Begun(r)) /\ UNCHANGED <<told, resp, status>>
    /\ UNCHANGED <<gate, stage, answer, promise, listening, closed, admitted, erred>>

\* The error handler gets the request unless the gate has opened.
RejectGate(r) == erred' = IF r \in admitted THEN erred ELSE erred \cup {r}

Destroy(r) == closed' = IF resp[r] = "finished" THEN closed ELSE closed \cup {r}

\* Mutant: Fastify drops its listeners, as Express does.
Catch_AlwaysCleans(r) ==
    /\ listening' = listening \ {r}
    /\ \/ adapter = "express" /\ HeadersSent(r) /\ Destroy(r) /\ UNCHANGED erred
       \/ adapter = "express" /\ ~HeadersSent(r) /\ erred' = erred \cup {r} /\ UNCHANGED closed
       \/ adapter = "fastify" /\ RejectGate(r) /\ UNCHANGED closed

\* Mutant: the error is passed on though the response has begun.
Catch_NextAlways(r) ==
    \/ /\ adapter = "express"
       /\ listening' = listening \ {r}
       /\ erred' = erred \cup {r} /\ UNCHANGED closed
    \/ adapter = "fastify" /\ RejectGate(r) /\ UNCHANGED <<listening, closed>>

\* Mutant: a rejection that comes before the gate opened is swallowed.
Catch_KeepsGateShut(r) ==
    \/ /\ adapter = "express"
       /\ listening' = listening \ {r}
       /\ \/ HeadersSent(r) /\ Destroy(r) /\ UNCHANGED erred
          \/ ~HeadersSent(r) /\ erred' = erred \cup {r} /\ UNCHANGED closed
    \/ adapter = "fastify" /\ UNCHANGED <<listening, erred, closed>>

\* What the adapter does with a rejection.  Express takes its listeners off
\* and destroys a response that has begun, else it calls next(err).
Catch(r) ==
    \/ /\ adapter = "express"
       /\ listening' = listening \ {r}
       /\ \/ HeadersSent(r) /\ Destroy(r) /\ UNCHANGED erred
          \/ ~HeadersSent(r) /\ erred' = erred \cup {r} /\ UNCHANGED closed
    \/ adapter = "fastify" /\ RejectGate(r) /\ UNCHANGED <<listening, closed>>

\* The policy refuses the request, passes an error on, or gives up.
Reject(r) ==
    /\ answer[r] = "pending" /\ AllFailed(r)
    /\ answer' = [answer EXCEPT ![r] = "rejected"]
    /\ Catch(r)
    /\ UNCHANGED <<gate, stage, told, left, promise, admitted, resp, status>>
-----------------------------------------------------------------------------
(* The response: the handlers write it, the connection may be closed at any *)
(* time.                                                                    *)

Handled(r) == r \in admitted \cup erred /\ r \notin closed

Stream(r) ==
    /\ Handled(r) /\ resp[r] = "quiet"
    /\ resp' = [resp EXCEPT ![r] = "streaming"]
    /\ \E s \in {"ok", "error"} : status' = [status EXCEPT ![r] = s]
    /\ UNCHANGED <<gate, policy, promise, listening, closed, admitted, erred>>

End(r) ==
    /\ Handled(r) /\ resp[r] \in {"quiet", "streaming"}
    /\ resp' = [resp EXCEPT ![r] = "ended"]
    /\ \E s \in {"ok", "error"} :
          status' = [status EXCEPT ![r] = IF resp[r] = "quiet" THEN s ELSE @]
    /\ UNCHANGED <<gate, policy, promise, listening, closed, admitted, erred>>

\* A listener takes all of them off and settles the promise.
Notify(r, outcome) ==
    /\ promise' = [promise EXCEPT ![r] = IF r \in listening THEN outcome ELSE @]
    /\ listening' = listening \ {r}

\* Mutant: the status is not looked at.
Finish_IgnoresStatus(r) ==
    /\ resp[r] = "ended" /\ r \notin closed
    /\ resp' = [resp EXCEPT ![r] = "finished"]
    /\ Notify(r, "resolved")
    /\ UNCHANGED <<gate, policy, status, closed, admitted, erred>>

\* 'finish': onFinish looks at the status.
Finish(r) ==
    /\ resp[r] = "ended" /\ r \notin closed
    /\ resp' = [resp EXCEPT ![r] = "finished"]
    /\ Notify(r, IF status[r] = "error" THEN "rejected" ELSE "resolved")
    /\ UNCHANGED <<gate, policy, status, closed, admitted, erred>>

\* 'close' of a response that has not finished: onClose.
Close(r) ==
    /\ resp[r] # "finished" /\ r \notin closed
    /\ closed' = closed \cup {r}
    /\ Notify(r, "resolved")
    /\ UNCHANGED <<gate, policy, resp, status, admitted, erred>>

\* 'error' of the raw response, to which only Fastify's hook listens: onError.
\* Nothing more of the response is sent.
Break(r) ==
    /\ adapter = "fastify" /\ resp[r] \in {"streaming", "ended"} /\ r \notin closed
    /\ resp' = [resp EXCEPT ![r] = "broken"]
    /\ Notify(r, "rejected")
    /\ UNCHANGED <<gate, policy, status, closed, admitted, erred>>
-----------------------------------------------------------------------------
Proceed(r) == \E i \in Calls : Call(r, i) \/ Refuse(r, i)

Decide(r) == (\E i \in Calls : Begin(r, i)) \/ Resolve(r) \/ Spoil(r) \/ Reject(r)

RequestNext(r) ==
    \/ Proceed(r) \/ Decide(r) \/ \E S \in SUBSET Calls : Abort(r, S)
    \/ Stream(r) \/ End(r) \/ Finish(r) \/ Close(r) \/ Break(r)

Next == \E r \in Requests : RequestNext(r)

Spec == Init /\ [][Next]_vars

\* What a policy awaits before a call comes, a policy decides, the timer
\* around a call that it waits for fires, and a response that was ended is
\* sent.  Handlers may hang and clients may stay connected for ever.
Fairness ==
    \A r \in Requests :
        /\ WF_vars(Proceed(r)) /\ WF_vars(Decide(r)) /\ WF_vars(Finish(r))
        /\ \A i \in Calls : WF_vars(<<r, i>> \notin left /\ Abort(r, {i}))

FairSpec == Spec /\ Fairness
-----------------------------------------------------------------------------
Over(r) == resp[r] = "finished" \/ r \in closed

TypeOK ==
    /\ adapter \in {"express", "fastify"} /\ traits \in SUBSET Traits
    /\ stage \in [Requests -> [Calls -> {"none", "waiting", "refused", "made", "late"}]]
    /\ told \subseteq Requests \X Calls /\ left \subseteq Requests \X Calls
    /\ answer \in [Requests -> {"pending", "resolved", "rejected"}]
    /\ promise \in [Requests -> {"pending", "resolved", "rejected"}]
    /\ listening \subseteq Requests /\ admitted \subseteq Requests
    /\ erred \subseteq Requests /\ closed \subseteq Requests
    /\ resp \in [Requests -> {"quiet", "streaming", "ended", "finished", "broken"}]
    /\ status \in [Requests -> {"ok", "error"}]

\* The policy called the operation after it had stopped waiting for that call.
CalledAfterLeaving(r) == \E i \in Calls : stage[r][i] = "late" /\ <<r, i>> \in left

\* polly-middleware.ts:70, polly-plugin.ts:77: the error handler never works
\* on the response of a live client beside the route handler.  The exception
\* is Express under a policy that calls the operation when nobody waits for
\* the call any more: it runs next() beside next(err).
OneAnswerer ==
    \A r \in Requests :
        r \in erred \cap admitted =>
            r \in closed \/ (adapter = "express" /\ CalledAfterLeaving(r))

\* polly-plugin.ts:38, "Rejecting this promise causes the policy checks to
\* fail": a failed response never counts as a success, and a policy that
\* waits for the response counts no healthy or unfinished one as a failure.
VerdictOfResponse ==
    \A r \in Requests :
        /\ answer[r] = "resolved" /\ "substitute" \notin traits
             => ~(resp[r] = "broken" \/ (resp[r] = "finished" /\ status[r] = "error"))
        /\ answer[r] = "rejected" /\ r \in admitted /\ traits \cap {"abandon", "fault"} = {}
             => resp[r] = "broken" \/ status[r] = "error"

\* A response that is over holds no slot of the policy, retried and hedged
\* calls included: a bulkhead does not run dry.  The exception is a call that
\* a policy in Express had left when it rejected: the middleware then takes
\* the listeners off that alone could settle it.
SlotsComeBack ==
    \A r \in Requests, i \in Calls :
        Over(r) /\ HoldsSlot(r, i) =>
            adapter = "express" /\ answer[r] = "rejected" /\ <<r, i>> \in left

\* Every request is let in or reaches the error handler.  A policy that
\* answers without calling the operation, or replaces its refusal, leaves the
\* request hanging in both adapters.
GateOpens ==
    \A r \in Requests :
        ("substitute" \notin traits) ~> (r \in admitted \cup erred)

\* A call under way whose signal the policy can still abort.
UnderTimeout(r) ==
    "abort" \in traits /\ \E i \in Calls : stage[r][i] = "made" /\ <<r, i>> \notin left

\* polly-middleware.ts:60-71: under a timeout no client of Express waits for
\* a handler that hangs, unless its response has begun and the timeout is
\* optimistic or a fallback takes the error.
AnsweredInTime ==
    \A r \in Requests :
        (adapter = "express" /\ UnderTimeout(r))
          ~> \/ Over(r)
             \/ /\ resp[r] = "streaming"
                /\ "abandon" \notin traits \/ "substitute" \in traits
=============================================================================
