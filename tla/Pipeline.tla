------------------------------ MODULE Pipeline ------------------------------
(***************************************************************************)
(* Overlapping calls of a pipeline (wrap/policy-wrap.ts) of the policies   *)
(* that only pass a call on, each once: TelemetryPolicy, FallbackPolicy,   *)
(* CachePolicy and ChaosPolicy, around an operation.  All calls have the   *)
(* same cache key.                                                         *)
(*                                                                         *)
(* A call is at one layer at a time.  It descends synchronously until a    *)
(* layer awaits something of its own; what that layer returns or throws is *)
(* awaited by the layer above, whose continuation is a step of its own.    *)
(***************************************************************************)
EXTENDS CacheProvider, FiniteSets, Sequences

CONSTANTS
    Callers,   \* slots for execute() calls, each used many times
    Pipelines  \* argument lists of pipeline(), outermost first

Policies == {"telemetry", "fallback", "cache", "chaos"}

ASSUME PipelineAssumption ==
    /\ IsFiniteSet(Callers)
    /\ Results = {"value", "bad", "default"} /\ Ttl \in Nat
    /\ \A list \in Pipelines :
          /\ list \in Seq(Policies) /\ list # <<>>
          /\ \A i, j \in DOMAIN list : list[i] = list[j] => i = j

Errors == {"error", "fatal", "aborted"}
Outcomes == {"value", "bad", Nothing, "error", "fatal"}

\* shouldHandle and shouldHandleResult of the fallback.
Handled == {"error", "aborted"}
Rejected == {"bad"}

VARIABLES
    policies,   \* the arguments of pipeline()
    stack,      \* its layers so far, outermost first
    keyed,      \* the cache has a keyGenerator
    faults,     \* FALSE once nothing fails any more
    entry,      \* the provider's entry
    open,       \* attempts less successes and failures, spans not ended
    at, await,  \* the layer each call stands at, and what it awaits there
    answer,     \* what the layer below, or in the end the pipeline, answered
    cancelled,  \* calls whose signal is aborted
    deaf,       \* calls whose cache did not link the signal
    why         \* history: what went wrong in the call

\* What no call changes.
options == <<policies, stack, keyed>>

vars == <<options, faults, entry, open, at, await, answer, cancelled, deaf, why>>

\* Mutant: the later argument becomes the outer policy.
Wrap_Swapped(outer, inner) == inner \o outer

\* PolicyWrap: the outer policy's operation is the inner policy.
Wrap(outer, inner) == outer \o inner

Init ==
    /\ policies \in Pipelines /\ stack = <<policies[1]>>
    /\ keyed \in BOOLEAN
    /\ faults = TRUE
    /\ entry = NoEntry
    /\ open = 0
    /\ at = [c \in Callers |-> 0]
    /\ await = [c \in Callers |-> "call"]
    /\ answer = [c \in Callers |-> Nothing]
    /\ cancelled = {} /\ deaf = {}
    /\ why = [c \in Callers |-> {}]
-----------------------------------------------------------------------------
\* The loop of pipeline(): the next argument goes inside all before it.
WrapNext ==
    /\ Len(stack) < Len(policies)
    /\ stack' = Wrap(stack, <<policies[Len(stack) + 1]>>)
    /\ UNCHANGED <<policies, keyed, faults, entry, open, at, await, answer,
                   cancelled, deaf, why>>

Operation == Len(stack) + 1
Layer(c) == stack[at[c]]
LayerIs(i, policy) == i < Operation /\ stack[i] = policy

Goto(c, i, place, got) ==
    /\ at' = [at EXCEPT ![c] = i]
    /\ await' = [await EXCEPT ![c] = place]
    /\ answer' = [answer EXCEPT ![c] = got]

Awaits(c, place, got) == Goto(c, at[c], place, got)

\* The promise of layer i settles; layer 1 is the call itself.
Answers(c, i, got) == Goto(c, i - 1, IF i = 1 THEN "call" ELSE "inner", got)

\* Mutant: the fallback does not look at the signal.
Stops_NoCheck(i, aborted) ==
    \/ i = Operation
    \/ LayerIs(i, "cache")

\* Layers that do not call the layer below at once.
Stops(i, aborted) ==
    \/ i = Operation
    \/ LayerIs(i, "cache")
    \/ LayerIs(i, "fallback") /\ aborted

\* Where a descent ends.  The cache makes a controller of its own, which hears
\* of an abort only if that is still to come, and throws if it has no key.
Arrive(c, i, aborted, causes) ==
    \/ /\ i = Operation
       /\ Goto(c, i, "fn", Nothing)
       /\ why' = [why EXCEPT ![c] = causes] /\ UNCHANGED deaf
    \/ /\ LayerIs(i, "fallback") /\ aborted
       /\ Answers(c, i, "aborted")
       /\ why' = [why EXCEPT ![c] = causes \cup {"aborted"}] /\ UNCHANGED deaf
    \/ /\ LayerIs(i, "cache") /\ keyed
       /\ Goto(c, i, "get", Nothing)
       /\ deaf' = IF aborted THEN deaf \cup {c} ELSE deaf \ {c}
       /\ why' = [why EXCEPT ![c] = causes]
    \/ /\ LayerIs(i, "cache") /\ ~keyed
       /\ Answers(c, i, "error")
       /\ why' = [why EXCEPT ![c] = causes \cup {"no key"}] /\ UNCHANGED deaf
    \/ /\ LayerIs(i, "chaos") /\ faults
       /\ Goto(c, i, "latency", Nothing)
       /\ why' = [why EXCEPT ![c] = causes] /\ UNCHANGED deaf

\* From layer `from` down: telemetry counts an attempt as it is passed.
Descend(c, from, aborted, causes) ==
    \E i \in from..Operation :
        /\ \A j \in from..(i - 1) : ~Stops(j, aborted)
        /\ Arrive(c, i, aborted, causes)
        /\ open' = open + Cardinality({j \in from..i : LayerIs(j, "telemetry")})

\* execute() of the finished pipeline.
Call(c) ==
    /\ await[c] = "call" /\ Len(stack) = Len(policies)
    /\ \E aborted \in {FALSE, faults} :
          /\ cancelled' = IF aborted THEN cancelled \cup {c} ELSE cancelled \ {c}
          /\ Descend(c, 1, aborted, {})
    /\ UNCHANGED <<options, faults, entry>>

Because(c, cause) == why' = [why EXCEPT ![c] = @ \cup ({cause} \ {"value", Nothing})]

\* fn settles.  What it does with an aborted signal is its own business.
FnSettles(c) ==
    /\ await[c] = "fn"
    /\ \E outcome \in IF faults THEN Outcomes ELSE {"value"} :
          Answers(c, at[c], outcome) /\ Because(c, outcome)
    /\ UNCHANGED <<options, faults, entry, open, cancelled, deaf>>

\* ChaosPolicy throws its fault, after a delay that no signal cuts short.
ChaosThrows(c) ==
    /\ await[c] = "latency"
    /\ Answers(c, at[c], "error") /\ Because(c, "chaos")
    /\ UNCHANGED <<options, faults, entry, open, cancelled, deaf>>

\* The provider looks the key up.
Lookup(c) ==
    /\ await[c] = "get"
    /\ entry' = Get(entry)
    /\ Awaits(c, "got", Get(entry).value)
    /\ UNCHANGED <<options, faults, open, cancelled, deaf, why>>

LookupFails(c) ==
    /\ await[c] = "get" /\ faults
    /\ Answers(c, at[c], "error") /\ Because(c, "provider")
    /\ UNCHANGED <<options, faults, entry, open, cancelled, deaf>>

Hit(c) ==
    /\ await[c] = "got" /\ answer[c] # Nothing
    /\ Answers(c, at[c], answer[c]) /\ Because(c, answer[c])
    /\ UNCHANGED <<options, faults, entry, open, cancelled, deaf>>

Miss(c) ==
    /\ await[c] = "got" /\ answer[c] = Nothing
    /\ Descend(c, at[c] + 1, c \in cancelled \ deaf, why[c])
    /\ UNCHANGED <<options, faults, entry, cancelled>>

\* The cache's fn returned or threw.
CacheContinues(c) ==
    /\ await[c] = "inner" /\ Layer(c) = "cache"
    /\ IF answer[c] \in Errors
       THEN Answers(c, at[c], answer[c])
       ELSE Awaits(c, "set", answer[c])
    /\ UNCHANGED <<options, faults, entry, open, cancelled, deaf, why>>

\* The provider stores the result.
Store(c) ==
    /\ await[c] = "set"
    /\ entry' = Set(answer[c])
    /\ Answers(c, at[c], answer[c])
    /\ UNCHANGED <<options, faults, open, cancelled, deaf, why>>

\* It fails to, or its reply is lost: the catch block throws away the result.
StoreFails(c) ==
    /\ await[c] = "set" /\ faults
    /\ entry' \in {entry, Set(answer[c])}
    /\ Answers(c, at[c], "error") /\ Because(c, "provider")
    /\ UNCHANGED <<options, faults, open, cancelled, deaf>>

\* Mutant: the result is not looked at.
FallbackContinues_TakesAny(c) ==
    /\ await[c] = "inner" /\ Layer(c) = "fallback"
    /\ \/ answer[c] \in Handled /\ Awaits(c, "fallback for error", Nothing)
       \/ answer[c] \notin Handled /\ Answers(c, at[c], answer[c])
    /\ UNCHANGED <<options, faults, entry, open, cancelled, deaf, why>>

\* The fallback's fn returned or threw: take the result, or ask for another.
FallbackContinues(c) ==
    /\ await[c] = "inner" /\ Layer(c) = "fallback"
    /\ \/ answer[c] \in Rejected /\ Awaits(c, "fallback for result", Nothing)
       \/ answer[c] \in Handled /\ Awaits(c, "fallback for error", Nothing)
       \/ answer[c] \notin Rejected \cup Handled /\ Answers(c, at[c], answer[c])
    /\ UNCHANGED <<options, faults, entry, open, cancelled, deaf, why>>

\* The factory, or the static value.
FactoryReturns(c) ==
    /\ await[c] \in {"fallback for result", "fallback for error"}
    /\ Answers(c, at[c], "default")
    /\ UNCHANGED <<options, faults, entry, open, cancelled, deaf, why>>

\* Mutant: whatever the factory throws is handled like an error of fn.
FactoryThrows_Again(c) ==
    /\ faults
    /\ await[c] \in {"fallback for result", "fallback for error"}
    /\ Awaits(c, "fallback for error", Nothing) /\ Because(c, "factory")
    /\ UNCHANGED <<options, faults, entry, open, cancelled, deaf>>

\* For a result the factory runs inside the try block: what it throws is an
\* error to handle, and the factory is asked again.
FactoryThrows(c) ==
    /\ faults
    /\ await[c] \in {"fallback for result", "fallback for error"}
    /\ \E thrown \in {"error", "fatal"} :
          IF await[c] = "fallback for result" /\ thrown \in Handled
          THEN Awaits(c, "fallback for error", Nothing)
          ELSE Answers(c, at[c], thrown)
    /\ Because(c, "factory")
    /\ UNCHANGED <<options, faults, entry, open, cancelled, deaf>>

\* Mutant: a failure is counted in the catch and again in the finally block.
TelemetryContinues_Twice(c) ==
    /\ await[c] = "inner" /\ Layer(c) = "telemetry"
    /\ open' = open - (IF answer[c] \in Errors THEN 2 ELSE 1)
    /\ Answers(c, at[c], answer[c])
    /\ UNCHANGED <<options, faults, entry, cancelled, deaf, why>>

\* A success or a failure is counted, and the span ends.
TelemetryContinues(c) ==
    /\ await[c] = "inner" /\ Layer(c) = "telemetry"
    /\ open' = open - 1
    /\ Answers(c, at[c], answer[c])
    /\ UNCHANGED <<options, faults, entry, cancelled, deaf, why>>

ChaosContinues(c) ==
    /\ await[c] = "inner" /\ Layer(c) = "chaos"
    /\ Answers(c, at[c], answer[c])
    /\ UNCHANGED <<options, faults, entry, open, cancelled, deaf, why>>

\* The caller aborts its signal.
Cancel(c) ==
    /\ await[c] # "call" /\ c \notin cancelled /\ faults
    /\ cancelled' = cancelled \cup {c}
    /\ UNCHANGED <<options, faults, entry, open, at, await, answer, deaf, why>>

TimePasses ==
    /\ entry' = Aged(entry)
    /\ UNCHANGED <<options, faults, open, at, await, answer, cancelled, deaf, why>>

\* delete(), or the provider lost the entry.
Delete ==
    /\ entry' = NoEntry
    /\ UNCHANGED <<options, faults, open, at, await, answer, cancelled, deaf, why>>

\* From now on operations succeed, the provider works and nobody cancels.
Heal ==
    /\ faults' = FALSE
    /\ UNCHANGED <<options, entry, open, at, await, answer, cancelled, deaf, why>>

Progress(c) ==
    \/ FnSettles(c) \/ ChaosThrows(c)
    \/ Lookup(c) \/ LookupFails(c) \/ Hit(c) \/ Miss(c)
    \/ CacheContinues(c) \/ Store(c) \/ StoreFails(c)
    \/ FallbackContinues(c) \/ FactoryReturns(c) \/ FactoryThrows(c)
    \/ TelemetryContinues(c) \/ ChaosContinues(c)

Next ==
    \/ \E c \in Callers : Call(c) \/ Progress(c) \/ Cancel(c)
    \/ WrapNext \/ TimePasses \/ Delete \/ Heal

Spec == Init /\ [][Next]_vars

\* Operations settle, providers reply, timers fire and time passes.
Fairness ==
    /\ WF_vars(TimePasses)
    /\ \A c \in Callers : WF_vars(Progress(c))

FairSpec == Spec /\ Fairness
-----------------------------------------------------------------------------
\* "The first policy in the list is the outermost policy", policy-wrap.ts:40.
Before(outer, inner) ==
    \E i, j \in DOMAIN policies : i < j /\ policies[i] = outer /\ policies[j] = inner

Guarded == \E i \in DOMAIN policies : policies[i] = "fallback"

TypeOK ==
    /\ entry \in Entries
    /\ open \in 0..Cardinality(Callers)
    /\ \A c \in Callers :
          /\ at[c] \in 0..Operation
          /\ at[c] = 0 <=> await[c] = "call"
          /\ at[c] = Operation <=> await[c] = "fn"
    /\ answer \in [Callers -> Results \cup Errors \cup {Nothing}]
    /\ deaf \subseteq Callers /\ cancelled \subseteq Callers

\* cache-policy.ts:95, "Failed operations are NOT cached": what the provider
\* holds is a result of the operation, never an error and, if the fallback was
\* composed outside the cache, never a default.
FailuresNotCached ==
    /\ entry.value \notin Errors
    /\ Before("fallback", "cache") => entry.value # "default"
    /\ \A c \in Callers : await[c] = "set" => answer[c] \notin Errors

Done(c) == await[c] = "call"

\* Every answer has a reason in its own call: a default replaces something that
\* was handled, a result that is rejected never gets out past a fallback, and a
\* call fails only for an error that no fallback handles, a factory that failed,
\* a signal that was aborted before the fallback ran, or for a cache or a chaos
\* policy that no fallback is composed around.
AnswerExplained ==
    \A c \in Callers : Done(c) =>
        /\ answer[c] = "default" =>
              why[c] \cap {"bad", "error", "aborted", "provider", "no key", "chaos", "default"} # {}
        /\ answer[c] = "bad" => ~Guarded
        /\ answer[c] \in Errors =>
              \/ why[c] \cap {"fatal", "factory", "aborted"} # {}
              \/ why[c] \cap {"provider", "no key"} # {} /\ ~Before("fallback", "cache")
              \/ "chaos" \in why[c] /\ ~Before("fallback", "chaos")
              \/ "error" \in why[c] /\ ~Guarded

\* A second fallback is asked for only after a factory failed that was asked
\* because of a result; one that failed for an error is final.
FactoryAskedAgain ==
    \A c \in Callers :
        await[c] = "fallback for error" /\ "factory" \in why[c] => "bad" \in why[c]

\* An operation that runs for a cancelled call has an aborted signal, unless the
\* call was cancelled before it began and no fallback outside the cache saw it.
AbortVisible ==
    \A c \in Callers :
        await[c] = "fn" /\ c \in cancelled /\ Before("fallback", "cache") => c \notin deaf

\* Every attempt telemetry counts becomes one success or one failure, and every
\* span ends, wherever in the pipeline it stands.
AttemptsAddUp ==
    open = Cardinality({c \in Callers :
              \E i \in DOMAIN stack : stack[i] = "telemetry" /\ i <= at[c]})

\* Once nothing fails any more, a caller that goes on calling gets defaults,
\* rejected results and errors for a while at most: what a cache kept of the bad
\* times runs out, although overlapping calls go on reading and writing it.
Recovers ==
    keyed /\ Ttl > 0 /\ <>[]~faults =>
        \A c \in Callers :
            []<>~Done(c) => []<>Done(c) /\ <>[](Done(c) => answer[c] = "value")
=============================================================================
