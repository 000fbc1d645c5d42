--------------------------- MODULE PipelineProofs ---------------------------
(***************************************************************************)
(* What Pipeline guarantees for every composition of the policies, every   *)
(* number of overlapping calls and every lifetime of the cache's entry.    *)
(*                                                                         *)
(* What the properties say of a finished call is carried up through the    *)
(* layers: an answer that stands at layer i tells which layers it has      *)
(* passed and which are still to hear it.  Fine(i, ...) says so of a call  *)
(* at layer i, Fresh of what the provider holds, and Heard of the signal   *)
(* of what a call runs below the cache.                                    *)
(***************************************************************************)
EXTENDS Pipeline, FiniteSetTheorems, SequenceTheorems, TLAPS

Layers == 1..Len(stack)
Asking == {"fallback for result", "fallback for error"}
Places == {"call", "fn", "get", "got", "set", "latency", "inner"} \cup Asking
Handling == {"bad", "error", "aborted", "provider", "no key", "chaos"}

\* Every layer of this policy is i or around it.
NoneInside(policy, i) == \A j \in Layers : stack[j] = policy => j <= i

\* A fallback that is around this policy is layer i or around it.
Covered(policy, i) ==
    \A j, k \in Layers : stack[j] = "fallback" /\ stack[k] = policy /\ j < k => j <= i

\* The layers so far are the first arguments, and no call comes before the last.
Built ==
    /\ policies \in Pipelines /\ stack \in Seq(Policies)
    /\ Len(stack) \in 1..Len(policies)
    /\ \A i \in Layers : stack[i] = policies[i]
    /\ Len(stack) < Len(policies) =>
          /\ \A c \in Callers : await[c] = "call" /\ answer[c] = Nothing /\ why[c] = {}
          /\ entry.value = Nothing

Placed(i, place, got) ==
    /\ i \in 0..Operation /\ place \in Places
    /\ got \in Results \cup Errors \cup {Nothing}
    /\ i = 0 <=> place = "call"
    /\ i = Operation <=> place = "fn"
    /\ place \in {"get", "got", "set"} => stack[i] = "cache"
    /\ place = "latency" => stack[i] = "chaos"
    /\ place \in Asking => stack[i] = "fallback"

\* A default comes from a fallback inside, and replaces something.
DefaultFine(i, place, got, causes) == got = "default" =>
    /\ \E j \in Layers : stack[j] = "fallback" /\ j > i
    /\ place # "got" => "default" \in causes \/ \E cause \in Handling : cause \in causes

\* A rejected result has passed no fallback.
BadFine(i, place, got, causes) == got = "bad" =>
    /\ NoneInside("fallback", i)
    /\ place # "got" => "bad" \in causes

\* An error is one that no fallback inside could handle.
ErrorFine(i, place, got, causes) ==
    /\ got \in Errors => place \in {"inner", "call"}
    /\ got = "fatal" => "fatal" \in causes \/ "factory" \in causes
    /\ got = "aborted" => "aborted" \in causes
    /\ got = "error" =>
          \/ "factory" \in causes
          \/ "error" \in causes /\ NoneInside("fallback", i)
          \/ ("provider" \in causes \/ "no key" \in causes) /\ Covered("cache", i)
          \/ "chaos" \in causes /\ Covered("chaos", i)

\* A factory is asked for a reason.
AskFine(place, causes) ==
    /\ place = "fallback for result" => "bad" \in causes
    /\ place = "fallback for error" => \E cause \in Handling : cause \in causes

\* After a factory failed the call has left the fallback, or the factory was
\* asked because of a result and is asked again.
FactoryFine(i, place, causes) == "factory" \in causes =>
    \/ place \in {"inner", "call", "set"} /\ \A j \in Layers : stack[j] = "fallback" => j > i
    \/ place = "fallback for error" /\ "bad" \in causes

Fine(i, place, got, causes) ==
    /\ Placed(i, place, got)
    /\ DefaultFine(i, place, got, causes)
    /\ BadFine(i, place, got, causes)
    /\ ErrorFine(i, place, got, causes)
    /\ AskFine(place, causes)
    /\ FactoryFine(i, place, causes)

\* What the provider holds came out of the layers inside the cache.
Fresh ==
    /\ entry \in Entries /\ entry.value \notin Errors
    /\ entry.value = "default" =>
          \E j, k \in Layers : stack[j] = "cache" /\ stack[k] = "fallback" /\ j < k
    /\ entry.value = "bad" =>
          \A j, k \in Layers : stack[j] = "cache" /\ stack[k] = "fallback" => k < j

\* Inside a cache that is inside a fallback the call was not aborted yet when
\* the cache made its controller.
Heard(i, unheard) ==
    unheard => \A j, k \in Layers : stack[j] = "fallback" /\ stack[k] = "cache" /\ j < k => i < k

Functions ==
    /\ at \in [Callers -> Nat] /\ await \in [Callers -> Places]
    /\ answer \in [Callers -> Results \cup Errors \cup {Nothing}]
    /\ why = [c \in Callers |-> why[c]]
    /\ deaf \subseteq Callers /\ cancelled \subseteq Callers

Inv ==
    /\ Built /\ Functions /\ Fresh
    /\ \A c \in Callers :
          Fine(at[c], await[c], answer[c], why[c]) /\ Heard(at[c], c \in deaf)
    /\ AttemptsAddUp

\* The layer that hears what layer i answers.
Up(i) == IF i = 1 THEN "call" ELSE "inner"

\* A telemetry policy is layer i or around it: its attempt is open.
Inside(i) == \E j \in Layers : stack[j] = "telemetry" /\ j <= i

Counted(old, new) ==
    \/ open' = open /\ (Inside(old) <=> Inside(new))
    \/ open' = open + 1 /\ ~Inside(old) /\ Inside(new)
    \/ open' = open - 1 /\ Inside(old) /\ ~Inside(new)
-----------------------------------------------------------------------------
LEMMA Arguments ==
    ASSUME NEW list \in Pipelines
    PROVE  /\ list \in Seq(Policies) /\ Len(list) \in Nat \ {0}
           /\ \A i, j \in 1..Len(list) : list[i] = list[j] => i = j
<1>1. list \in Seq(Policies) /\ list # <<>>
  BY PipelineAssumption
<1>2. \A i, j \in DOMAIN list : list[i] = list[j] => i = j
  BY PipelineAssumption
<1>3. Len(list) \in Nat \ {0} /\ DOMAIN list = 1..Len(list)
  BY <1>1, EmptySeq
<1> QED BY <1>1, <1>2, <1>3

LEMMA LayerFacts ==
    ASSUME Built
    PROVE  /\ Len(stack) \in Nat \ {0} /\ Operation = Len(stack) + 1
           /\ DOMAIN stack = Layers
           /\ \A i \in Layers : i \in Nat /\ i >= 1 /\ i <= Len(stack) /\ stack[i] \in Policies
           /\ \A i, j \in Layers : stack[i] = stack[j] => i = j
<1>1. stack \in Seq(Policies) /\ Len(stack) \in 1..Len(policies) /\ policies \in Pipelines
  BY DEF Built
<1>2. Len(stack) \in Nat \ {0} /\ DOMAIN stack = Layers
  BY <1>1, Arguments DEF Layers
<1>3. ASSUME NEW i \in Layers
      PROVE  i \in Nat /\ i >= 1 /\ i <= Len(stack) /\ stack[i] \in Policies /\ i \in 1..Len(policies)
  BY <1>1, <1>2, <1>3, Arguments DEF Layers
<1>4. \A i, j \in Layers : stack[i] = stack[j] => i = j
  BY <1>1, <1>3, Arguments DEF Built
<1> QED BY <1>1, <1>2, <1>3, <1>4 DEF Operation

\* The orders of the arguments are the orders of the finished layers.
LEMMA Complete ==
    ASSUME Built, Len(stack) = Len(policies), NEW outer, NEW inner
    PROVE  /\ Before(outer, inner) <=>
                  \E i, j \in Layers : i < j /\ stack[i] = outer /\ stack[j] = inner
           /\ Guarded <=> \E i \in Layers : stack[i] = "fallback"
<1>1. DOMAIN policies = Layers
  BY Arguments DEF Built, Layers
<1> QED BY <1>1 DEF Before, Guarded, Built

LEMMA PlaceFacts ==
    /\ "call" \in Places /\ "fn" \in Places /\ "get" \in Places /\ "got" \in Places
    /\ "set" \in Places /\ "latency" \in Places /\ "inner" \in Places
    /\ "fallback for result" \in Places /\ "fallback for error" \in Places
BY DEF Places, Asking

LEMMA AnswerFacts ==
    /\ Results = {"value", "bad", "default"} /\ Ttl \in Nat
    /\ Results \cap Errors = {} /\ Nothing \notin Errors /\ Nothing \notin Results
    /\ Outcomes \subseteq Results \cup Errors \cup {Nothing}
BY PipelineAssumption DEF Errors, Outcomes, Nothing
-----------------------------------------------------------------------------
\* Nothing was answered yet: whatever the call waits for, its answer is fine.
LEMMA Unanswered ==
    ASSUME NEW i, NEW place, NEW causes,
           Placed(i, place, Nothing), place \notin Asking, "factory" \notin causes
    PROVE  Fine(i, place, Nothing, causes)
BY DEF Fine, DefaultFine, BadFine, ErrorFine, AskFine, FactoryFine, Asking, Errors, Nothing

\* Where the layer above stands.
LEMMA UpPlaced ==
    ASSUME Built, NEW i \in 1..Operation, NEW got \in Results \cup Errors \cup {Nothing}
    PROVE  Placed(i - 1, Up(i), got)
<1>1. i - 1 \in 0..Operation /\ i - 1 # Operation /\ (i - 1 = 0 <=> i = 1)
  BY LayerFacts
<1>2. Up(i) \in {"call", "inner"} /\ (Up(i) = "call" <=> i = 1) /\ Up(i) \in Places
  BY PlaceFacts DEF Up
<1> QED BY <1>1, <1>2 DEF Placed, Asking

\* A layer that is no fallback passes an answer on.
LEMMA Passed ==
    ASSUME Built, NEW i \in Layers, stack[i] # "fallback",
           NEW place \in {"inner", "set"}, NEW got, NEW causes,
           Fine(i, place, got, causes)
    PROVE  Fine(i - 1, Up(i), got, causes)
<1>1. i \in 1..Operation /\ got \in Results \cup Errors \cup {Nothing}
  BY LayerFacts DEF Fine, Placed, Layers
<1>2. Placed(i - 1, Up(i), got)
  BY <1>1, UpPlaced
<1>3. \A j \in Layers : (j > i => j > i - 1) /\ (stack[j] = "fallback" /\ j <= i => j <= i - 1)
  BY LayerFacts
<1>4. Up(i) \in {"inner", "call"} /\ Up(i) \notin Asking /\ Up(i) # "got"
  BY DEF Up, Asking
<1>5. DefaultFine(i - 1, Up(i), got, causes)
  BY <1>3, <1>4 DEF Fine, DefaultFine
<1>6. BadFine(i - 1, Up(i), got, causes)
  BY <1>3, <1>4 DEF Fine, BadFine, NoneInside
<1>7. ErrorFine(i - 1, Up(i), got, causes)
  BY <1>3, <1>4 DEF Fine, ErrorFine, NoneInside, Covered
<1>8. AskFine(Up(i), causes)
  BY <1>4 DEF AskFine, Asking
<1>9. FactoryFine(i - 1, Up(i), causes)
  BY <1>3, <1>4 DEF Fine, FactoryFine
<1> QED BY <1>2, <1>5, <1>6, <1>7, <1>8, <1>9 DEF Fine
-----------------------------------------------------------------------------
\* One call goes to a layer: the others stay, and an attempt begins or ends
\* only with the call that passes telemetry.
LEMMA CountedMove ==
    ASSUME Inv, UNCHANGED stack, NEW c \in Callers, NEW i \in 0..Operation,
           at' = [at EXCEPT ![c] = i], Counted(at[c], i)
    PROVE  AttemptsAddUp'
<1> DEFINE Attempting == {d \in Callers : Inside(at[d])}
<1> DEFINE Later == {d \in Callers : Inside(at'[d])}
<1>1. open = Cardinality(Attempting) /\ (open' = Cardinality(Later) => AttemptsAddUp')
  <2>1. DOMAIN stack = Layers
    BY LayerFacts DEF Inv
  <2>2. Attempting = {d \in Callers :
              \E j \in DOMAIN stack : stack[j] = "telemetry" /\ j <= at[d]}
    BY <2>1 DEF Inside
  <2>3. Later = {d \in Callers :
              \E j \in DOMAIN stack' : stack'[j] = "telemetry" /\ j <= at'[d]}
    BY <2>1 DEF Inside
  <2> QED BY <2>2, <2>3 DEF Inv, AttemptsAddUp
<1>2. at'[c] = i /\ \A d \in Callers \ {c} : at'[d] = at[d]
  BY DEF Inv, Functions
<1>3. IsFiniteSet(Attempting)
  BY PipelineAssumption, FS_Subset
<1>4. CASE open' = open /\ (Inside(at[c]) <=> Inside(i))
  <2>1. Later = Attempting
    BY <1>2, <1>4
  <2> QED BY <1>1, <1>4, <2>1
<1>5. CASE open' = open + 1 /\ ~Inside(at[c]) /\ Inside(i)
  <2>1. Later = Attempting \cup {c} /\ c \notin Attempting
    BY <1>2, <1>5
  <2>2. Cardinality(Later) = Cardinality(Attempting) + 1
    BY <1>3, <2>1, FS_AddElement
  <2> QED BY <1>1, <1>5, <2>2
<1>6. CASE open' = open - 1 /\ Inside(at[c]) /\ ~Inside(i)
  <2>1. Later = Attempting \ {c} /\ c \in Attempting
    BY <1>2, <1>6
  <2>2. Cardinality(Later) = Cardinality(Attempting) - 1
    BY <1>3, <2>1, FS_RemoveElement
  <2> QED BY <1>1, <1>6, <2>2
<1> QED BY <1>4, <1>5, <1>6 DEF Counted

\* Leaving a layer that is not telemetry neither begins nor ends an attempt.
LEMMA NotTelemetry ==
    ASSUME Built, NEW i \in 1..Operation, i = Operation \/ stack[i] # "telemetry"
    PROVE  Inside(i) <=> Inside(i - 1)
<1>1. \A j \in Layers : stack[j] = "telemetry" /\ j <= i => j <= i - 1
  BY LayerFacts
<1>2. \A j \in Layers : j <= i - 1 => j <= i
  BY LayerFacts
<1> QED BY <1>1, <1>2 DEF Inside

\* The step of one call, by where it arrives.
LEMMA Moved ==
    ASSUME Inv, UNCHANGED <<policies, stack>>, Len(stack) = Len(policies),
           NEW c \in Callers, NEW i, NEW place, NEW got, NEW causes,
           Goto(c, i, place, got), Fine(i, place, got, causes),
           why' = [why EXCEPT ![c] = causes],
           Fresh',
           cancelled' \subseteq Callers, deaf' \subseteq Callers,
           \A d \in Callers \ {c} : d \in deaf' <=> d \in deaf,
           Heard(i, c \in deaf'),
           Counted(at[c], i)
    PROVE  Inv'
<1>1. /\ at' = [at EXCEPT ![c] = i] /\ await' = [await EXCEPT ![c] = place]
      /\ answer' = [answer EXCEPT ![c] = got]
  BY DEF Goto
<1>2. i \in 0..Operation /\ place \in Places /\ got \in Results \cup Errors \cup {Nothing}
  BY DEF Fine, Placed
<1>3. i \in Nat
  BY <1>2, LayerFacts DEF Inv
<1>4. Built'
  BY DEF Inv, Built, Layers
<1>5. Functions'
  BY <1>1, <1>2, <1>3 DEF Inv, Functions
<1>6. \A d \in Callers :
          /\ at'[d] = IF d = c THEN i ELSE at[d]
          /\ await'[d] = IF d = c THEN place ELSE await[d]
          /\ answer'[d] = IF d = c THEN got ELSE answer[d]
          /\ why'[d] = IF d = c THEN causes ELSE why[d]
  BY <1>1 DEF Inv, Functions
<1>7. ASSUME NEW d \in Callers
      PROVE  Fine(at[d], await[d], answer[d], why[d])'
  <2>1. Fine(at'[d], await'[d], answer'[d], why'[d])
    <3>1. CASE d = c  BY <1>6, <3>1
    <3>2. CASE d # c  BY <1>6, <3>2 DEF Inv
    <3> QED BY <3>1, <3>2
  <2> QED BY <2>1 DEF Fine, Placed, DefaultFine, BadFine, ErrorFine, AskFine, FactoryFine,
                      NoneInside, Covered, Layers, Operation
<1>8. ASSUME NEW d \in Callers
      PROVE  Heard(at[d], d \in deaf)'
  <2>1. Heard(at'[d], d \in deaf')
    <3>1. CASE d = c  BY <1>6, <3>1
    <3>2. CASE d # c
      <4>1. at'[d] = at[d] /\ (d \in deaf' <=> d \in deaf) /\ Heard(at[d], d \in deaf)
        BY <1>6, <3>2 DEF Inv
      <4> QED BY <4>1 DEF Heard
    <3> QED BY <3>1, <3>2
  <2> QED BY <2>1 DEF Heard, Layers
<1>9. AttemptsAddUp'
  BY <1>1, <1>2, CountedMove
<1> QED BY <1>4, <1>5, <1>7, <1>8, <1>9 DEF Inv
-----------------------------------------------------------------------------
LEMMA OpenIsCount == ASSUME AttemptsAddUp PROVE open \in 0..Cardinality(Callers)
<1>1. IsFiniteSet(Callers)
  BY PipelineAssumption
<1> DEFINE Attempting == {c \in Callers :
              \E i \in DOMAIN stack : stack[i] = "telemetry" /\ i <= at[c]}
<1>2. /\ IsFiniteSet(Attempting) /\ Cardinality(Attempting) <= Cardinality(Callers)
      /\ Cardinality(Attempting) \in Nat /\ Cardinality(Callers) \in Nat
  BY <1>1, FS_Subset, FS_CardinalityType
<1> QED BY <1>2 DEF AttemptsAddUp

\* A descent passes the one telemetry policy or none.
LEMMA CountDescent ==
    ASSUME Built, open \in Nat, NEW from \in 1..Operation, NEW i \in from..Operation,
           i = Operation \/ stack[i] # "telemetry", NEW new, new = i \/ new = i - 1,
           open' = open + Cardinality({j \in from..i : LayerIs(j, "telemetry")})
    PROVE  Counted(from - 1, new)
<1> DEFINE Passes == {j \in from..i : LayerIs(j, "telemetry")}
<1>1. /\ from \in Nat /\ i \in Nat /\ from >= 1 /\ i >= from
      /\ \A j \in from..i : j < Operation => j \in Layers
  BY LayerFacts DEF Layers
<1>2. CASE Passes = {}
  <2>1. open' = open
    BY <1>2, FS_EmptySet
  <2>2. ASSUME NEW j \in Layers, stack[j] = "telemetry"
        PROVE  j <= from - 1 <=> j <= new
    <3>1. j \in Nat /\ j < Operation
      BY LayerFacts
    <3>2. CASE j <= from - 1  BY <1>1, <3>1, <3>2
    <3>3. CASE j > i  BY <1>1, <3>1, <3>3
    <3>4. CASE j \in from..i
      <4>1. j \in Passes
        BY <2>2, <3>1, <3>4 DEF LayerIs
      <4> QED BY <1>2, <4>1
    <3> QED BY <1>1, <3>1, <3>2, <3>3, <3>4
  <2> QED BY <2>1, <2>2 DEF Counted, Inside
<1>3. CASE Passes # {}
  <2>1. PICK t \in from..i : LayerIs(t, "telemetry")
    BY <1>3
  <2>2. t \in Layers /\ stack[t] = "telemetry" /\ t <= i - 1 /\ t \in Nat
    BY <1>1, <2>1 DEF LayerIs
  <2>3. \A j \in Layers : stack[j] = "telemetry" => j = t
    BY <2>2, LayerFacts
  <2>4. Passes = {t}
    BY <1>1, <2>1, <2>3 DEF LayerIs
  <2>5. open' = open + 1
    BY <2>4, FS_Singleton
  <2>6. Inside(new)
    BY <1>1, <2>2 DEF Inside
  <2>7. ~Inside(from - 1)
    BY <1>1, <2>1, <2>2, <2>3 DEF Inside
  <2> QED BY <2>5, <2>6, <2>7 DEF Counted
<1> QED BY <1>2, <1>3

LEMMA FreshKept == ASSUME Fresh, UNCHANGED <<stack, entry>> PROVE Fresh'
BY DEF Fresh, Layers

\* Where a descent ends: what the layer answers, or what it waits for.
LEMMA ArriveFine ==
    ASSUME Inv, NEW c \in Callers, NEW i \in 1..Operation, NEW aborted, NEW causes,
           "factory" \notin causes, Arrive(c, i, aborted, causes)
    PROVE  \E new, place, got, more :
              /\ Goto(c, new, place, got) /\ Fine(new, place, got, more)
              /\ why' = [why EXCEPT ![c] = more]
              /\ new = i \/ new = i - 1
              /\ i = Operation \/ stack[i] # "telemetry"
              /\ \/ UNCHANGED deaf /\ (new = i => i = Operation \/ stack[i] = "chaos")
                 \/ /\ stack[i] = "cache" /\ i \in Layers
                    /\ deaf' = IF aborted THEN deaf \cup {c} ELSE deaf \ {c}
<1>1. Built /\ i \in Nat /\ i # 0 /\ i \in 0..Operation /\ (i < Operation <=> i \in Layers)
  BY LayerFacts DEF Inv, Layers
<1>2. Nothing \in Results \cup Errors \cup {Nothing}
      /\ "aborted" \in Errors /\ "error" \in Errors
  BY DEF Errors
<1>3. CASE i = Operation /\ Goto(c, i, "fn", Nothing) /\ why' = [why EXCEPT ![c] = causes]
           /\ UNCHANGED deaf
  <2>1. Placed(i, "fn", Nothing)
    BY <1>1, <1>2, <1>3, PlaceFacts DEF Placed, Asking
  <2>2. Fine(i, "fn", Nothing, causes)
    BY <2>1, Unanswered DEF Asking
  <2> QED BY <1>3, <2>2
<1>4. CASE LayerIs(i, "fallback") /\ Answers(c, i, "aborted")
           /\ why' = [why EXCEPT ![c] = causes \cup {"aborted"}] /\ UNCHANGED deaf
  <2>1. Placed(i - 1, Up(i), "aborted") /\ Up(i) \in {"inner", "call"}
    BY <1>1, <1>2, UpPlaced DEF Up
  <2>2. Fine(i - 1, Up(i), "aborted", causes \cup {"aborted"})
    BY <2>1 DEF Fine, DefaultFine, BadFine, ErrorFine, AskFine, FactoryFine
  <2>3. Goto(c, i - 1, Up(i), "aborted") /\ stack[i] # "telemetry" /\ i - 1 # i
    BY <1>1, <1>4 DEF Answers, Up, LayerIs
  <2> QED BY <1>4, <2>2, <2>3
<1>5. CASE LayerIs(i, "cache") /\ Goto(c, i, "get", Nothing)
           /\ deaf' = (IF aborted THEN deaf \cup {c} ELSE deaf \ {c})
           /\ why' = [why EXCEPT ![c] = causes]
  <2>1. stack[i] = "cache" /\ i \in Layers /\ i # Operation
    BY <1>1, <1>5 DEF LayerIs
  <2>2. Placed(i, "get", Nothing)
    BY <1>1, <1>2, <2>1, PlaceFacts DEF Placed, Asking
  <2>3. Fine(i, "get", Nothing, causes)
    BY <2>2, Unanswered DEF Asking
  <2> QED BY <1>5, <2>1, <2>3
<1>6. CASE LayerIs(i, "cache") /\ Answers(c, i, "error")
           /\ why' = [why EXCEPT ![c] = causes \cup {"no key"}] /\ UNCHANGED deaf
  <2>1. stack[i] = "cache" /\ i \in Layers
    BY <1>1, <1>6 DEF LayerIs
  <2>2. Placed(i - 1, Up(i), "error") /\ Up(i) \in {"inner", "call"}
    BY <1>1, <1>2, UpPlaced DEF Up
  <2>3. Covered("cache", i - 1)
    <3>1. ASSUME NEW j \in Layers, NEW k \in Layers, stack[k] = "cache", j < k
          PROVE  j <= i - 1
      BY <1>1, <2>1, <3>1, LayerFacts
    <3> QED BY <3>1 DEF Covered
  <2>4. Fine(i - 1, Up(i), "error", causes \cup {"no key"})
    BY <2>2, <2>3 DEF Fine, DefaultFine, BadFine, ErrorFine, AskFine, FactoryFine
  <2>5. Goto(c, i - 1, Up(i), "error")
    BY <1>6 DEF Answers, Up
  <2>6. stack[i] # "telemetry" /\ i - 1 # i
    BY <1>1, <2>1
  <2> QED BY <1>6, <2>4, <2>5, <2>6
<1>7. CASE LayerIs(i, "chaos") /\ Goto(c, i, "latency", Nothing)
           /\ why' = [why EXCEPT ![c] = causes] /\ UNCHANGED deaf
  <2>1. stack[i] = "chaos" /\ i # Operation
    BY <1>1, <1>7 DEF LayerIs
  <2>2. Placed(i, "latency", Nothing)
    BY <1>1, <1>2, <2>1, PlaceFacts DEF Placed, Asking
  <2>3. Fine(i, "latency", Nothing, causes)
    BY <2>2, Unanswered DEF Asking
  <2> QED BY <1>7, <2>1, <2>3
<1> QED BY <1>3, <1>4, <1>5, <1>6, <1>7 DEF Arrive

\* A descent from the top, or from below the cache after a miss.
LEMMA DescendStep ==
    ASSUME Inv, UNCHANGED <<policies, stack, entry>>, Len(stack) = Len(policies),
           NEW c \in Callers, NEW from \in 1..Operation, NEW aborted, NEW causes,
           at[c] = from - 1, from = 1 \/ stack[from - 1] = "cache",
           "factory" \notin causes, cancelled' \subseteq Callers,
           Descend(c, from, aborted, causes)
    PROVE  Inv'
<1>1. PICK i \in from..Operation :
          /\ \A j \in from..(i - 1) : ~Stops(j, aborted)
          /\ Arrive(c, i, aborted, causes)
          /\ open' = open + Cardinality({j \in from..i : LayerIs(j, "telemetry")})
  BY DEF Descend
<1>2. Built /\ from \in Nat /\ from >= 1 /\ i \in Nat /\ i >= from /\ i \in 1..Operation
  BY LayerFacts DEF Inv
<1>3. PICK new, place, got, more :
              /\ Goto(c, new, place, got) /\ Fine(new, place, got, more)
              /\ why' = [why EXCEPT ![c] = more]
              /\ new = i \/ new = i - 1
              /\ i = Operation \/ stack[i] # "telemetry"
              /\ \/ UNCHANGED deaf /\ (new = i => i = Operation \/ stack[i] = "chaos")
                 \/ /\ stack[i] = "cache" /\ i \in Layers
                    /\ deaf' = IF aborted THEN deaf \cup {c} ELSE deaf \ {c}
  BY <1>1, <1>2, ArriveFine
<1>4. Counted(at[c], new)
  BY <1>1, <1>2, <1>3, OpenIsCount, PipelineAssumption, FS_CardinalityType, CountDescent DEF Inv
<1>5. /\ deaf' \subseteq Callers
      /\ \A d \in Callers \ {c} : d \in deaf' <=> d \in deaf
  BY <1>3 DEF Inv, Functions
<1>6. Heard(new, c \in deaf')
  <2> SUFFICES ASSUME NEW j \in Layers, NEW k \in Layers, c \in deaf',
                      stack[j] = "fallback", stack[k] = "cache", j < k, new >= k
               PROVE  FALSE
    <3>1. new \in Nat
      BY <1>2, <1>3
    <3> QED BY <3>1, LayerFacts, <1>2 DEF Heard
  <2>1. j \in Nat /\ k \in Nat /\ k < Operation /\ j < Operation
    BY <1>2, LayerFacts
  <2>2. k >= from => k = i
    BY <1>1, <1>2, <1>3, <2>1 DEF Stops, LayerIs
  <2>3. CASE k < from
    <3>1. from # 1 /\ from - 1 \in Layers /\ stack[from - 1] = "cache"
      BY <1>2, <2>1, <2>3, LayerFacts DEF Layers
    <3>2. k = from - 1
      BY <1>2, <3>1, LayerFacts
    <3>3. i # k /\ (i \in Layers => stack[i] # "cache")
      BY <1>2, <2>1, <2>3, LayerFacts
    <3>4. deaf' = deaf
      BY <1>3, <3>3
    <3>5. Heard(at[c], c \in deaf) /\ at[c] = k
      BY <3>2 DEF Inv
    <3> QED BY <2>1, <3>4, <3>5 DEF Heard
  <2>4. CASE k >= from
    <3>1. k = i /\ new = i
      BY <1>2, <1>3, <2>1, <2>2, <2>4
    <3>2. deaf' = IF aborted THEN deaf \cup {c} ELSE deaf \ {c}
      BY <1>3, <2>1, <3>1
    <3>3. aborted
      BY <3>2
    <3>4. j \notin from..(i - 1)
      BY <1>1, <2>1, <3>3 DEF Stops, LayerIs
    <3>5. j < from
      BY <1>2, <2>1, <3>1, <3>4
    <3>6. from # 1 /\ from - 1 \in Layers /\ stack[from - 1] = "cache"
      BY <1>2, <2>1, <3>5, LayerFacts DEF Layers
    <3> QED BY <1>2, <2>1, <2>4, <3>6, LayerFacts
  <2> QED BY <1>2, <2>1, <2>3, <2>4
<1>7. Fresh'
  BY FreshKept DEF Inv
<1> QED BY <1>3, <1>4, <1>5, <1>6, <1>7, Moved
-----------------------------------------------------------------------------
\* A call that awaits something inside the finished pipeline.
LEMMA Busy ==
    ASSUME Inv, NEW c \in Callers, await[c] # "call"
    PROVE  /\ Built /\ Len(stack) = Len(policies)
           /\ at[c] \in 1..Operation
           /\ await[c] # "fn" => at[c] \in Layers
           /\ await[c] = "fn" => at[c] = Operation
           /\ await[c] \in {"get", "got", "set"} => stack[at[c]] = "cache"
           /\ await[c] = "latency" => stack[at[c]] = "chaos"
           /\ await[c] \in Asking => stack[at[c]] = "fallback"
           /\ Fine(at[c], await[c], answer[c], why[c])
           /\ answer[c] \in Results \cup Errors \cup {Nothing}
<1>1. Built /\ Fine(at[c], await[c], answer[c], why[c])
  BY DEF Inv
<1>2. Len(stack) = Len(policies)
  BY <1>1, Arguments, LayerFacts DEF Built
<1>3. Placed(at[c], await[c], answer[c])
  BY <1>1 DEF Fine
<1>4. at[c] \in 1..Operation /\ (at[c] # Operation => at[c] \in Layers)
  BY <1>1, <1>3, LayerFacts DEF Placed, Layers
<1> QED BY <1>1, <1>2, <1>3, <1>4 DEF Placed

\* The layer answers, and the layer above hears it.
LEMMA UpStep ==
    ASSUME Inv, UNCHANGED <<policies, stack, open, cancelled, deaf>>,
           NEW c \in Callers, await[c] # "call",
           await[c] = "fn" \/ stack[at[c]] # "telemetry",
           NEW got, NEW causes, Answers(c, at[c], got),
           why' = [why EXCEPT ![c] = causes],
           Fine(at[c] - 1, Up(at[c]), got, causes), Fresh'
    PROVE  Inv'
<1>1. /\ Built /\ Len(stack) = Len(policies) /\ at[c] \in 1..Operation
      /\ at[c] = Operation \/ stack[at[c]] # "telemetry"
  BY Busy
<1>2. Counted(at[c], at[c] - 1)
  BY <1>1, NotTelemetry DEF Counted
<1>3. Goto(c, at[c] - 1, Up(at[c]), got)
  BY DEF Answers, Up
<1>4. Heard(at[c] - 1, c \in deaf')
  <2>1. Heard(at[c], c \in deaf) /\ at[c] \in Nat /\ (c \in deaf' <=> c \in deaf)
    BY <1>1, LayerFacts DEF Inv
  <2>2. \A k \in Layers : at[c] < k => at[c] - 1 < k
    BY <2>1, <1>1, LayerFacts
  <2> QED BY <2>1, <2>2 DEF Heard
<1>5. deaf' \subseteq Callers /\ cancelled' \subseteq Callers
  BY DEF Inv, Functions
<1> QED BY <1>1, <1>2, <1>3, <1>4, <1>5, Moved

\* The layer goes on to its next await.
LEMMA StayStep ==
    ASSUME Inv, UNCHANGED <<policies, stack, open, cancelled, deaf>>,
           NEW c \in Callers, await[c] # "call",
           NEW place, NEW got, NEW causes, Awaits(c, place, got),
           why' = [why EXCEPT ![c] = causes],
           Fine(at[c], place, got, causes), Fresh'
    PROVE  Inv'
<1>1. Len(stack) = Len(policies) /\ Counted(at[c], at[c]) /\ Goto(c, at[c], place, got)
  BY Busy DEF Counted, Awaits
<1>2. deaf' \subseteq Callers /\ cancelled' \subseteq Callers
  BY DEF Inv, Functions
<1>3. Heard(at[c], c \in deaf')
  <2>1. Heard(at[c], c \in deaf) /\ (c \in deaf' <=> c \in deaf)
    BY DEF Inv
  <2> QED BY <2>1 DEF Heard
<1> QED BY <1>1, <1>2, <1>3, Moved

LEMMA SameWhy ==
    ASSUME Inv, NEW c \in Callers, UNCHANGED why
    PROVE  why' = [why EXCEPT ![c] = why[c]]
BY DEF Inv, Functions

LEMMA CallStep == ASSUME Inv, NEW c \in Callers, Call(c) PROVE Inv'
<1>1. PICK aborted \in {FALSE, faults} :
          /\ cancelled' = IF aborted THEN cancelled \cup {c} ELSE cancelled \ {c}
          /\ Descend(c, 1, aborted, {})
  BY DEF Call
<1>2. /\ UNCHANGED <<policies, stack, entry>> /\ Len(stack) = Len(policies)
      /\ cancelled' \subseteq Callers
  BY <1>1 DEF Call, options, Inv, Functions
<1>3. at[c] = 1 - 1 /\ 1 \in 1..Operation
  BY LayerFacts DEF Call, Inv, Fine, Placed
<1>4. "factory" \notin {}
  OBVIOUS
<1> QED BY <1>1, <1>2, <1>3, <1>4, DescendStep

LEMMA MissStep == ASSUME Inv, NEW c \in Callers, Miss(c) PROVE Inv'
<1>1. /\ UNCHANGED <<policies, stack, entry, cancelled>> /\ await[c] = "got"
      /\ Descend(c, at[c] + 1, c \in cancelled \ deaf, why[c])
  BY DEF Miss, options
<1>2. /\ Len(stack) = Len(policies) /\ at[c] \in Layers /\ stack[at[c]] = "cache" /\ Built
      /\ Fine(at[c], "got", answer[c], why[c])
  BY <1>1, Busy
<1>3. at[c] + 1 \in 1..Operation /\ (at[c] + 1) - 1 = at[c]
  BY <1>2, LayerFacts
<1>4. "factory" \notin why[c]
  BY <1>2 DEF Fine, FactoryFine
<1>5. cancelled' \subseteq Callers
  BY <1>1 DEF Inv, Functions
<1> QED BY <1>1, <1>2, <1>3, <1>4, <1>5, DescendStep

LEMMA FnSettlesStep == ASSUME Inv, NEW c \in Callers, FnSettles(c) PROVE Inv'
<1>1. PICK outcome \in Outcomes : Answers(c, at[c], outcome) /\ Because(c, outcome)
  BY DEF FnSettles, Outcomes
<1>2. UNCHANGED <<policies, stack, entry, open, cancelled, deaf>> /\ await[c] = "fn"
  BY DEF FnSettles, options
<1>3. Built /\ at[c] = Operation /\ at[c] \in 1..Operation /\ Fine(at[c], "fn", answer[c], why[c])
  BY <1>2, Busy
<1> DEFINE causes == why[c] \cup ({outcome} \ {"value", Nothing})
<1>4. why' = [why EXCEPT ![c] = causes]
  BY <1>1 DEF Because
<1>5. Fine(at[c] - 1, Up(at[c]), outcome, causes)
  <2>1. Placed(at[c] - 1, Up(at[c]), outcome)
    BY <1>3, AnswerFacts, UpPlaced
  <2>2. NoneInside("fallback", at[c] - 1)
    BY <1>3, LayerFacts DEF NoneInside
  <2>3. "factory" \notin causes
    BY <1>3 DEF Fine, FactoryFine, Outcomes, Nothing
  <2>4. outcome \in {"value", "bad", "nothing", "error", "fatal"} /\ Up(at[c]) \in {"inner", "call"}
    BY DEF Outcomes, Nothing, Up
  <2>5. outcome \in {"bad", "error", "fatal"} => outcome \in causes
    BY DEF Nothing
  <2>6. DefaultFine(at[c] - 1, Up(at[c]), outcome, causes)
    BY <2>4 DEF DefaultFine
  <2>7. BadFine(at[c] - 1, Up(at[c]), outcome, causes)
    BY <2>2, <2>5 DEF BadFine
  <2>8. ErrorFine(at[c] - 1, Up(at[c]), outcome, causes)
    BY <2>2, <2>4, <2>5 DEF ErrorFine, Errors
  <2>9. AskFine(Up(at[c]), causes) /\ FactoryFine(at[c] - 1, Up(at[c]), causes)
    BY <2>3, <2>4 DEF AskFine, FactoryFine
  <2> QED BY <2>1, <2>6, <2>7, <2>8, <2>9 DEF Fine
<1>6. Fresh'
  BY <1>2, FreshKept DEF Inv
<1> HIDE DEF causes
<1> QED BY <1>1, <1>2, <1>4, <1>5, <1>6, UpStep

\* An error that comes from the cache or from chaos itself.
LEMMA OwnError ==
    ASSUME Built, NEW i \in Layers, NEW old, NEW cause,
           "factory" \notin old,
           \/ stack[i] = "cache" /\ cause = "provider"
           \/ stack[i] = "chaos" /\ cause = "chaos"
    PROVE  Fine(i - 1, Up(i), "error", old \cup ({cause} \ {"value", Nothing}))
<1> DEFINE causes == old \cup ({cause} \ {"value", Nothing})
<1>1. cause \in causes /\ "factory" \notin causes
  BY DEF Nothing
<1>2. i \in 1..Operation
  BY LayerFacts DEF Layers
<1>3. Placed(i - 1, Up(i), "error") /\ Up(i) \in {"inner", "call"}
  BY <1>2, UpPlaced DEF Errors, Up
<1>4. Covered(stack[i], i - 1)
  <2>1. ASSUME NEW j \in Layers, NEW k \in Layers, stack[k] = stack[i], j < k
        PROVE  j <= i - 1
    BY <2>1, LayerFacts
  <2> QED BY <2>1 DEF Covered
<1>5. ErrorFine(i - 1, Up(i), "error", causes)
  BY <1>1, <1>3, <1>4 DEF ErrorFine
<1>6. /\ DefaultFine(i - 1, Up(i), "error", causes) /\ BadFine(i - 1, Up(i), "error", causes)
      /\ AskFine(Up(i), causes) /\ FactoryFine(i - 1, Up(i), causes)
  BY <1>1, <1>3 DEF DefaultFine, BadFine, AskFine, FactoryFine
<1> QED BY <1>3, <1>5, <1>6 DEF Fine

LEMMA NoFactoryYet ==
    ASSUME NEW i, NEW place, NEW got, NEW causes, Fine(i, place, got, causes),
           place \in {"fn", "get", "got", "latency", "fallback for result"}
    PROVE  "factory" \notin causes
BY DEF Fine, FactoryFine

LEMMA ChaosThrowsStep == ASSUME Inv, NEW c \in Callers, ChaosThrows(c) PROVE Inv'
<1>1. /\ Answers(c, at[c], "error") /\ await[c] = "latency"
      /\ why' = [why EXCEPT ![c] = why[c] \cup ({"chaos"} \ {"value", Nothing})]
      /\ UNCHANGED <<policies, stack, entry, open, cancelled, deaf>>
  BY DEF ChaosThrows, Because, options
<1>2. Built /\ at[c] \in Layers /\ stack[at[c]] = "chaos" /\ "factory" \notin why[c]
  BY <1>1, Busy, NoFactoryYet
<1>3. Fine(at[c] - 1, Up(at[c]), "error", why[c] \cup ({"chaos"} \ {"value", Nothing}))
  BY <1>2, OwnError
<1>4. Fresh'
  BY <1>1, FreshKept DEF Inv
<1> QED BY <1>1, <1>2, <1>3, <1>4, UpStep

LEMMA LookupFailsStep == ASSUME Inv, NEW c \in Callers, LookupFails(c) PROVE Inv'
<1>1. /\ Answers(c, at[c], "error") /\ await[c] = "get"
      /\ why' = [why EXCEPT ![c] = why[c] \cup ({"provider"} \ {"value", Nothing})]
      /\ UNCHANGED <<policies, stack, entry, open, cancelled, deaf>>
  BY DEF LookupFails, Because, options
<1>2. Built /\ at[c] \in Layers /\ stack[at[c]] = "cache" /\ "factory" \notin why[c]
  BY <1>1, Busy, NoFactoryYet
<1>3. Fine(at[c] - 1, Up(at[c]), "error", why[c] \cup ({"provider"} \ {"value", Nothing}))
  BY <1>2, OwnError
<1>4. Fresh'
  BY <1>1, FreshKept DEF Inv
<1> QED BY <1>1, <1>2, <1>3, <1>4, UpStep

LEMMA EmptyEntry == NoEntry \in Entries /\ NoEntry.value = Nothing
BY AnswerFacts DEF NoEntry, Entries

\* An entry without a value, or the same value with less time left.
LEMMA FreshEntry ==
    ASSUME Fresh, UNCHANGED stack, entry' \in Entries,
           entry'.value = entry.value \/ entry'.value = Nothing
    PROVE  Fresh'
<1>1. Nothing \notin Errors /\ Nothing # "default" /\ Nothing # "bad"
  BY DEF Errors, Nothing
<1> QED BY <1>1 DEF Fresh, Layers

LEMMA LookupStep == ASSUME Inv, NEW c \in Callers, Lookup(c) PROVE Inv'
<1>1. /\ await[c] = "get" /\ entry' = Get(entry) /\ Awaits(c, "got", entry'.value)
      /\ UNCHANGED <<policies, stack, open, cancelled, deaf, why>>
  BY DEF Lookup, options
<1>2. /\ Built /\ at[c] \in Layers /\ stack[at[c]] = "cache" /\ "factory" \notin why[c]
      /\ Placed(at[c], "get", answer[c])
  BY <1>1, Busy, NoFactoryYet DEF Fine
<1>3. entry' \in Entries /\ (entry'.value = entry.value \/ entry'.value = Nothing)
  BY <1>1, EmptyEntry DEF Get, Inv, Fresh
<1>4. Fresh'
  BY <1>1, <1>3, FreshEntry DEF Inv
<1>5. Fresh /\ entry'.value \in Results \cup {Nothing} /\ entry'.value \notin Errors
  BY <1>3, <1>4 DEF Inv, Fresh, Entries
<1>6. Placed(at[c], "got", entry'.value)
  BY <1>2, <1>5, PlaceFacts DEF Placed, Asking
<1>7. DefaultFine(at[c], "got", entry'.value, why[c])
  <2> SUFFICES ASSUME entry'.value = "default"
               PROVE  \E j \in Layers : stack[j] = "fallback" /\ j > at[c]
    BY DEF DefaultFine
  <2>1. PICK j \in Layers, k \in Layers : stack[j] = "cache" /\ stack[k] = "fallback" /\ j < k
    BY <1>3, <1>5 DEF Fresh, Nothing
  <2>2. j = at[c]
    BY <1>2, <2>1, LayerFacts
  <2> QED BY <2>1, <2>2, LayerFacts, <1>2
<1>8. BadFine(at[c], "got", entry'.value, why[c])
  <2> SUFFICES ASSUME entry'.value = "bad" PROVE NoneInside("fallback", at[c])
    BY DEF BadFine
  <2>1. ASSUME NEW k \in Layers, stack[k] = "fallback" PROVE k < at[c]
    BY <1>2, <1>3, <1>5, <2>1 DEF Fresh, Nothing
  <2> QED BY <1>2, <2>1, LayerFacts DEF NoneInside
<1>9. /\ ErrorFine(at[c], "got", entry'.value, why[c])
      /\ AskFine("got", why[c]) /\ FactoryFine(at[c], "got", why[c])
  BY <1>2, <1>5 DEF ErrorFine, AskFine, FactoryFine, Errors
<1>10. Fine(at[c], "got", entry'.value, why[c])
  BY <1>6, <1>7, <1>8, <1>9 DEF Fine
<1> QED BY <1>1, <1>4, <1>10, SameWhy, StayStep

LEMMA HitStep == ASSUME Inv, NEW c \in Callers, Hit(c) PROVE Inv'
<1>1. /\ Answers(c, at[c], answer[c]) /\ await[c] = "got" /\ answer[c] # Nothing
      /\ why' = [why EXCEPT ![c] = why[c] \cup ({answer[c]} \ {"value", Nothing})]
      /\ UNCHANGED <<policies, stack, entry, open, cancelled, deaf>>
  BY DEF Hit, Because, options
<1> DEFINE causes == why[c] \cup ({answer[c]} \ {"value", Nothing})
<1>2. /\ Built /\ at[c] \in Layers /\ stack[at[c]] = "cache" /\ "factory" \notin why[c]
      /\ Fine(at[c], "got", answer[c], why[c]) /\ at[c] \in 1..Operation
      /\ answer[c] \in Results \cup Errors \cup {Nothing}
  BY <1>1, Busy, NoFactoryYet
<1>3. answer[c] \in {"value", "bad", "default"} /\ answer[c] \notin Errors
  BY <1>1, <1>2, AnswerFacts DEF Fine, ErrorFine
<1>4. "factory" \notin causes /\ (answer[c] # "value" => answer[c] \in causes)
  BY <1>2, <1>3 DEF Nothing
<1>5. \A j \in Layers : (j > at[c] => j > at[c] - 1)
                       /\ (stack[j] = "fallback" /\ j <= at[c] => j <= at[c] - 1)
  BY <1>2, LayerFacts
<1>6. Placed(at[c] - 1, Up(at[c]), answer[c]) /\ Up(at[c]) \in {"inner", "call"}
  BY <1>2, UpPlaced DEF Up
<1>7. DefaultFine(at[c] - 1, Up(at[c]), answer[c], causes)
  BY <1>2, <1>4, <1>5 DEF Fine, DefaultFine
<1>8. BadFine(at[c] - 1, Up(at[c]), answer[c], causes)
  BY <1>2, <1>4, <1>5 DEF Fine, BadFine, NoneInside
<1>9. /\ ErrorFine(at[c] - 1, Up(at[c]), answer[c], causes)
      /\ AskFine(Up(at[c]), causes) /\ FactoryFine(at[c] - 1, Up(at[c]), causes)
  BY <1>3, <1>4, <1>6 DEF ErrorFine, AskFine, FactoryFine, Errors
<1>10. Fine(at[c] - 1, Up(at[c]), answer[c], causes)
  BY <1>6, <1>7, <1>8, <1>9 DEF Fine
<1>11. Fresh'
  BY <1>1, FreshKept DEF Inv
<1> HIDE DEF causes
<1>12. why' = [why EXCEPT ![c] = causes]
  BY <1>1 DEF causes
<1> QED BY <1>1, <1>2, <1>10, <1>11, <1>12, UpStep

LEMMA CacheContinuesStep == ASSUME Inv, NEW c \in Callers, CacheContinues(c) PROVE Inv'
<1>1. /\ await[c] = "inner" /\ stack[at[c]] = "cache"
      /\ IF answer[c] \in Errors THEN Answers(c, at[c], answer[c]) ELSE Awaits(c, "set", answer[c])
      /\ UNCHANGED <<policies, stack, entry, open, cancelled, deaf, why>>
  BY DEF CacheContinues, options, Layer
<1>2. Built /\ at[c] \in Layers /\ Fine(at[c], "inner", answer[c], why[c])
  BY <1>1, Busy
<1>3. Fresh'
  BY <1>1, FreshKept DEF Inv
<1>4. CASE answer[c] \in Errors
  <2>1. Fine(at[c] - 1, Up(at[c]), answer[c], why[c])
    BY <1>1, <1>2, Passed
  <2> QED BY <1>1, <1>3, <1>4, <2>1, SameWhy, UpStep
<1>5. CASE answer[c] \notin Errors
  <2>1. Placed(at[c], "set", answer[c])
    BY <1>1, <1>2, PlaceFacts DEF Fine, Placed, Asking
  <2>2. Fine(at[c], "set", answer[c], why[c])
    BY <1>2, <1>5, <2>1
       DEF Fine, DefaultFine, BadFine, ErrorFine, AskFine, FactoryFine, Errors
  <2> QED BY <1>1, <1>3, <1>5, <2>2, SameWhy, StayStep
<1> QED BY <1>4, <1>5

\* What the cache stores has come from inside it.
LEMMA SetFresh ==
    ASSUME Inv, NEW c \in Callers, await[c] = "set", entry' = Set(answer[c]), UNCHANGED stack
    PROVE  Fresh'
<1>1. /\ Built /\ at[c] \in Layers /\ stack[at[c]] = "cache"
      /\ Fine(at[c], "set", answer[c], why[c])
      /\ answer[c] \in Results \cup Errors \cup {Nothing}
  BY Busy
<1>2. answer[c] \in Results \cup {Nothing} /\ answer[c] \notin Errors
  BY <1>1 DEF Fine, ErrorFine
<1>3. entry' = [value |-> answer[c], left |-> Ttl]
  BY DEF Set
<1>4. Ttl \in -1..Ttl
  BY AnswerFacts
<1>5. entry' \in Entries /\ entry'.value = answer[c]
  BY <1>2, <1>3, <1>4 DEF Entries
<1>6. ASSUME answer[c] = "default"
      PROVE  \E j, k \in Layers : stack[j] = "cache" /\ stack[k] = "fallback" /\ j < k
  BY <1>1, <1>6 DEF Fine, DefaultFine
<1>7. ASSUME answer[c] = "bad", NEW j \in Layers, NEW k \in Layers,
             stack[j] = "cache", stack[k] = "fallback"
      PROVE  k < j
  <2>1. j = at[c] /\ k # at[c]
    BY <1>1, <1>7, LayerFacts
  <2>2. k <= at[c]
    BY <1>1, <1>7 DEF Fine, BadFine, NoneInside
  <2> QED BY <2>1, <2>2, <1>1, LayerFacts
<1> QED BY <1>2, <1>5, <1>6, <1>7 DEF Fresh, Layers

LEMMA StoreStep == ASSUME Inv, NEW c \in Callers, Store(c) PROVE Inv'
<1>1. /\ await[c] = "set" /\ entry' = Set(answer[c]) /\ Answers(c, at[c], answer[c])
      /\ UNCHANGED <<policies, stack, open, cancelled, deaf, why>>
  BY DEF Store, options
<1>2. /\ Built /\ at[c] \in Layers /\ stack[at[c]] = "cache"
      /\ Fine(at[c], "set", answer[c], why[c])
  BY <1>1, Busy
<1>3. Fresh'
  BY <1>1, SetFresh
<1>4. Fine(at[c] - 1, Up(at[c]), answer[c], why[c])
  BY <1>2, Passed
<1> QED BY <1>1, <1>2, <1>3, <1>4, SameWhy, UpStep

LEMMA StoreFailsStep == ASSUME Inv, NEW c \in Callers, StoreFails(c) PROVE Inv'
<1>1. /\ await[c] = "set" /\ (entry' = entry \/ entry' = Set(answer[c]))
      /\ Answers(c, at[c], "error")
      /\ why' = [why EXCEPT ![c] = why[c] \cup ({"provider"} \ {"value", Nothing})]
      /\ UNCHANGED <<policies, stack, open, cancelled, deaf>>
  BY DEF StoreFails, Because, options
<1>2. /\ Built /\ at[c] \in Layers /\ at[c] \in 1..Operation /\ stack[at[c]] = "cache"
      /\ Fine(at[c], "set", answer[c], why[c])
  BY <1>1, Busy
<1>3. Fresh'
  BY <1>1, SetFresh, FreshKept DEF Inv
<1> DEFINE causes == why[c] \cup ({"provider"} \ {"value", Nothing})
<1>4. Fine(at[c] - 1, Up(at[c]), "error", causes)
  <2>1. CASE "factory" \notin why[c]
    BY <1>2, <2>1, OwnError
  <2>2. CASE "factory" \in why[c]
    <3>1. \A j \in Layers : stack[j] = "fallback" => j > at[c]
      BY <1>2, <2>2 DEF Fine, FactoryFine
    <3>2. \A j \in Layers : stack[j] = "fallback" => j > at[c] - 1
      BY <1>2, <3>1, LayerFacts
    <3>3. Placed(at[c] - 1, Up(at[c]), "error") /\ Up(at[c]) \in {"inner", "call"}
      BY <1>2, UpPlaced DEF Errors, Up
    <3>4. "factory" \in causes
      BY <2>2
    <3> QED BY <3>2, <3>3, <3>4
            DEF Fine, DefaultFine, BadFine, ErrorFine, AskFine, FactoryFine
  <2> QED BY <2>1, <2>2
<1> HIDE DEF causes
<1>5. why' = [why EXCEPT ![c] = causes]
  BY <1>1 DEF causes
<1> QED BY <1>1, <1>2, <1>3, <1>4, <1>5, UpStep

LEMMA FallbackContinuesStep == ASSUME Inv, NEW c \in Callers, FallbackContinues(c) PROVE Inv'
<1>1. /\ await[c] = "inner" /\ stack[at[c]] = "fallback"
      /\ UNCHANGED <<policies, stack, entry, open, cancelled, deaf, why>>
  BY DEF FallbackContinues, options, Layer
<1>2. /\ Built /\ at[c] \in Layers /\ at[c] \in 1..Operation
      /\ Fine(at[c], "inner", answer[c], why[c])
  BY <1>1, Busy
<1>3. Fresh'
  BY <1>1, FreshKept DEF Inv
<1>4. "factory" \notin why[c]
  BY <1>1, <1>2, LayerFacts DEF Fine, FactoryFine
<1>5. ASSUME NEW place \in Asking PROVE Placed(at[c], place, Nothing)
  <2>1. place \in Places /\ place \notin {"get", "got", "set", "latency", "call", "fn"}
    BY PlaceFacts DEF Asking
  <2> QED BY <1>1, <1>2, <2>1 DEF Fine, Placed
<1>6. CASE answer[c] = "bad" /\ Awaits(c, "fallback for result", Nothing)
  <2>1. "bad" \in why[c]
    BY <1>2, <1>6 DEF Fine, BadFine
  <2>2. Fine(at[c], "fallback for result", Nothing, why[c])
    BY <1>4, <1>5, <2>1
       DEF Fine, DefaultFine, BadFine, ErrorFine, AskFine, FactoryFine, Asking, Errors, Nothing
  <2> QED BY <1>1, <1>3, <1>6, <2>2, SameWhy, StayStep
<1>7. CASE answer[c] \in {"error", "aborted"} /\ Awaits(c, "fallback for error", Nothing)
  <2>1. \E cause \in Handling : cause \in why[c]
    BY <1>2, <1>4, <1>7 DEF Fine, ErrorFine, Handling
  <2>2. Fine(at[c], "fallback for error", Nothing, why[c])
    BY <1>4, <1>5, <2>1
       DEF Fine, DefaultFine, BadFine, ErrorFine, AskFine, FactoryFine, Asking, Errors, Nothing
  <2> QED BY <1>1, <1>3, <1>7, <2>2, SameWhy, StayStep
<1>8. CASE answer[c] \notin {"bad", "error", "aborted"} /\ Answers(c, at[c], answer[c])
  <2>1. Placed(at[c] - 1, Up(at[c]), answer[c]) /\ Up(at[c]) \in {"inner", "call"}
    BY <1>2, UpPlaced DEF Fine, Placed, Up
  <2>2. \A j \in Layers : j > at[c] => j > at[c] - 1
    BY <1>2, LayerFacts
  <2>3. DefaultFine(at[c] - 1, Up(at[c]), answer[c], why[c])
    BY <1>2, <2>2 DEF Fine, DefaultFine
  <2>4. ErrorFine(at[c] - 1, Up(at[c]), answer[c], why[c])
    BY <1>2, <1>8, <2>1 DEF Fine, ErrorFine, Errors
  <2>5. Fine(at[c] - 1, Up(at[c]), answer[c], why[c])
    BY <1>4, <1>8, <2>1, <2>3, <2>4 DEF Fine, BadFine, AskFine, FactoryFine
  <2> QED BY <1>1, <1>3, <1>8, <2>5, SameWhy, UpStep
<1> QED BY <1>6, <1>7, <1>8 DEF FallbackContinues, Rejected, Handled

\* A call that asks the factory stands at the one fallback.
LEMMA Asks ==
    ASSUME Inv, NEW c \in Callers, await[c] \in Asking
    PROVE  /\ Built /\ at[c] \in Layers /\ at[c] \in 1..Operation /\ stack[at[c]] = "fallback"
           /\ await[c] # "call"
           /\ \A j \in Layers : stack[j] = "fallback" => j > at[c] - 1
           /\ \E cause \in Handling : cause \in why[c]
           /\ Up(at[c]) \in {"inner", "call"}
           /\ await[c] = "fallback for result" => "bad" \in why[c] /\ "factory" \notin why[c]
           /\ Placed(at[c], await[c], answer[c])
<1>1. await[c] # "call" /\ await[c] # "fn"
  BY DEF Asking
<1>2. /\ Built /\ at[c] \in Layers /\ at[c] \in 1..Operation /\ stack[at[c]] = "fallback"
      /\ Fine(at[c], await[c], answer[c], why[c])
  BY <1>1, Busy
<1>3. \A j \in Layers : stack[j] = "fallback" => j > at[c] - 1
  BY <1>2, LayerFacts
<1>4. \E cause \in Handling : cause \in why[c]
  BY <1>2 DEF Fine, AskFine, Asking, Handling
<1>5. await[c] = "fallback for result" => "bad" \in why[c] /\ "factory" \notin why[c]
  BY <1>2, NoFactoryYet DEF Fine, AskFine
<1> QED BY <1>1, <1>2, <1>3, <1>4, <1>5 DEF Up, Fine

LEMMA FactoryReturnsStep == ASSUME Inv, NEW c \in Callers, FactoryReturns(c) PROVE Inv'
<1>1. /\ await[c] \in Asking /\ Answers(c, at[c], "default")
      /\ UNCHANGED <<policies, stack, entry, open, cancelled, deaf, why>>
  BY DEF FactoryReturns, options, Asking
<1>2. Fresh'
  BY <1>1, FreshKept DEF Inv
<1>3. Placed(at[c] - 1, Up(at[c]), "default")
  BY <1>1, Asks, AnswerFacts, UpPlaced
<1>4. DefaultFine(at[c] - 1, Up(at[c]), "default", why[c])
  BY <1>1, Asks DEF DefaultFine
<1>5. /\ BadFine(at[c] - 1, Up(at[c]), "default", why[c])
      /\ ErrorFine(at[c] - 1, Up(at[c]), "default", why[c])
      /\ AskFine(Up(at[c]), why[c])
  BY <1>1, Asks DEF BadFine, ErrorFine, AskFine, Errors
<1>6. FactoryFine(at[c] - 1, Up(at[c]), why[c])
  BY <1>1, Asks DEF FactoryFine
<1>7. Fine(at[c] - 1, Up(at[c]), "default", why[c])
  BY <1>3, <1>4, <1>5, <1>6 DEF Fine
<1>8. await[c] # "call" /\ stack[at[c]] # "telemetry"
  BY <1>1, Asks
<1> QED BY <1>1, <1>2, <1>7, <1>8, SameWhy, UpStep

LEMMA FactoryThrowsStep == ASSUME Inv, NEW c \in Callers, FactoryThrows(c) PROVE Inv'
<1> DEFINE causes == why[c] \cup ({"factory"} \ {"value", Nothing})
<1>1. PICK thrown \in {"error", "fatal"} :
          IF await[c] = "fallback for result" /\ thrown \in Handled
          THEN Awaits(c, "fallback for error", Nothing)
          ELSE Answers(c, at[c], thrown)
  BY DEF FactoryThrows
<1>2. /\ await[c] \in Asking /\ why' = [why EXCEPT ![c] = causes]
      /\ UNCHANGED <<policies, stack, entry, open, cancelled, deaf>>
  BY DEF FactoryThrows, Because, options, Asking
<1>3. Fresh'
  BY <1>2, FreshKept DEF Inv
<1>4. "factory" \in causes /\ (\A cause \in why[c] : cause \in causes)
  BY DEF Nothing
<1>5. CASE await[c] = "fallback for result" /\ Awaits(c, "fallback for error", Nothing)
  <2>1. "bad" \in causes
    BY <1>2, <1>4, <1>5, Asks
  <2>2. Placed(at[c], "fallback for error", Nothing)
    BY <1>2, <1>5, Asks, PlaceFacts DEF Placed, Asking
  <2>3. AskFine("fallback for error", causes) /\ FactoryFine(at[c], "fallback for error", causes)
    BY <2>1 DEF AskFine, FactoryFine, Handling
  <2>4. Fine(at[c], "fallback for error", Nothing, causes)
    BY <2>2, <2>3 DEF Fine, DefaultFine, BadFine, ErrorFine, Errors, Nothing
  <2> HIDE DEF causes
  <2> QED BY <1>2, <1>3, <1>5, <2>4, Asks, StayStep
<1>6. CASE Answers(c, at[c], thrown)
  <2>1. Placed(at[c] - 1, Up(at[c]), thrown)
    BY <1>2, Asks, UpPlaced DEF Errors
  <2>2. ErrorFine(at[c] - 1, Up(at[c]), thrown, causes)
    BY <1>2, <1>4, Asks DEF ErrorFine
  <2>3. /\ DefaultFine(at[c] - 1, Up(at[c]), thrown, causes)
        /\ BadFine(at[c] - 1, Up(at[c]), thrown, causes)
        /\ AskFine(Up(at[c]), causes)
    BY <1>2, Asks DEF DefaultFine, BadFine, AskFine
  <2>4. FactoryFine(at[c] - 1, Up(at[c]), causes)
    BY <1>2, Asks DEF FactoryFine
  <2>5. Fine(at[c] - 1, Up(at[c]), thrown, causes)
    BY <2>1, <2>2, <2>3, <2>4 DEF Fine
  <2>6. await[c] # "call" /\ stack[at[c]] # "telemetry"
    BY <1>2, Asks
  <2> HIDE DEF causes
  <2> QED BY <1>2, <1>3, <1>6, <2>5, <2>6, UpStep
<1> QED BY <1>1, <1>5, <1>6

LEMMA TelemetryContinuesStep == ASSUME Inv, NEW c \in Callers, TelemetryContinues(c) PROVE Inv'
<1>1. /\ await[c] = "inner" /\ stack[at[c]] = "telemetry"
      /\ open' = open - 1 /\ Answers(c, at[c], answer[c])
      /\ UNCHANGED <<policies, stack, entry, cancelled, deaf, why>>
  BY DEF TelemetryContinues, options, Layer
<1>2. /\ Built /\ at[c] \in Layers /\ Len(stack) = Len(policies)
      /\ Fine(at[c], "inner", answer[c], why[c])
  BY <1>1, Busy
<1>3. Fine(at[c] - 1, Up(at[c]), answer[c], why[c])
  BY <1>1, <1>2, Passed
<1>4. Counted(at[c], at[c] - 1)
  <2>1. at[c] \in Nat /\ Inside(at[c])
    BY <1>1, <1>2, LayerFacts DEF Inside
  <2>2. ~Inside(at[c] - 1)
    BY <1>1, <1>2, <2>1, LayerFacts DEF Inside
  <2> QED BY <1>1, <2>1, <2>2 DEF Counted
<1>5. Goto(c, at[c] - 1, Up(at[c]), answer[c])
  BY <1>1 DEF Answers, Up
<1>6. Heard(at[c] - 1, c \in deaf')
  <2>1. Heard(at[c], c \in deaf) /\ at[c] \in Nat /\ (c \in deaf' <=> c \in deaf)
    BY <1>1, <1>2, LayerFacts DEF Inv
  <2>2. \A k \in Layers : at[c] < k => at[c] - 1 < k
    BY <2>1, <1>2, LayerFacts
  <2> QED BY <2>1, <2>2 DEF Heard
<1>7. Fresh' /\ deaf' \subseteq Callers /\ cancelled' \subseteq Callers
  BY <1>1, FreshKept DEF Inv, Functions
<1> QED BY <1>1, <1>2, <1>3, <1>4, <1>5, <1>6, <1>7, SameWhy, Moved

LEMMA ChaosContinuesStep == ASSUME Inv, NEW c \in Callers, ChaosContinues(c) PROVE Inv'
<1>1. /\ await[c] = "inner" /\ stack[at[c]] = "chaos" /\ Answers(c, at[c], answer[c])
      /\ UNCHANGED <<policies, stack, entry, open, cancelled, deaf, why>>
  BY DEF ChaosContinues, options, Layer
<1>2. Built /\ at[c] \in Layers /\ Fine(at[c], "inner", answer[c], why[c])
  BY <1>1, Busy
<1>3. Fine(at[c] - 1, Up(at[c]), answer[c], why[c])
  BY <1>1, <1>2, Passed
<1>4. Fresh'
  BY <1>1, FreshKept DEF Inv
<1> QED BY <1>1, <1>3, <1>4, SameWhy, UpStep
-----------------------------------------------------------------------------
\* Only the provider's entry, the signals or the weather change.
LEMMA Aside ==
    ASSUME Inv, UNCHANGED <<policies, stack, open, at, await, answer, deaf, why>>,
           cancelled' \subseteq Callers, Fresh',
           entry'.value = entry.value \/ entry'.value = Nothing
    PROVE  Inv'
<1>1. Built' /\ Functions'
  BY DEF Inv, Built, Functions, Layers
<1>2. ASSUME NEW c \in Callers
      PROVE  Fine(at[c], await[c], answer[c], why[c])' /\ Heard(at[c], c \in deaf)'
  <2>1. Fine(at'[c], await'[c], answer'[c], why'[c]) /\ Heard(at[c], c \in deaf)
    BY DEF Inv
  <2>2. Fine(at[c], await[c], answer[c], why[c])'
    BY <2>1 DEF Fine, Placed, DefaultFine, BadFine, ErrorFine, AskFine, FactoryFine,
                NoneInside, Covered, Layers, Operation
  <2>3. Heard(at[c], c \in deaf)'
    BY <2>1 DEF Heard, Layers
  <2> QED BY <2>2, <2>3
<1>3. AttemptsAddUp'
  BY DEF Inv, AttemptsAddUp
<1> QED BY <1>1, <1>2, <1>3 DEF Inv

\* An entry's time left.
LEMMA AgedEntry ==
    ASSUME Fresh
    PROVE  Aged(entry) \in Entries /\ Aged(entry).value = entry.value
<1>1. entry \in Entries /\ Ttl \in Nat
  BY AnswerFacts DEF Fresh
<1>2. CASE Ttl > 0 /\ entry.value # Nothing /\ entry.left >= 0
  <2>1. entry.left - 1 \in -1..Ttl
    BY <1>1, <1>2 DEF Entries
  <2>2. Aged(entry) = [entry EXCEPT !.left = entry.left - 1]
    BY <1>2 DEF Aged
  <2> QED BY <1>1, <2>1, <2>2 DEF Entries
<1>3. CASE ~(Ttl > 0 /\ entry.value # Nothing /\ entry.left >= 0)
  <2>1. Aged(entry) = entry
    BY <1>3 DEF Aged
  <2> QED BY <1>1, <2>1
<1> QED BY <1>2, <1>3

\* The next argument goes inside; no call has begun.
LEMMA WrapNextStep == ASSUME Inv, WrapNext PROVE Inv'
<1>1. /\ Len(stack) < Len(policies) /\ stack' = stack \o <<policies[Len(stack) + 1]>>
      /\ UNCHANGED <<policies, entry, open, at, await, answer, cancelled, deaf, why>>
  BY DEF WrapNext, Wrap
<1>2. /\ Built /\ policies \in Pipelines /\ policies \in Seq(Policies) /\ stack \in Seq(Policies)
      /\ Len(stack) \in Nat \ {0} /\ Len(policies) \in Nat
  BY Arguments, LayerFacts DEF Inv, Built
<1>3. policies[Len(stack) + 1] \in Policies
  BY <1>1, <1>2
<1>4. /\ stack' \in Seq(Policies) /\ Len(stack') = Len(stack) + 1
      /\ \A i \in 1..Len(stack) : stack'[i] = stack[i]
      /\ stack'[Len(stack) + 1] = policies[Len(stack) + 1]
  BY <1>1, <1>2, <1>3
<1>5. \A c \in Callers : await[c] = "call" /\ answer[c] = Nothing /\ why[c] = {} /\ at[c] = 0
  <2>1. \A c \in Callers : await[c] = "call" /\ answer[c] = Nothing /\ why[c] = {}
    BY <1>1, <1>2 DEF Built
  <2> QED BY <2>1 DEF Inv, Fine, Placed
<1>6. Built'
  <2>1. entry'.value = Nothing
    BY <1>1, <1>2 DEF Built
  <2>2. ASSUME NEW i \in 1..(Len(stack) + 1)
        PROVE  stack'[i] = policies[i]
    <3>1. CASE i \in 1..Len(stack)
      BY <1>2, <1>4, <3>1 DEF Built, Layers
    <3>2. CASE i = Len(stack) + 1
      BY <1>4, <3>2
    <3> QED BY <1>2, <3>1, <3>2
  <2>3. Len(stack') \in 1..Len(policies)
    BY <1>1, <1>2, <1>4
  <2> QED BY <1>1, <1>2, <1>4, <1>5, <2>1, <2>2, <2>3 DEF Built, Layers
<1>7. Functions'
  BY <1>1 DEF Inv, Functions
<1>8. Fresh'
  <2>1. entry \in Entries /\ entry.value = Nothing
    BY <1>1, <1>2 DEF Inv, Fresh, Built
  <2> QED BY <1>1, <2>1 DEF Fresh, Errors, Nothing
<1>9. ASSUME NEW c \in Callers
      PROVE  Fine(at[c], await[c], answer[c], why[c])' /\ Heard(at[c], c \in deaf)'
  <2>1. at'[c] = 0 /\ await'[c] = "call" /\ answer'[c] = Nothing /\ why'[c] = {}
    BY <1>1, <1>5
  <2>2. /\ 0 \in 0..(Len(stack') + 1) /\ 0 # Len(stack') + 1
        /\ \A k \in 1..Len(stack') : 0 < k
    BY <1>2, <1>4
  <2>3. Placed(at[c], await[c], answer[c])'
    BY <2>1, <2>2, PlaceFacts DEF Placed, Operation, Asking
  <2>4. Fine(at[c], await[c], answer[c], why[c])'
    BY <2>1, <2>3
       DEF Fine, DefaultFine, BadFine, ErrorFine, AskFine, FactoryFine, Errors, Nothing
  <2>5. Heard(at[c], c \in deaf)'
    BY <2>1, <2>2 DEF Heard, Layers
  <2> QED BY <2>4, <2>5
<1>10. AttemptsAddUp'
  <2>1. \A c \in Callers : \A i \in 1..Len(stack) : ~(i <= at[c])
    BY <1>2, <1>5
  <2>2. \A c \in Callers : \A i \in 1..Len(stack') : ~(i <= at'[c])
    BY <1>1, <1>2, <1>4, <1>5
  <2>3. {c \in Callers : \E i \in DOMAIN stack : stack[i] = "telemetry" /\ i <= at[c]} = {}
    BY <1>2, <2>1
  <2>4. {c \in Callers : \E i \in DOMAIN stack' : stack'[i] = "telemetry" /\ i <= at'[c]} = {}
    BY <1>4, <2>2
  <2> QED BY <1>1, <2>3, <2>4 DEF Inv, AttemptsAddUp
<1> QED BY <1>6, <1>7, <1>8, <1>9, <1>10 DEF Inv
-----------------------------------------------------------------------------
LEMMA InitInv == Init => Inv
<1> SUFFICES ASSUME Init PROVE Inv
  OBVIOUS
<1>1. /\ policies \in Pipelines /\ stack = <<policies[1]>> /\ entry = NoEntry /\ open = 0
      /\ at = [c \in Callers |-> 0] /\ await = [c \in Callers |-> "call"]
      /\ answer = [c \in Callers |-> Nothing] /\ why = [c \in Callers |-> {}]
      /\ cancelled = {} /\ deaf = {}
  BY DEF Init
<1>2. /\ policies \in Seq(Policies) /\ Len(policies) \in Nat \ {0} /\ policies[1] \in Policies
      /\ stack \in Seq(Policies) /\ Len(stack) = 1 /\ stack[1] = policies[1]
      /\ DOMAIN stack = 1..1
  BY <1>1, Arguments
<1>3. entry \in Entries /\ entry.value = Nothing
  BY <1>1, EmptyEntry
<1>4. Built
  BY <1>1, <1>2, <1>3 DEF Built, Layers
<1>5. Functions
  BY <1>1, PlaceFacts DEF Functions
<1>6. Fresh
  BY <1>3 DEF Fresh, Errors, Nothing
<1>7. ASSUME NEW c \in Callers
      PROVE  Fine(at[c], await[c], answer[c], why[c]) /\ Heard(at[c], c \in deaf)
  <2>1. at[c] = 0 /\ await[c] = "call" /\ answer[c] = Nothing /\ why[c] = {} /\ c \notin deaf
    BY <1>1
  <2>2. 0 \in 0..Operation /\ 0 # Operation
    BY <1>2 DEF Operation
  <2>3. Placed(0, "call", Nothing)
    BY <2>2, PlaceFacts DEF Placed, Asking
  <2>4. Fine(0, "call", Nothing, {})
    BY <2>3, Unanswered DEF Asking
  <2>5. Heard(at[c], c \in deaf)
    BY <2>1 DEF Heard
  <2> QED BY <2>1, <2>4, <2>5
<1>8. AttemptsAddUp
  <2>1. {c \in Callers : \E i \in DOMAIN stack : stack[i] = "telemetry" /\ i <= at[c]} = {}
    BY <1>1, <1>2
  <2> QED BY <1>1, <2>1, FS_EmptySet DEF AttemptsAddUp
<1> QED BY <1>4, <1>5, <1>6, <1>7, <1>8 DEF Inv

LEMMA NextInv == Inv /\ [Next]_vars => Inv'
<1> SUFFICES ASSUME Inv, [Next]_vars PROVE Inv'
  OBVIOUS
<1>1. ASSUME NEW c \in Callers, Progress(c) PROVE Inv'
  BY <1>1, FnSettlesStep, ChaosThrowsStep, LookupStep, LookupFailsStep, HitStep, MissStep,
     CacheContinuesStep, StoreStep, StoreFailsStep, FallbackContinuesStep, FactoryReturnsStep,
     FactoryThrowsStep, TelemetryContinuesStep, ChaosContinuesStep DEF Progress
<1>2. ASSUME NEW c \in Callers, Cancel(c) PROVE Inv'
  <2>1. cancelled' \subseteq Callers
    BY <1>2 DEF Cancel, Inv, Functions
  <2>2. UNCHANGED <<policies, stack, entry, open, at, await, answer, deaf, why>>
    BY <1>2 DEF Cancel, options
  <2> QED BY <2>1, <2>2, FreshKept, Aside DEF Inv
<1>3. CASE TimePasses \/ Delete
  <2>1. /\ UNCHANGED <<policies, stack, open, at, await, answer, cancelled, deaf, why>>
        /\ entry' = Aged(entry) \/ entry' = NoEntry
    BY <1>3 DEF TimePasses, Delete, options
  <2>2. entry' \in Entries /\ (entry'.value = entry.value \/ entry'.value = Nothing)
    BY <2>1, AgedEntry, EmptyEntry DEF Inv
  <2>3. Fresh' /\ cancelled' \subseteq Callers
    BY <2>1, <2>2, FreshEntry DEF Inv, Functions
  <2> QED BY <2>1, <2>2, <2>3, Aside
<1>4. CASE Heal \/ UNCHANGED vars
  <2>1. UNCHANGED <<policies, stack, entry, open, at, await, answer, cancelled, deaf, why>>
    BY <1>4 DEF Heal, vars, options
  <2>2. Fresh' /\ cancelled' \subseteq Callers
    BY <2>1, FreshKept DEF Inv, Functions
  <2> QED BY <2>1, <2>2, Aside
<1> QED BY <1>1, <1>2, <1>3, <1>4, CallStep, WrapNextStep DEF Next

LEMMA Stands ==
    ASSUME Inv, NEW c \in Callers, Done(c)
    PROVE  /\ Fine(at[c], "call", answer[c], why[c]) /\ at[c] = 0
           /\ Len(stack) = Len(policies) \/ answer[c] = Nothing
<1>1. Fine(at[c], "call", answer[c], why[c])
  BY DEF Inv, Done
<1>2. at[c] = 0
  BY <1>1 DEF Fine, Placed
<1>3. Len(stack) = Len(policies) \/ answer[c] = Nothing
  BY Arguments, LayerFacts DEF Inv, Built
<1> QED BY <1>1, <1>2, <1>3

LEMMA InvTypeOK == Inv => TypeOK
<1> SUFFICES ASSUME Inv PROVE TypeOK
  OBVIOUS
<1>1. \A c \in Callers : Placed(at[c], await[c], answer[c])
  BY DEF Inv, Fine
<1>2. open \in 0..Cardinality(Callers)
  BY OpenIsCount DEF Inv
<1> QED BY <1>1, <1>2 DEF TypeOK, Inv, Functions, Fresh, Placed

LEMMA InvFailuresNotCached == Inv => FailuresNotCached
<1> SUFFICES ASSUME Inv PROVE FailuresNotCached
  OBVIOUS
<1>1. entry.value \notin Errors
  BY DEF Inv, Fresh
<1>2. ASSUME Before("fallback", "cache"), entry.value = "default" PROVE FALSE
  <2>1. PICK j \in Layers, k \in Layers : stack[j] = "cache" /\ stack[k] = "fallback" /\ j < k
    BY <1>2 DEF Inv, Fresh
  <2>2. Len(stack) = Len(policies)
    BY <1>2, Arguments, LayerFacts DEF Inv, Built, Nothing
  <2>3. PICK a \in Layers, b \in Layers : a < b /\ stack[a] = "fallback" /\ stack[b] = "cache"
    BY <1>2, <2>2, Complete DEF Inv
  <2>4. a = k /\ b = j
    BY <2>1, <2>3, LayerFacts DEF Inv
  <2> QED BY <2>1, <2>3, <2>4, LayerFacts DEF Inv
<1>3. ASSUME NEW c \in Callers, await[c] = "set" PROVE answer[c] \notin Errors
  BY <1>3 DEF Inv, Fine, ErrorFine
<1> QED BY <1>1, <1>2, <1>3 DEF FailuresNotCached

LEMMA InvAnswerExplained == Inv => AnswerExplained
<1> SUFFICES ASSUME Inv, NEW c \in Callers, Done(c)
             PROVE /\ answer[c] = "default" =>
                         why[c] \cap {"bad", "error", "aborted", "provider", "no key", "chaos", "default"} # {}
                   /\ answer[c] = "bad" => ~Guarded
                   /\ answer[c] \in Errors =>
                         \/ why[c] \cap {"fatal", "factory", "aborted"} # {}
                         \/ why[c] \cap {"provider", "no key"} # {} /\ ~Before("fallback", "cache")
                         \/ "chaos" \in why[c] /\ ~Before("fallback", "chaos")
                         \/ "error" \in why[c] /\ ~Guarded
  BY DEF AnswerExplained
<1>1. /\ Fine(0, "call", answer[c], why[c]) /\ Built
      /\ Len(stack) = Len(policies) \/ answer[c] = Nothing
  BY Stands DEF Inv
<1>2. \A j \in Layers : ~(j <= 0)
  BY <1>1, LayerFacts
<1>3. ASSUME answer[c] = "default"
      PROVE  why[c] \cap {"bad", "error", "aborted", "provider", "no key", "chaos", "default"} # {}
  BY <1>1, <1>3 DEF Fine, DefaultFine, Handling
<1>4. ASSUME answer[c] = "bad" PROVE ~Guarded
  <2>1. \A j \in Layers : stack[j] # "fallback"
    BY <1>1, <1>2, <1>4 DEF Fine, BadFine, NoneInside
  <2> QED BY <1>1, <1>4, <2>1, Complete DEF Nothing
<1>5. ASSUME answer[c] \in Errors
      PROVE  \/ why[c] \cap {"fatal", "factory", "aborted"} # {}
             \/ why[c] \cap {"provider", "no key"} # {} /\ ~Before("fallback", "cache")
             \/ "chaos" \in why[c] /\ ~Before("fallback", "chaos")
             \/ "error" \in why[c] /\ ~Guarded
  <2>1. Len(stack) = Len(policies)
    BY <1>1, <1>5 DEF Errors, Nothing
  <2>2. NoneInside("fallback", 0) => ~Guarded
    BY <1>1, <1>2, <2>1, Complete DEF NoneInside
  <2>3. ASSUME NEW policy, Covered(policy, 0) PROVE ~Before("fallback", policy)
    BY <1>1, <1>2, <2>1, <2>3, Complete DEF Covered
  <2>4. CASE answer[c] = "fatal"
    BY <1>1, <2>4 DEF Fine, ErrorFine
  <2>5. CASE answer[c] = "aborted"
    BY <1>1, <2>5 DEF Fine, ErrorFine
  <2>6. CASE answer[c] = "error"
    <3>1. \/ "factory" \in why[c]
          \/ "error" \in why[c] /\ NoneInside("fallback", 0)
          \/ ("provider" \in why[c] \/ "no key" \in why[c]) /\ Covered("cache", 0)
          \/ "chaos" \in why[c] /\ Covered("chaos", 0)
      BY <1>1, <2>6 DEF Fine, ErrorFine
    <3> QED BY <2>2, <2>3, <3>1
  <2> QED BY <1>5, <2>4, <2>5, <2>6 DEF Errors
<1> QED BY <1>3, <1>4, <1>5

LEMMA InvFactoryAskedAgain == Inv => FactoryAskedAgain
BY DEF Inv, Fine, FactoryFine, FactoryAskedAgain

LEMMA InvAbortVisible == Inv => AbortVisible
<1> SUFFICES ASSUME Inv, NEW c \in Callers, await[c] = "fn", Before("fallback", "cache")
             PROVE  c \notin deaf
  BY DEF AbortVisible
<1>1. Built /\ Len(stack) = Len(policies) /\ at[c] = Operation /\ Heard(at[c], c \in deaf)
  BY Busy DEF Inv
<1>2. PICK j \in Layers, k \in Layers : j < k /\ stack[j] = "fallback" /\ stack[k] = "cache"
  BY <1>1, Complete
<1>3. ~(at[c] < k)
  BY <1>1, LayerFacts
<1> QED BY <1>1, <1>2, <1>3 DEF Heard

\* Type correctness, whatever is composed.
THEOREM TypeCorrect == Spec => []TypeOK
BY InitInv, NextInv, InvTypeOK, PTL DEF Spec

\* cache-policy.ts:239-257: overlapping calls store no error, and no default of
\* a fallback that is composed around the cache, in any pipeline.
THEOREM OnlyResultsCached == Spec => []FailuresNotCached
BY InitInv, NextInv, InvFailuresNotCached, PTL DEF Spec

\* policy-wrap.ts:28-36 with the execute() of each policy: what a call is
\* answered is explained by what went wrong in it and by the order of the
\* policies, in any pipeline.
THEOREM AnswersAreExplained == Spec => []AnswerExplained
BY InitInv, NextInv, InvAnswerExplained, PTL DEF Spec

\* fallback-policy.ts:97-133: the factory is asked twice for a rejected result
\* only.
THEOREM FactoryAskedOnce == Spec => []FactoryAskedAgain
BY InitInv, NextInv, InvFactoryAskedAgain, PTL DEF Spec

\* fallback-policy.ts:86-88 and cache-policy.ts:209-214: with the fallback around
\* the cache no operation misses the abort of its call.
THEOREM AbortsAreVisible == Spec => []AbortVisible
BY InitInv, NextInv, InvAbortVisible, PTL DEF Spec

\* telemetry-policy.ts:143-228: attempts, successes and failures add up, however
\* many calls overlap and wherever telemetry stands.
THEOREM CountersAddUp == Spec => []AttemptsAddUp
<1>1. Inv => AttemptsAddUp
  BY DEF Inv
<1> QED BY <1>1, InitInv, NextInv, PTL DEF Spec
=============================================================================
