--------------------------- MODULE CircuitProofs ---------------------------
(***************************************************************************)
(* Proofs about MemoryStateStore and CircuitBreaker, for all thresholds,   *)
(* every break duration and any number of callers and admins.              *)
(***************************************************************************)
EXTENDS CircuitBreaker, TLAPS

-----------------------------------------------------------------------------
(* The store on its own. *)

\* The pieces the methods are built from keep the circuit well-formed.
LEMMA SetStateType ==
    ASSUME NEW s \in Circuits, NEW new \in States PROVE SetState(s, new) \in Circuits
BY StoreAssumption DEF SetState, Circuits, States

LEMMA CountFailureType ==
    ASSUME NEW s \in Circuits PROVE CountFailure(s) \in Circuits
BY StoreAssumption DEF CountFailure, Circuits

LEMMA CountSuccessType ==
    ASSUME NEW s \in Circuits, NEW n \in 0..SuccessThreshold
    PROVE  [s EXCEPT !.successes = n] \in Circuits
BY DEF Circuits

LEMMA ForgetFailuresType ==
    ASSUME NEW s \in Circuits PROVE [s EXCEPT !.failures = 0] \in Circuits
BY StoreAssumption DEF Circuits

\* SuccessesAreFresh is what makes the store a documented state machine: it is
\* inductive together with the types, and an open circuit may then become
\* half-open with a count of zero.
StoreInv == StoreTypeOK /\ SuccessesAreFresh

LEMMA StoreInitInv == StoreInit => StoreInv
BY StoreAssumption
DEF StoreInit, StoreInv, StoreTypeOK, SuccessesAreFresh, States, Circuits

LEMMA StoreStep == StoreInv /\ [StoreNext]_store => StoreInv'
<1> SUFFICES ASSUME StoreInv, [StoreNext]_store PROVE StoreInv'
  OBVIOUS
<1>1. CASE UNCHANGED store
  BY <1>1 DEF StoreInv, StoreTypeOK, SuccessesAreFresh
<1>2. StoreTypeOK'
  <2> USE DEF StoreInv, StoreTypeOK
  <2>1. CASE store' = Refresh(store)
    BY <2>1, SetStateType DEF Refresh, States
  <2>2. CASE store' = RecordSuccess(store)
    <3>1. store.successes + 1 < SuccessThreshold
            => store.successes + 1 \in 0..SuccessThreshold
      BY StoreAssumption DEF Circuits
    <3>2. store.successes \in Nat /\ SuccessThreshold \in Nat
      BY StoreAssumption DEF Circuits
    <3> QED BY <2>2, <3>1, <3>2, SetStateType, CountSuccessType, ForgetFailuresType
            DEF RecordSuccess, States
  <2>3. CASE store' = RecordFailure(store)
    BY <2>3, SetStateType, CountFailureType DEF RecordFailure, States
  <2>4. CASE store' = SetState(store, "isolated") \/ store' = SetState(store, "closed")
    BY <2>4, SetStateType DEF States
  <2>5. CASE Tick
    BY <2>5, StoreAssumption DEF Tick, Circuits
  <2> QED BY <1>1, <2>1, <2>2, <2>3, <2>4, <2>5 DEF StoreNext
<1>3. SuccessesAreFresh'
  <2> USE DEF StoreInv, StoreTypeOK, SuccessesAreFresh
  <2>1. CASE store' = Refresh(store)
    BY <2>1 DEF Refresh, SetState
  <2>2. CASE store' = RecordSuccess(store)
    BY <2>2 DEF RecordSuccess, SetState, Circuits
  <2>3. CASE store' = RecordFailure(store)
    BY <2>3 DEF RecordFailure, CountFailure, SetState
  <2>4. CASE store' = SetState(store, "isolated") \/ store' = SetState(store, "closed")
    BY <2>4 DEF SetState
  <2>5. CASE Tick
    BY <2>5 DEF Tick, Circuits
  <2> QED BY <1>1, <2>1, <2>2, <2>3, <2>4, <2>5 DEF StoreNext
<1> QED BY <1>2, <1>3 DEF StoreInv

\* The documented state machine takes the same step, or none.
LEMMA StoreRefines ==
    StoreInv /\ [StoreNext]_store => [Contract!Next]_Contract!contractVars
<1> SUFFICES ASSUME StoreInv, [StoreNext]_store
             PROVE  [Contract!Next]_Contract!contractVars
  OBVIOUS
<1> USE StoreAssumption DEF StoreInv, StoreTypeOK, SuccessesAreFresh, States,
        Circuits, Contract!contractVars, Contract!Enter
<1>1. CASE UNCHANGED store
  BY <1>1
<1>2. CASE store' = Refresh(store)
  <2>1. CASE Elapsed(store)
    <3>1. Contract!Probe
      BY <1>2, <2>1 DEF Refresh, Elapsed, SetState, Contract!Probe
    <3> QED BY <3>1 DEF Contract!Next
  <2>2. CASE ~Elapsed(store)
    BY <1>2, <2>2 DEF Refresh
  <2> QED BY <2>1, <2>2
<1>3. CASE store' = RecordSuccess(store)
  <2>1. CASE store.state = "halfOpen" /\ store.successes + 1 >= SuccessThreshold
    <3>1. Contract!Recover
      BY <1>3, <2>1 DEF RecordSuccess, SetState, Contract!Recover
    <3> QED BY <3>1 DEF Contract!Next
  <2>2. CASE store.state = "halfOpen" /\ store.successes + 1 < SuccessThreshold
    <3>1. Contract!SuccessCounted
      BY <1>3, <2>2 DEF RecordSuccess, Contract!SuccessCounted
    <3> QED BY <3>1 DEF Contract!Next
  <2>3. CASE store.state = "closed"
    <3>1. Contract!FailuresForgotten
      BY <1>3, <2>3 DEF RecordSuccess, Contract!FailuresForgotten
    <3> QED BY <3>1 DEF Contract!Next
  <2>4. CASE store.state \in {"open", "isolated"}
    BY <1>3, <2>4 DEF RecordSuccess
  <2> QED BY <2>1, <2>2, <2>3, <2>4
<1>4. CASE store' = RecordFailure(store)
  <2>1. CASE store.state = "halfOpen"
    <3>1. Contract!ProbeFailed
      BY <1>4, <2>1 DEF RecordFailure, CountFailure, SetState, Contract!ProbeFailed
    <3> QED BY <3>1 DEF Contract!Next
  <2>2. CASE store.state = "closed" /\ store.failures + 1 >= FailureThreshold
    <3>1. Contract!Trip
      BY <1>4, <2>2 DEF RecordFailure, CountFailure, SetState, Contract!Trip
    <3> QED BY <3>1 DEF Contract!Next
  <2>3. CASE store.state = "closed" /\ store.failures + 1 < FailureThreshold
    <3>1. Contract!FailureCounted
      BY <1>4, <2>3 DEF RecordFailure, CountFailure, Contract!FailureCounted
    <3> QED BY <3>1 DEF Contract!Next
  <2>4. CASE store.state \in {"open", "isolated"}
    BY <1>4, <2>4 DEF RecordFailure, CountFailure
  <2> QED BY <2>1, <2>2, <2>3, <2>4
<1>5. CASE store' = SetState(store, "isolated") \/ store' = SetState(store, "closed")
  <2>1. Contract!Manual
    BY <1>5 DEF SetState, Contract!Manual
  <2> QED BY <2>1 DEF Contract!Next
<1>6. CASE Tick
  <2>1. Contract!TimePasses
    BY <1>6 DEF Tick, Contract!TimePasses
  <2> QED BY <2>1 DEF Contract!Next
<1> QED BY <1>1, <1>2, <1>3, <1>4, <1>5, <1>6 DEF StoreNext

\* MemoryStateStore, called by anybody in any order, is the circuit breaker
\* that the interface CircuitBreakerStateStore documents.
THEOREM StoreImplementsContract == StoreSpec => ImplementsContract
<1>1. StoreInit => Contract!Init
  BY DEF StoreInit, Contract!Init
<1> QED BY <1>1, StoreInitInv, StoreStep, StoreRefines, PTL
        DEF StoreSpec, ImplementsContract, Contract!Spec
-----------------------------------------------------------------------------
(* The policy over the store. *)

\* A command that is deciding knows its target, so what it applies is one of
\* the two states setState is called with.
Deciding == \A p \in Procs : pc[p] = "deciding" => target[p] # None

\* A caller that began while the circuit refuses has been told so: the answer
\* was fixed when it asked, whatever happens to the circuit since.
Refused == \A c \in turnedAway : /\ pc[c] = "checking"
                                 /\ c \notin reading
                                 /\ seen[c] \in {"open", "isolated"}

PolicyInv == StoreInv /\ TypeOK /\ Deciding /\ Refused

\* Every segment of execute(), isolate() and reset() leaves the store alone or
\* is one of its methods.
LEMMA PolicyStep == PolicyInv /\ [Next]_vars => [StoreNext]_store
<1> SUFFICES ASSUME PolicyInv, [Next]_vars PROVE [StoreNext]_store
  OBVIOUS
<1>1. CASE UNCHANGED vars
  BY <1>1 DEF vars
<1>2. ASSUME NEW c \in Callers, Begin(c) \/ Finish(c) PROVE [StoreNext]_store
  BY <1>2 DEF Begin, Finish, FinishUncounted, Succeed, Fail, GetState, StoreNext
<1>3. ASSUME NEW a \in Admins, NEW new \in {"isolated", "closed"}, Command(a, new)
      PROVE  [StoreNext]_store
  BY <1>3 DEF Command, GetState, StoreNext
<1>4. ASSUME NEW p \in Procs, Continue(p) PROVE [StoreNext]_store
  <2>1. CASE ReadState(p) \/ Announce(p)
    BY <2>1 DEF ReadState, Announce
  <2>2. CASE Check(p) \/ Record(p) \/ AskNewState(p)
    BY <2>2
    DEF Check, Refuse, Aborted, Start, Record, AskNewState, GetState, StoreNext
  <2>3. CASE AlreadyThere(p)
    BY <2>3 DEF AlreadyThere
  <2>4. CASE Apply(p)
    <3>1. target[p] \in {"isolated", "closed"}
      BY <2>4 DEF Apply, At, PolicyInv, Deciding, TypeOK
    <3> QED BY <2>4, <3>1 DEF Apply, StoreNext
  <2> QED BY <1>4, <2>1, <2>2, <2>3, <2>4 DEF Continue
<1>5. CASE TimePasses
  BY <1>5 DEF TimePasses, StoreNext
<1> QED BY <1>1, <1>2, <1>3, <1>4, <1>5 DEF Next

\* Returning frees the slot and forgets everything about the call.
LEMMA ReturnKeeps ==
    ASSUME PolicyInv, StoreInv', NEW p \in Procs, Return(p) PROVE PolicyInv'
<1> USE DEF PolicyInv, Deciding, Refused, TypeOK, Return, Goto, Places
<1>1. TypeOK'
  BY DEF StoreInv
<1>2. \A q \in Procs : pc'[q] = "deciding" => target'[q] # None
  OBVIOUS
<1>3. \A c \in turnedAway' : /\ pc'[c] = "checking" /\ c \notin reading'
                             /\ seen'[c] \in {"open", "isolated"}
  BY DEF Procs
<1> QED BY <1>1, <1>2, <1>3

\* What any call of getState() leaves behind.
LEMMA GetStateKeeps ==
    ASSUME PolicyInv, NEW p \in Procs, NEW place \in Places, GetState(p, place)
    PROVE  /\ pc' \in [Procs -> Places]
           /\ reading' \subseteq Procs
           /\ seen' \in [Procs -> States \cup {None}]
           /\ ~Elapsed(store) => reading' = reading /\ seen'[p] = store.state
           /\ \A q \in Procs \ {p} : pc'[q] = pc[q] /\ seen'[q] = seen[q]
                            /\ (q \in reading' => q \in reading)
           /\ pc'[p] = place
BY DEF GetState, Goto, PolicyInv, TypeOK, StoreInv, StoreTypeOK, Circuits

LEMMA BeginKeeps ==
    ASSUME PolicyInv, StoreInv', NEW c \in Callers, Begin(c) PROVE PolicyInv'
<1> USE DEF PolicyInv, Deciding, Refused
<1>1. /\ At(c, "idle") /\ GetState(c, "checking")
      /\ turnedAway' = IF store.state \in {"open", "isolated"} /\ ~Elapsed(store)
                       THEN turnedAway \cup {c} ELSE turnedAway
      /\ UNCHANGED target
  BY DEF Begin
<1>2. /\ pc' \in [Procs -> Places] /\ reading' \subseteq Procs
      /\ seen' \in [Procs -> States \cup {None}]
      /\ ~Elapsed(store) => reading' = reading /\ seen'[c] = store.state
      /\ \A q \in Procs \ {c} : pc'[q] = pc[q] /\ seen'[q] = seen[q]
                            /\ (q \in reading' => q \in reading)
      /\ pc'[c] = "checking"
  BY <1>1, GetStateKeeps DEF Procs, Places
<1>3. TypeOK'
  BY <1>1, <1>2 DEF TypeOK, StoreInv
<1>4. Deciding'
  BY <1>1, <1>2
<1>5. Refused'
  <2>1. c \notin turnedAway /\ c \notin reading
    BY <1>1 DEF At
  <2>2. turnedAway \subseteq Callers
    BY DEF TypeOK
  <2> QED BY <1>1, <1>2, <2>1, <2>2 DEF Refused, Procs
<1> QED BY <1>3, <1>4, <1>5

\* The other segments that ask for the state.
LEMMA AskKeeps ==
    ASSUME PolicyInv, StoreInv', NEW p \in Procs, p \notin turnedAway,
           NEW place \in Places \ {"deciding"}, GetState(p, place),
           UNCHANGED <<target, turnedAway>>
    PROVE  PolicyInv'
<1> USE DEF PolicyInv, Deciding, Refused
<1>1. /\ pc' \in [Procs -> Places] /\ reading' \subseteq Procs
      /\ seen' \in [Procs -> States \cup {None}]
      /\ \A q \in Procs \ {p} : pc'[q] = pc[q] /\ seen'[q] = seen[q]
                            /\ (q \in reading' => q \in reading)
      /\ pc'[p] = place
  BY GetStateKeeps
<1>2. TypeOK'
  BY <1>1 DEF TypeOK, StoreInv
<1>3. Deciding'
  BY <1>1
<1>4. Refused'
  BY <1>1 DEF Refused, TypeOK, Procs
<1> QED BY <1>2, <1>3, <1>4

LEMMA CommandKeeps ==
    ASSUME PolicyInv, StoreInv', NEW a \in Admins, NEW new \in {"isolated", "closed"},
           Command(a, new)
    PROVE  PolicyInv'
<1> USE DEF PolicyInv, Deciding, Refused
<1>1. /\ GetState(a, "deciding") /\ target' = [target EXCEPT ![a] = new]
      /\ UNCHANGED turnedAway /\ a \notin turnedAway
  BY DEF Command, At
<1>2. /\ pc' \in [Procs -> Places] /\ reading' \subseteq Procs
      /\ seen' \in [Procs -> States \cup {None}]
      /\ \A q \in Procs \ {a} : pc'[q] = pc[q] /\ seen'[q] = seen[q]
                            /\ (q \in reading' => q \in reading)
      /\ pc'[a] = "deciding"
  BY <1>1, GetStateKeeps DEF Procs, Places
<1>3. TypeOK'
  BY <1>1, <1>2 DEF TypeOK, StoreInv
<1>4. Deciding'
  BY <1>1, <1>2 DEF Deciding, TypeOK, None
<1>5. Refused'
  BY <1>1, <1>2 DEF Refused, TypeOK, Procs
<1> QED BY <1>3, <1>4, <1>5

\* A segment that ends a call or moves it on without asking for the state.
LEMMA MoveOnKeeps ==
    ASSUME PolicyInv, StoreInv', NEW p \in Procs, p \notin turnedAway,
           NEW place \in Places \ {"deciding"}, Goto(p, place),
           \/ UNCHANGED seen
           \/ /\ seen' \in [Procs -> States \cup {None}]
              /\ \A q \in Procs \ {p} : seen'[q] = seen[q],
           UNCHANGED <<reading, target, turnedAway>>
    PROVE  PolicyInv'
<1> USE DEF PolicyInv, Deciding, Refused
<1>1. /\ pc' \in [Procs -> Places] /\ pc'[p] = place
      /\ \A q \in Procs \ {p} : pc'[q] = pc[q]
  BY DEF Goto, TypeOK
<1>2. TypeOK'
  BY <1>1 DEF TypeOK, StoreInv
<1>3. Deciding'
  BY <1>1
<1>4. Refused'
  BY <1>1 DEF Refused, TypeOK, Procs
<1> QED BY <1>2, <1>3, <1>4

LEMMA PolicyInvStep == PolicyInv /\ [Next]_vars => PolicyInv'
<1> SUFFICES ASSUME PolicyInv, [Next]_vars PROVE PolicyInv'
  OBVIOUS
<1>0. StoreInv'
  BY PolicyStep, StoreStep DEF PolicyInv
<1>1. \A p \in turnedAway : pc[p] = "checking" /\ seen[p] \in {"open", "isolated"}
  BY DEF PolicyInv, Refused
<1>2. CASE UNCHANGED vars
  BY <1>0, <1>2 DEF vars, PolicyInv, Deciding, Refused, TypeOK, StoreInv
<1>3. ASSUME NEW c \in Callers, Begin(c) PROVE PolicyInv'
  BY <1>0, <1>3, BeginKeeps
<1>4. ASSUME NEW c \in Callers, Finish(c) PROVE PolicyInv'
  <2>1. c \in Procs /\ c \notin turnedAway
    BY <1>1, <1>4 DEF Procs, Finish, FinishUncounted, Succeed, Fail, At
  <2>2. CASE FinishUncounted(c)
    BY <1>0, <2>1, <2>2, ReturnKeeps DEF FinishUncounted
  <2>3. CASE Succeed(c)
    <3>1. CASE Return(c)
      BY <1>0, <2>1, <3>1, ReturnKeeps
    <3>2. CASE /\ Goto(c, "announcing")
               /\ seen' = [seen EXCEPT ![c] = "closed"]
               /\ UNCHANGED <<reading, target, turnedAway>>
      <4>1. /\ seen' \in [Procs -> States \cup {None}]
            /\ \A q \in Procs \ {c} : seen'[q] = seen[q]
        BY <2>1, <3>2 DEF PolicyInv, TypeOK, States
      <4>2. "announcing" \in Places \ {"deciding"}
        BY DEF Places
      <4> QED BY <1>0, <2>1, <3>2, <4>1, <4>2, MoveOnKeeps
    <3> QED BY <2>3, <3>1, <3>2 DEF Succeed
  <2>4. CASE Fail(c)
    BY <1>0, <2>1, <2>4, AskKeeps DEF Fail, Places
  <2> QED BY <1>4, <2>2, <2>3, <2>4 DEF Finish
<1>5. ASSUME NEW a \in Admins, NEW new \in {"isolated", "closed"}, Command(a, new)
      PROVE  PolicyInv'
  BY <1>0, <1>5, CommandKeeps
<1>6. ASSUME NEW p \in Procs, ReadState(p) PROVE PolicyInv'
  <2>1. p \notin turnedAway
    BY <1>6 DEF ReadState, PolicyInv, Refused
  <2>2. TypeOK'
    BY <1>0, <1>6 DEF ReadState, PolicyInv, TypeOK, StoreInv, StoreTypeOK, Circuits
  <2>3. Deciding'
    BY <1>6 DEF ReadState, PolicyInv, Deciding
  <2>4. Refused'
    BY <1>6, <2>1 DEF ReadState, PolicyInv, TypeOK, Refused, Procs
  <2> QED BY <1>0, <2>2, <2>3, <2>4 DEF PolicyInv
<1>7. ASSUME NEW p \in Procs, Announce(p) \/ Refuse(p) \/ Aborted(p) \/ AlreadyThere(p)
      PROVE  PolicyInv'
  BY <1>0, <1>7, ReturnKeeps DEF Announce, Refuse, Aborted, AlreadyThere
<1>8. ASSUME NEW c \in Callers, Start(c) PROVE PolicyInv'
  <2>1. c \in Procs /\ c \notin turnedAway
    BY <1>1, <1>8 DEF Procs, Start
  <2>2. "running" \in Places \ {"deciding"}
    BY DEF Places
  <2> QED BY <1>0, <1>8, <2>1, <2>2, MoveOnKeeps DEF Start
<1>9. ASSUME NEW c \in Callers, Record(c) PROVE PolicyInv'
  <2>1. c \in Procs /\ c \notin turnedAway
    BY <1>1, <1>9 DEF Procs, Record, At
  <2>2. CASE Return(c)
    BY <1>0, <2>1, <2>2, ReturnKeeps
  <2>3. CASE /\ Goto(c, "opened")
             /\ UNCHANGED <<reading, seen, target, turnedAway>>
    <3>1. store.state \in States /\ "open" \in States
      BY DEF PolicyInv, StoreInv, StoreTypeOK, Circuits, States
    <3>2. /\ seen' \in [Procs -> States \cup {None}]
          /\ \A q \in Procs \ {c} : seen'[q] = seen[q]
      BY <2>1, <2>3, <3>1 DEF PolicyInv, TypeOK
    <3>3. "opened" \in Places \ {"deciding"}
      BY DEF Places
    <3> QED BY <1>0, <2>1, <2>3, <3>2, <3>3, MoveOnKeeps
  <2> QED BY <1>9, <2>2, <2>3 DEF Record
<1>10. ASSUME NEW c \in Callers, AskNewState(c) PROVE PolicyInv'
  <2>1. c \in Procs /\ c \notin turnedAway
    BY <1>1, <1>10 DEF Procs, AskNewState, At
  <2> QED BY <1>0, <1>10, <2>1, AskKeeps DEF AskNewState, Places
<1>11. ASSUME NEW a \in Admins, Apply(a) PROVE PolicyInv'
  <2>1. a \in Procs /\ a \notin turnedAway
    BY <1>1, <1>11 DEF Procs, Apply, At
  <2>2. store.state \in States /\ target[a] \in States
    BY <1>11, <2>1
    DEF Apply, At, PolicyInv, Deciding, TypeOK, StoreInv, StoreTypeOK, Circuits, States
  <2>3. /\ seen' \in [Procs -> States \cup {None}]
        /\ \A q \in Procs \ {a} : seen'[q] = seen[q]
    BY <1>11, <2>1, <2>2 DEF Apply, PolicyInv, TypeOK
  <2>4. "announcing" \in Places \ {"deciding"}
    BY DEF Places
  <2> QED BY <1>0, <1>11, <2>1, <2>3, <2>4, MoveOnKeeps DEF Apply
<1>12. CASE TimePasses
  BY <1>0, <1>12 DEF TimePasses, PolicyInv, Deciding, Refused, TypeOK, StoreInv
<1> QED BY <1>2, <1>3, <1>4, <1>5, <1>6, <1>7, <1>8, <1>9, <1>10, <1>11, <1>12
        DEF Next, Continue, Check

LEMMA PolicyInitInv == Init => PolicyInv
BY StoreInitInv
DEF Init, PolicyInv, StoreInv, TypeOK, Deciding, Refused, Places, None

\* Calls and commands that overlap in any way drive the store through the
\* documented state machine only.
THEOREM PolicyImplementsContract == Spec => ImplementsContract
<1>1. Init => Contract!Init
  BY DEF Init, StoreInit, Contract!Init
<1>2. PolicyInv /\ [Next]_vars => [Contract!Next]_Contract!contractVars
  BY PolicyStep, StoreRefines DEF PolicyInv
<1> QED BY <1>1, <1>2, PolicyInitInv, PolicyInvStep, PTL
        DEF Spec, ImplementsContract, Contract!Spec

\* Types, fresh success counts, and fail-fast: a call that begins while the
\* circuit refuses calls never gets to fn.
THEOREM PolicySafety == Spec => [](TypeOK /\ SuccessesAreFresh /\ FailFast)
<1>1. PolicyInv => TypeOK /\ SuccessesAreFresh /\ FailFast
  BY DEF PolicyInv, StoreInv, Refused, FailFast
<1> QED BY <1>1, PolicyInitInv, PolicyInvStep, PTL DEF Spec

\* None of the store's methods, called on an isolated circuit, ends the isolation.
LEMMA IsolatedStays ==
    ASSUME store.state = "isolated",
           \/ store' = Refresh(store) \/ store' = RecordSuccess(store)
           \/ store' = RecordFailure(store) \/ Tick \/ UNCHANGED store,
           StoreInv
    PROVE  store'.state = "isolated"
BY DEF Refresh, Elapsed, RecordSuccess, RecordFailure, CountFailure, Tick,
   StoreInv, StoreTypeOK, Circuits

\* An isolation ends by a reset() and by nothing else.
THEOREM IsolationTheorem == Spec => IsolationHolds
<1> DEFINE ByReset == store.state = "isolated" /\ store'.state # "isolated"
                        => \E a \in Admins : At(a, "deciding") /\ target[a] = "closed"
<1>1. PolicyInv /\ [Next]_vars => [ByReset]_vars
  <2> SUFFICES ASSUME PolicyInv, [Next]_vars, store.state = "isolated",
                      store'.state # "isolated"
               PROVE  \E a \in Admins : At(a, "deciding") /\ target[a] = "closed"
    OBVIOUS
  <2>1. ~(\/ store' = Refresh(store) \/ store' = RecordSuccess(store)
          \/ store' = RecordFailure(store) \/ Tick \/ UNCHANGED store)
    BY IsolatedStays DEF PolicyInv
  <2>2. \E a \in Admins : Apply(a)
    BY <2>1
    DEF vars, Next, Begin, Finish, FinishUncounted, Succeed, Fail, Command, Continue,
        ReadState, Announce, Check, Refuse, Aborted, Start, Record, AskNewState,
        AlreadyThere, GetState, TimePasses
  <2>3. PICK a \in Admins : Apply(a)
    BY <2>2
  <2>4. target[a] \in {"isolated", "closed"} /\ store' = SetState(store, target[a])
    BY <2>3 DEF Apply, At, PolicyInv, TypeOK, Deciding, Procs
  <2>5. store'.state = target[a]
    BY <2>4 DEF SetState
  <2> QED BY <2>3, <2>4, <2>5 DEF Apply
<1> QED BY <1>1, PolicyInitInv, PolicyInvStep, PTL DEF Spec, IsolationHolds
=============================================================================
