-------------------------- MODULE MemoryStateStore --------------------------
(***************************************************************************)
(* MemoryStateStore (circuit-breaker/state-store.ts): the circuit as a     *)
(* record and each method as the function it computes on it.  A method     *)
(* runs synchronously up to its last assignment, so a call is one step.    *)
(*                                                                         *)
(* openedAt is kept as the time since the circuit opened, which stops at   *)
(* breakDuration; consecutiveFailures stops at failureThreshold.  The code *)
(* only compares them with these bounds, so nothing is lost.               *)
(***************************************************************************)
EXTENDS Naturals

CONSTANTS
    FailureThreshold,  \* consecutive failures that open a closed circuit
    SuccessThreshold,  \* successes that close a half-open one
    BreakDuration      \* time an open circuit stays open

ASSUME StoreAssumption ==
    /\ FailureThreshold \in Nat
    /\ SuccessThreshold \in Nat
    /\ BreakDuration \in Nat

VARIABLE store

States == {"closed", "open", "halfOpen", "isolated"}

StoreInit ==
    store = [state |-> "closed", failures |-> 0, successes |-> 0, age |-> 0]

Elapsed(s) == s.state = "open" /\ s.age >= BreakDuration

\* Mutant: a reset that forgets the counters.
SetState_KeepsCounters(s, new) ==
    [state |-> new, failures |-> s.failures, successes |-> s.successes,
     age |-> IF new = "open" THEN 0 ELSE s.age]

SetState(s, new) ==
    IF new = "closed"
    THEN [state |-> new, failures |-> 0, successes |-> 0, age |-> s.age]
    ELSE [state |-> new, failures |-> s.failures, successes |-> s.successes,
          age |-> IF new = "open" THEN 0 ELSE s.age]

\* What getState() does to the store.
Refresh(s) == IF Elapsed(s) THEN SetState(s, "halfOpen") ELSE s

\* Mutant: successes below the threshold are not counted.
RecordSuccess_NotCounted(s) ==
    IF s.state = "halfOpen"
    THEN IF s.successes + 1 >= SuccessThreshold THEN SetState(s, "closed") ELSE s
    ELSE [s EXCEPT !.failures = 0]

RecordSuccess(s) ==
    IF s.state = "halfOpen"
    THEN IF s.successes + 1 >= SuccessThreshold
         THEN SetState(s, "closed")
         ELSE [s EXCEPT !.successes = @ + 1]
    ELSE [s EXCEPT !.failures = 0]

CountFailure(s) ==
    [state |-> s.state,
     failures |-> IF s.failures < FailureThreshold THEN s.failures + 1 ELSE s.failures,
     successes |-> 0,
     age |-> s.age]

\* Mutant: the state is not looked at when the threshold is reached.
RecordFailure_AnyState(s) ==
    LET counted == CountFailure(s)
    IN IF s.state = "halfOpen" \/ counted.failures >= FailureThreshold
       THEN SetState(counted, "open")
       ELSE counted

RecordFailure(s) ==
    LET counted == CountFailure(s)
    IN IF \/ s.state = "halfOpen"
          \/ s.state = "closed" /\ counted.failures >= FailureThreshold
       THEN SetState(counted, "open")
       ELSE counted

Tick ==
    /\ store.state = "open"
    /\ store.age < BreakDuration
    /\ store' = [store EXCEPT !.age = @ + 1]

\* The store on its own, called by anybody in any order.  isolate() and
\* reset() are the only callers of setState outside the store.
StoreNext ==
    \/ store' = Refresh(store)
    \/ store' = RecordSuccess(store)
    \/ store' = RecordFailure(store)
    \/ store' = SetState(store, "isolated")
    \/ store' = SetState(store, "closed")
    \/ Tick

StoreSpec == StoreInit /\ [][StoreNext]_store
-----------------------------------------------------------------------------
Circuits ==
    [state : States, failures : 0..FailureThreshold,
     successes : 0..SuccessThreshold, age : 0..BreakDuration]

StoreTypeOK == store \in Circuits

\* The documented state machine.  Counters count only in the state they are
\* about; in the others they must not carry anything into it.
Contract == INSTANCE CircuitContract
    WITH st <- store.state,
         failures <- IF store.state = "closed" THEN store.failures ELSE 0,
         successes <- IF store.state = "halfOpen" THEN store.successes ELSE 0,
         age <- IF store.state = "open" THEN store.age ELSE 0
ImplementsContract == Contract!Spec

\* A success counted in one half-open phase is forgotten before the next.
SuccessesAreFresh == store.state \in {"closed", "open"} => store.successes = 0
=============================================================================
