--------------------------- MODULE CircuitBreaker ---------------------------
(***************************************************************************)
(* CircuitBreakerPolicy over a MemoryStateStore: execute() calls that      *)
(* overlap, isolate() and reset() beside them.                             *)
(*                                                                         *)
(* Every store method is awaited, so execute() is a chain of synchronous   *)
(* segments and other calls run between them.  getState() is special: when *)
(* the break is over it switches to halfOpen at once, but reads the state  *)
(* it returns one microtask later.  What an event says is left out.        *)
(***************************************************************************)
EXTENDS MemoryStateStore

CONSTANTS
    Callers,  \* slots for concurrent execute() calls, each used many times
    Admins    \* slots for isolate() and reset()

ASSUME SlotsAssumption == Callers \cap Admins = {}

Procs == Callers \cup Admins

VARIABLES
    pc,         \* the await each call stands at
    reading,    \* calls of getState() that switched and have yet to read
    seen,       \* what each call's last getState() returned
    target,     \* newState in transitionTo
    turnedAway  \* history: calls that began while the circuit refuses

vars == <<store, pc, reading, seen, target, turnedAway>>

None == "none"

Init ==
    /\ StoreInit
    /\ pc = [p \in Procs |-> "idle"]
    /\ reading = {}
    /\ seen = [p \in Procs |-> None]
    /\ target = [p \in Procs |-> None]
    /\ turnedAway = {}
-----------------------------------------------------------------------------
At(p, place) == pc[p] = place /\ p \notin reading

Goto(p, place) == pc' = [pc EXCEPT ![p] = place]

\* A call is over; its slot is free for another.
Return(p) ==
    /\ Goto(p, "idle")
    /\ seen' = [seen EXCEPT ![p] = None]
    /\ target' = [target EXCEPT ![p] = None]
    /\ turnedAway' = turnedAway \ {p}
    /\ UNCHANGED reading

\* Mutant: getState() only reads.
GetState_NoSwitch(p, place) ==
    /\ Goto(p, place)
    /\ seen' = [seen EXCEPT ![p] = store.state]
    /\ UNCHANGED <<store, reading>>

\* await this.store.getState(), continued at place.
GetState(p, place) ==
    /\ Goto(p, place)
    /\ store' = Refresh(store)
    /\ IF Elapsed(store)
       THEN reading' = reading \cup {p} /\ UNCHANGED seen
       ELSE seen' = [seen EXCEPT ![p] = store.state] /\ UNCHANGED reading

ReadState(p) ==
    /\ p \in reading
    /\ reading' = reading \ {p}
    /\ seen' = [seen EXCEPT ![p] = store.state]
    /\ UNCHANGED <<store, pc, target, turnedAway>>

\* execute(): its first segment asks for the state.
Begin(c) ==
    /\ At(c, "idle")
    /\ GetState(c, "checking")
    /\ turnedAway' = IF store.state \in {"open", "isolated"} /\ ~Elapsed(store)
                     THEN turnedAway \cup {c}
                     ELSE turnedAway
    /\ UNCHANGED target

\* CircuitOpenError, after getOpenedAt().
Refuse(c) ==
    /\ At(c, "checking")
    /\ seen[c] \in {"open", "isolated"}
    /\ Return(c)
    /\ UNCHANGED store

\* The signal was aborted already.
Aborted(c) ==
    /\ At(c, "checking")
    /\ seen[c] \notin {"open", "isolated"}
    /\ Return(c)
    /\ UNCHANGED store

\* Mutant: isolated circuits are tested for by the error path only.
Start_IgnoresIsolation(c) ==
    /\ At(c, "checking")
    /\ seen[c] # "open"
    /\ Goto(c, "running")
    /\ UNCHANGED <<store, reading, seen, target, turnedAway>>

Start(c) ==
    /\ At(c, "checking")
    /\ seen[c] \notin {"open", "isolated"}
    /\ Goto(c, "running")
    /\ UNCHANGED <<store, reading, seen, target, turnedAway>>

\* fn threw an error that shouldHandle does not count.
FinishUncounted(c) ==
    /\ At(c, "running")
    /\ Return(c)
    /\ UNCHANGED store

\* fn returned: handleSuccess calls recordSuccess, and announces the change
\* from halfOpen to closed when it is told of one.
Succeed(c) ==
    /\ At(c, "running")
    /\ store' = RecordSuccess(store)
    /\ IF store.state = "halfOpen" /\ store'.state = "closed"
       THEN /\ Goto(c, "announcing")
            /\ seen' = [seen EXCEPT ![c] = "closed"]
            /\ UNCHANGED <<reading, target, turnedAway>>
       ELSE Return(c)

\* fn threw or its result counts as a failure: handleFailure asks for the
\* state first, which may itself switch the circuit to halfOpen.
Fail(c) ==
    /\ At(c, "running")
    /\ GetState(c, "recording")
    /\ UNCHANGED <<target, turnedAway>>

\* recordFailure, with the previous state of an earlier segment.
Record(c) ==
    /\ At(c, "recording")
    /\ store' = RecordFailure(store)
    /\ IF store'.state = "open" /\ store.state # "open"
       THEN /\ Goto(c, "opened")
            /\ UNCHANGED <<reading, seen, target, turnedAway>>
       ELSE Return(c)

\* The circuit opened: handleFailure asks for the state once more.
AskNewState(c) ==
    /\ At(c, "opened")
    /\ GetState(c, "announcing")
    /\ UNCHANGED <<target, turnedAway>>

\* onStateChange is emitted.
Announce(p) ==
    /\ At(p, "announcing")
    /\ Return(p)
    /\ UNCHANGED store

\* isolate() and reset(): transitionTo(new).
Command(a, new) ==
    /\ At(a, "idle")
    /\ target' = [target EXCEPT ![a] = new]
    /\ GetState(a, "deciding")
    /\ UNCHANGED turnedAway

AlreadyThere(a) ==
    /\ At(a, "deciding")
    /\ seen[a] = target[a]
    /\ Return(a)
    /\ UNCHANGED store

Apply(a) ==
    /\ At(a, "deciding")
    /\ seen[a] # target[a]
    /\ store' = SetState(store, target[a])
    /\ seen' = [seen EXCEPT ![a] = target[a]]
    /\ Goto(a, "announcing")
    /\ UNCHANGED <<reading, target, turnedAway>>

\* Date.now() advances at any time, also while microtasks run.
TimePasses ==
    /\ Tick
    /\ UNCHANGED <<pc, reading, seen, target, turnedAway>>

Check(c) == Refuse(c) \/ Aborted(c) \/ Start(c)
Finish(c) == FinishUncounted(c) \/ Succeed(c) \/ Fail(c)
Continue(p) ==
    \/ ReadState(p) \/ Announce(p)
    \/ p \in Callers /\ (Check(p) \/ Record(p) \/ AskNewState(p))
    \/ p \in Admins /\ (AlreadyThere(p) \/ Apply(p))

Next ==
    \/ \E c \in Callers : Begin(c) \/ Finish(c)
    \/ \E a \in Admins, new \in {"isolated", "closed"} : Command(a, new)
    \/ \E p \in Procs : Continue(p)
    \/ TimePasses

Spec == Init /\ [][Next]_vars

\* Microtasks run, the clock advances, and operations finish.
Fairness ==
    /\ \A p \in Procs : WF_vars(Continue(p))
    /\ \A c \in Callers : WF_vars(Finish(c))
    /\ WF_vars(TimePasses)

FairSpec == Spec /\ Fairness
-----------------------------------------------------------------------------
Places == {"idle", "checking", "running", "recording", "opened", "announcing",
           "deciding"}

TypeOK ==
    /\ StoreTypeOK
    /\ pc \in [Procs -> Places]
    /\ reading \subseteq Procs
    /\ seen \in [Procs -> States \cup {None}]
    /\ target \in [Procs -> {"isolated", "closed", None}]
    /\ turnedAway \subseteq Callers

\* A call that begins while the circuit is isolated, or open with its break not
\* over, never reaches fn, whatever other calls and commands do meanwhile.
FailFast == \A c \in turnedAway : pc[c] = "checking"

\* isolated "won't auto-recover" (state-store.ts:32): no result of a call that
\* was in flight, and no getState(), ends an isolation; only a reset() does.
IsolationHolds ==
    [][store.state = "isolated" /\ store'.state # "isolated"
         => \E a \in Admins : At(a, "deciding") /\ target[a] = "closed"]_vars

\* While calls keep coming, an open circuit does not stay open: its break ends
\* and the next call finds that out.
OpenEnds ==
    []<><<\E c \in Callers : Begin(c)>>_vars
    => (store.state = "open" ~> store.state # "open")

\* Once no call fails and nobody commands the circuit, successes that keep
\* coming close it, unless it was isolated: the probes are counted to the end,
\* whatever is cancelled or not counted between them.
Recovers ==
    ( /\ []<><<\E c \in Callers : Succeed(c)>>_vars
      /\ <>[][~\E c \in Callers : Fail(c)]_vars
      /\ <>[][~\E a \in Admins : Apply(a)]_vars )
    => <>[](store.state \in {"closed", "isolated"})
=============================================================================
