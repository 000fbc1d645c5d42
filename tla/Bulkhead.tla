------------------------------ MODULE Bulkhead ------------------------------
(***************************************************************************)
(* BulkheadPolicy (packages/core/src/policies/bulkhead): at most           *)
(* MaxConcurrent operations run, at most MaxQueue requests wait in a FIFO  *)
(* line, each with a timer of its own.                                     *)
(*                                                                         *)
(* The policy runs on one JavaScript event loop: an action is one          *)
(* synchronous segment between two awaits.  The important one is the gap   *)
(* between next.resolve(), which hands a finished operation's slot to the  *)
(* head of the line, and the resumption of that waiter, which only then    *)
(* increments activeCount.  Other microtasks run in that gap; timers,      *)
(* being macrotasks, do not.                                               *)
(***************************************************************************)
EXTENDS Naturals, FiniteSets, Sequences, SequencesExt

CONSTANTS
    Requests,       \* calls of execute(), each made at most once
    MaxConcurrent,  \* options.maxConcurrent
    MaxQueue        \* options.maxQueue; 0 is the fail-fast default

ASSUME BulkheadAssumption ==
    /\ IsFiniteSet(Requests)
    /\ MaxConcurrent \in Nat
    /\ MaxQueue \in Nat

VARIABLES
    pc,       \* where each request's execute() stands
    active,   \* activeCount
    queue,    \* this.queue, the requests that wait
    timers,   \* requests whose queue timer is armed
    granted,  \* resolved waiters that have not resumed yet, oldest first
    direct    \* history: requests that got a slot without queueing

vars == <<pc, active, queue, timers, granted, direct>>

Stages == {"idle", "queued", "granted", "running",
           "returned", "failed", "rejected", "timedOut", "aborted"}

In(stage) == {r \in Requests : pc[r] = stage}

Init ==
    /\ pc = [r \in Requests |-> "idle"]
    /\ active = 0
    /\ queue = <<>>
    /\ timers = {}
    /\ granted = <<>>
    /\ direct = {}
-----------------------------------------------------------------------------
Move(r, stage) == pc' = [pc EXCEPT ![r] = stage]

\* activeCount++ and the synchronous part of fn, up to its first await.
TakeSlot(r) ==
    /\ active' = active + 1
    /\ Move(r, "running")

\* execute() with a signal that is aborted already.
CallAborted(r) ==
    /\ pc[r] = "idle"
    /\ Move(r, "aborted")
    /\ UNCHANGED <<active, queue, timers, granted, direct>>

\* execute() when activeCount is below the limit.  The line is not looked at.
ExecuteNow(r) ==
    /\ pc[r] = "idle"
    /\ active < MaxConcurrent
    /\ TakeSlot(r)
    /\ direct' = direct \cup {r}
    /\ UNCHANGED <<queue, timers, granted>>

\* Mutant: the queue timer is never armed.
Enqueue_NoTimer(r) ==
    /\ pc[r] = "idle"
    /\ active >= MaxConcurrent
    /\ Len(queue) < MaxQueue
    /\ queue' = Append(queue, r)
    /\ Move(r, "queued")
    /\ UNCHANGED <<active, timers, granted, direct>>

\* execute() with no free slot and room in the line: waitForSlot.
Enqueue(r) ==
    /\ pc[r] = "idle"
    /\ active >= MaxConcurrent
    /\ Len(queue) < MaxQueue
    /\ queue' = Append(queue, r)
    /\ timers' = timers \cup {r}
    /\ Move(r, "queued")
    /\ UNCHANGED <<active, granted, direct>>

\* Mutant: a busy bulkhead refuses although its line has room.
Reject_IgnoresLine(r) ==
    /\ pc[r] = "idle"
    /\ active >= MaxConcurrent
    /\ Move(r, "rejected")
    /\ UNCHANGED <<active, queue, timers, granted, direct>>

\* execute() with neither slot nor room: onReject, onFailure, then the throw.
Reject(r) ==
    /\ pc[r] = "idle"
    /\ active >= MaxConcurrent
    /\ Len(queue) >= MaxQueue
    /\ Move(r, "rejected")
    /\ UNCHANGED <<active, queue, timers, granted, direct>>

\* The queue timer: the promise is rejected, no event is emitted.  The gap of
\* a handed-over slot is over before a timer's macrotask can run.
QueueTimeout(r) ==
    /\ r \in timers
    /\ granted = <<>>
    /\ queue' = RemoveFirst(queue, r)
    /\ timers' = timers \ {r}
    /\ Move(r, "timedOut")
    /\ UNCHANGED <<active, granted, direct>>

\* Mutant: the abort listener leaves the request in the line.
Abort_KeepsEntry(r) ==
    /\ pc[r] = "queued"
    /\ timers' = timers \ {r}
    /\ Move(r, "aborted")
    /\ UNCHANGED <<active, queue, granted, direct>>

\* The abort listener of a waiting request.  Once the request was granted or
\* timed out, its reject() has no effect.
Abort(r) ==
    /\ pc[r] = "queued"
    /\ queue' = RemoveFirst(queue, r)
    /\ timers' = timers \ {r}
    /\ Move(r, "aborted")
    /\ UNCHANGED <<active, granted, direct>>

\* Mutant: pop() for shift().
ReleaseNext_Lifo(pcAfter) ==
    IF queue = <<>>
    THEN /\ pc' = pcAfter
         /\ UNCHANGED <<queue, timers, granted>>
    ELSE /\ queue' = Front(queue)
         /\ timers' = timers \ {Last(queue)}
         /\ granted' = Append(granted, Last(queue))
         /\ pc' = [pcAfter EXCEPT ![Last(queue)] = "granted"]

\* releaseNextInQueue: shift(), clearTimeout(), resolve().
ReleaseNext(pcAfter) ==
    IF queue = <<>>
    THEN /\ pc' = pcAfter
         /\ UNCHANGED <<queue, timers, granted>>
    ELSE /\ queue' = Tail(queue)
         /\ timers' = timers \ {Head(queue)}
         /\ granted' = Append(granted, Head(queue))
         /\ pc' = [pcAfter EXCEPT ![Head(queue)] = "granted"]

\* Mutant: the catch block frees the slot that the finally block frees too.
Settle_FreesTwice(r, outcome) ==
    /\ pc[r] = "running"
    /\ active' = active - (IF outcome = "failed" THEN 2 ELSE 1)
    /\ ReleaseNext([pc EXCEPT ![r] = outcome])
    /\ UNCHANGED direct

\* Mutant: only a success releases the head of the line.
Settle_FailureKeepsLine(r, outcome) ==
    /\ pc[r] = "running"
    /\ active' = active - 1
    /\ IF outcome = "failed"
       THEN Move(r, outcome) /\ UNCHANGED <<queue, timers, granted>>
       ELSE ReleaseNext([pc EXCEPT ![r] = outcome])
    /\ UNCHANGED direct

\* fn's promise settled: success or failure event, then the finally block.
Settle(r, outcome) ==
    /\ pc[r] = "running"
    /\ active' = active - 1
    /\ ReleaseNext([pc EXCEPT ![r] = outcome])
    /\ UNCHANGED direct

\* The await of waitForSlot returns: executeWithSlot, with no second look at
\* activeCount.  Microtasks resume in the order they were queued.
Resume ==
    /\ granted # <<>>
    /\ TakeSlot(Head(granted))
    /\ granted' = Tail(granted)
    /\ UNCHANGED <<queue, timers, direct>>

Settled == {"returned", "failed", "rejected", "timedOut", "aborted"}

\* Nothing is left to do once every request is answered.
AllAnswered ==
    /\ \A r \in Requests : pc[r] \in Settled
    /\ UNCHANGED vars

Call(r) == CallAborted(r) \/ ExecuteNow(r) \/ Enqueue(r) \/ Reject(r)

Work(r) == QueueTimeout(r) \/ Abort(r)
           \/ \E outcome \in {"returned", "failed"} : Settle(r, outcome)

Next ==
    \/ \E r \in Requests : Call(r) \/ Work(r)
    \/ Resume
    \/ AllAnswered

Spec == Init /\ [][Next]_vars

\* The event loop resumes resolved promises and fires armed timers.  Nothing
\* makes a caller call or abort, nor an operation finish.
Fairness ==
    /\ WF_vars(Resume)
    /\ \A r \in Requests : WF_vars(QueueTimeout(r))

FairSpec == Spec /\ Fairness
-----------------------------------------------------------------------------
TypeOK ==
    /\ pc \in [Requests -> Stages]
    /\ active \in Nat
    /\ queue \in Seq(Requests)
    /\ timers \subseteq Requests
    /\ granted \in Seq(Requests)
    /\ direct \subseteq Requests

\* activeCount is the number of operations inside fn: no interleaving of
\* success, failure, hand-over, timeout and abort leaks a slot or frees one
\* twice (executeWithSlot's increment and its finally block).
ActiveCountExact == active = Cardinality(In("running"))

NoDuplicates(s) == \A i, j \in DOMAIN s : s[i] = s[j] => i = j

\* The line holds exactly the waiting requests, once each, every one with a
\* live timer and no one else; a request that left the line by timeout, abort
\* or hand-over can be found in it no more, and the line never exceeds maxQueue.
QueueConsistent ==
    /\ ToSet(queue) = In("queued")
    /\ timers = In("queued")
    /\ ToSet(granted) = In("granted")
    /\ NoDuplicates(queue)
    /\ NoDuplicates(granted)
    /\ Len(queue) <= MaxQueue

\* While somebody waits, every slot is in use or on its way to a waiter: no
\* wake-up is lost although nothing but a finishing operation looks at the line.
NoIdleSlotWhileWaiting ==
    queue # <<>> => active + Len(granted) >= MaxConcurrent

\* bulkhead-policy.ts:53, "Maximum number of operations that can execute
\* concurrently."
ConcurrencyLimit == active <= MaxConcurrent

\* Requests that never queued respect the limit in every interleaving, also in
\* those in which handed-over slots exceed it.
DirectAdmissionsWithinLimit ==
    Cardinality(direct \cap In("running")) <= MaxConcurrent

\* Without a line there is no hand-over, and the limit is strict.
FailFastLimit == MaxQueue = 0 => active <= MaxConcurrent

\* Nobody overtakes in the line: whoever is handed a slot, and whoever starts,
\* leaves nobody behind that was ahead of it (push, shift, microtask order, and
\* removals from the middle of the line).
Line == granted \o queue
InTurn ==
    \A i, j \in DOMAIN Line :
        i < j /\ pc'[Line[j]] \in {"granted", "running"}
          => /\ pc'[Line[i]] # "queued"
             /\ pc'[Line[j]] = "running" => pc'[Line[i]] # "granted"
NoOvertaking == [][InTurn]_vars

\* A request that entered the line is answered or starts, whatever the running
\* operations do: the hand-over resumes it or its timer rejects it.
WaitersAreServed ==
    \A r \in Requests :
        pc[r] \in {"queued", "granted"} ~> pc[r] \notin {"queued", "granted"}

\* In every schedule the policy is the semaphore of BulkheadContract: a slot
\* that is handed over counts as taken at once, and only while it is on its way
\* can a newcomer get one too many.
Contract == INSTANCE BulkheadContract
                WITH inside <- In("running") \cup In("granted"),
                     promised <- In("granted"),
                     waiting <- In("queued"),
                     refused <- In("rejected"),
                     Slots <- MaxConcurrent,
                     Places <- MaxQueue
ImplementsContract == Contract!Spec
=============================================================================
