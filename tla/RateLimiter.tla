---------------------------- MODULE RateLimiter ----------------------------
(***************************************************************************)
(* RateLimiterPolicy over a TokenBucketStrategy (rate-limiter/): calls     *)
(* that overlap on one bucket, some of them polling it from timers.        *)
(*                                                                         *)
(* Time is relative.  age is Date.now() - lastRefill; it stops at          *)
(* LongIdle, when a refill fills the bucket whatever it held and a whole   *)
(* window of the observer is over.  waited is the time a call has polled;  *)
(* it stops at MaxWait + 1.  Both are only compared with what they still   *)
(* tell apart, so runs are unbounded.                                      *)
(* A synchronous segment reads the clock once.                             *)
(***************************************************************************)
EXTENDS Integers

CONSTANTS
    Callers,        \* slots for execute() calls, each used many times
    Capacity, RefillRate, RefillInterval,
    InitialTokens,  \* the largest initialTokens considered, may exceed the capacity
    PollCap,        \* the longest pause between two polls, 50 ms
    WaitForPermit,  \* queue mode
    MaxWait,        \* maxWaitMs, 0 for no limit
    Horizon         \* the observer's window

ASSUME RateAssumption ==
    /\ Capacity \in Nat \ {0} /\ RefillRate \in Nat \ {0}
    /\ RefillInterval \in Nat \ {0} /\ PollCap \in Nat \ {0}
    /\ InitialTokens \in Nat
    /\ WaitForPermit \in BOOLEAN /\ MaxWait \in Nat /\ Horizon \in Nat

VARIABLES
    tokens, age,  \* the bucket
    pc,           \* the await each call stands at
    timer,        \* time left on the timer of a polling call
    waited,       \* time since waitForPermit was called
    aborted,      \* calls whose signal was aborted
    observed      \* history: the time and the permits of an observed window

vars == <<tokens, age, pc, timer, waited, aborted, observed>>

Lesser(a, b) == IF a < b THEN a ELSE b
Greater(a, b) == IF a > b THEN a ELSE b

\* The bound of age: a bucket nobody asked for so long is as good as full.
LongIdle == Greater(RefillInterval * Capacity, Horizon)

\* A window opens: burst is what the bucket may give in it without a refill.
NewWindow == [time |-> 0, permits |-> 0, refills |-> 0, burst |-> Greater(Capacity, tokens)]

Init ==
    /\ tokens \in 0..InitialTokens
    /\ age = 0
    /\ pc = [c \in Callers |-> "idle"]
    /\ timer = [c \in Callers |-> 0]
    /\ waited = [c \in Callers |-> 0]
    /\ aborted = {}
    /\ observed = NewWindow
-----------------------------------------------------------------------------
Goto(c, place) == pc' = [pc EXCEPT ![c] = place]

Refills == age \div RefillInterval

\* The tokens after updateTokens.  initialTokens is not capped until a refill.
Refilled ==
    IF Refills > 0 THEN Lesser(Capacity, tokens + Refills * RefillRate) ELSE tokens

\* Mutant: the refill is not capped.
UpdateTokens_Uncapped(taken) ==
    /\ tokens' = tokens + Refills * RefillRate - taken
    /\ age' = IF Refills > 0 THEN 0 ELSE age

\* Mutant: lastRefill moves although nothing was added.
UpdateTokens_AlwaysMoves(taken) ==
    /\ tokens' = Refilled - taken
    /\ age' = 0

\* updateTokens, and the tokens the caller takes.
UpdateTokens(taken) ==
    /\ tokens' = Refilled - taken
    /\ age' = IF Refills > 0 THEN 0 ELSE age

Watch(permits) ==
    observed' = [time |-> observed.time,
                 permits |-> observed.permits + permits,
                 refills |-> Lesser(observed.refills + Refills, Horizon),
                 burst |-> observed.burst]

\* Mutant: the wait is measured from the last poll.
Pausing_Restarts(c, pause, elapsed) ==
    /\ timer' = [timer EXCEPT ![c] = pause]
    /\ waited' = [waited EXCEPT ![c] = 0]

Pausing(c, pause, elapsed) ==
    /\ timer' = [timer EXCEPT ![c] = pause]
    /\ waited' = [waited EXCEPT ![c] = elapsed]

\* acquire() returns true.
Permit(c) ==
    /\ Refilled >= 1
    /\ UpdateTokens(1)
    /\ Watch(1)
    /\ Goto(c, "permitted")
    /\ Pausing(c, 0, 0)

\* acquire() returns false, and the call fails: at once without queue mode,
\* else when its time is over or the next refill comes too late.
Refuse(c, elapsed) ==
    /\ Refilled < 1
    /\ UpdateTokens(0)
    /\ \/ ~WaitForPermit
       \/ MaxWait > 0 /\ elapsed >= MaxWait
       \/ MaxWait > 0 /\ elapsed + (RefillInterval - age') > MaxWait
    /\ Watch(0)
    /\ Goto(c, "idle")
    /\ aborted' = aborted \ {c}
    /\ Pausing(c, 0, 0)

\* acquire() returns false, and the call pauses until its next poll.
Pause(c, elapsed) ==
    /\ Refilled < 1
    /\ UpdateTokens(0)
    /\ WaitForPermit
    /\ MaxWait > 0 => elapsed + (RefillInterval - age') <= MaxWait
    /\ Watch(0)
    /\ Goto(c, "polling")
    /\ Pausing(c, Lesser(RefillInterval - age', PollCap), elapsed)

Acquire(c, elapsed) ==
    \/ Permit(c) /\ UNCHANGED aborted
    \/ Refuse(c, elapsed)
    \/ Pause(c, elapsed) /\ UNCHANGED aborted

\* execute(); one with an aborted signal fails before it touches the bucket.
Begin(c) == pc[c] = "idle" /\ Acquire(c, 0)

\* The timer of a polling call has fired, on time or late.
Poll(c) == pc[c] = "polling" /\ timer[c] = 0 /\ Acquire(c, waited[c])

\* The signal reaches the context that fn will be given, and nothing else.
Abort(c) ==
    /\ pc[c] \in {"polling", "permitted"}
    /\ aborted' = aborted \cup {c}
    /\ UNCHANGED <<tokens, age, pc, timer, waited, observed>>

Start(c) ==
    /\ pc[c] = "permitted"
    /\ Goto(c, "running")
    /\ UNCHANGED <<tokens, age, timer, waited, aborted, observed>>

\* fn settles, and execute() reports it.
Finish(c) ==
    /\ pc[c] = "running"
    /\ Goto(c, "idle")
    /\ aborted' = aborted \ {c}
    /\ UNCHANGED <<tokens, age, timer, waited, observed>>

TimePasses ==
    /\ age' = Lesser(age + 1, LongIdle)
    /\ timer' = [c \in Callers |-> IF timer[c] > 0 THEN timer[c] - 1 ELSE 0]
    /\ waited' = [c \in Callers |->
                     IF pc[c] = "polling" THEN Lesser(waited[c] + 1, MaxWait + 1)
                     ELSE 0]
    /\ observed' = IF observed.time < Horizon
                   THEN [observed EXCEPT !.time = @ + 1]
                   ELSE NewWindow
    /\ UNCHANGED <<tokens, pc, aborted>>

\* The observer opens a new window; one that is over opens the next.
Observe ==
    /\ observed' = NewWindow
    /\ UNCHANGED <<tokens, age, pc, timer, waited, aborted>>

Call(c) == Begin(c) \/ Poll(c) \/ Abort(c) \/ Start(c) \/ Finish(c)

Next ==
    \/ \E c \in Callers : Call(c)
    \/ TimePasses
    \/ Observe

Spec == Init /\ [][Next]_vars

\* The clock advances, timers fire and permitted calls go on.
Fairness ==
    /\ WF_vars(TimePasses)
    /\ \A c \in Callers : WF_vars(Poll(c)) /\ WF_vars(Start(c))

FairSpec == Spec /\ Fairness
-----------------------------------------------------------------------------
TypeOK ==
    /\ tokens \in 0..Greater(Capacity, InitialTokens)
    /\ age \in 0..LongIdle
    /\ pc \in [Callers -> {"idle", "polling", "permitted", "running"}]
    /\ timer \in [Callers -> 0..Lesser(PollCap, RefillInterval)]
    /\ waited \in [Callers -> 0..(MaxWait + 1)]
    /\ aborted \subseteq Callers
    /\ observed \in [time : 0..Horizon, permits : Nat, refills : 0..Horizon, burst : Nat]

\* The sustained rate and the burst: in any window, of any length and begun at
\* any moment, the bucket gives no more permits than it can hold, or holds at
\* the start, and what the refills that fall into the window add.
RateBound ==
    observed.permits
        <= observed.burst + RefillRate * (1 + observed.time \div RefillInterval)

\* A refill that is computed late forgets the started interval (lastRefill
\* becomes now), but never a whole one: however the bucket is asked, at least
\* half of the intervals that pass in a window are paid or still owed.
RefillsAtHalfRate ==
    observed.time < 2 * RefillInterval * (observed.refills + Refills + 1)

\* While calls wait, permits are given: polling does not put off the refill it
\* waits for, and no timer is set past it.
WaitersProgress ==
    <>[](\E c \in Callers : pc[c] = "polling") => []<><<\E c \in Callers : Permit(c)>>_vars

\* maxWaitMs: a call that waits is served or refused, even when others take
\* every token it waits for.
WaitEnds ==
    MaxWait > 0 => \A c \in Callers : pc[c] = "polling" ~> pc[c] # "polling"
=============================================================================
