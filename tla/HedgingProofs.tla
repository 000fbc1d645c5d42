--------------------------- MODULE HedgingProofs ---------------------------
(***************************************************************************)
(* Proofs about Hedging, for every number of hedges, delayed or not.       *)
(***************************************************************************)
EXTENDS Hedging, FiniteSetTheorems, TLAPS

FailedAttempts == {a \in Attempts : status[a] = "failed"}

\* Nothing has happened before the call.
Untouched ==
    ~Called => /\ \A a \in Attempts : status[a] = "no call"
               /\ failures = 0 /\ ~completed /\ outcome = "pending"

\* The race is closed by its winner, and only a winner resolves the call.
ClosedByWinner ==
    /\ \A a \in Attempts : status[a] = "won" => completed
    /\ outcome = "resolved" => completed

CountExact == failures = Cardinality(FailedAttempts)

\* The invariant that is inductive whether or not fn throws early.
IInv == TypeOK /\ Untouched /\ ClosedByWinner /\ CountExact
          /\ OneWinner /\ LosersCancelled

LEMMA AttemptsFinite ==
    /\ IsFiniteSet(Attempts)
    /\ Cardinality(Attempts) = 1 + MaxHedges
    /\ 1 \in Attempts
BY HedgingAssumption, FS_Interval DEF Attempts

\* Every attempt that has failed is counted; the count can rise by one only
\* while an attempt has not failed.
LEMMA FailedFinite ==
    /\ IsFiniteSet(FailedAttempts)
    /\ Cardinality(FailedAttempts) \in 0..(1 + MaxHedges)
    /\ Cardinality(FailedAttempts) = 1 + MaxHedges => FailedAttempts = Attempts
<1>1. FailedAttempts \in SUBSET Attempts
  BY DEF FailedAttempts
<1>2. /\ IsFiniteSet(FailedAttempts)
      /\ Cardinality(FailedAttempts) <= 1 + MaxHedges
      /\ Cardinality(FailedAttempts) = 1 + MaxHedges => FailedAttempts = Attempts
  BY <1>1, AttemptsFinite, FS_Subset
<1>3. Cardinality(FailedAttempts) \in Nat
  BY <1>2, FS_CardinalityType
<1> QED BY <1>2, <1>3, HedgingAssumption

LEMMA InitIInv == Init => IInv
<1> SUFFICES ASSUME Init PROVE IInv
  OBVIOUS
<1>1. FailedAttempts = {}
  BY DEF Init, FailedAttempts
<1>2. CountExact
  BY <1>1, FS_EmptySet DEF Init, CountExact
<1>3. TypeOK
  <2>1. failures \in 0..(1 + MaxHedges)
    <3>1. failures = 0
      BY DEF Init
    <3> QED BY <3>1, HedgingAssumption
  <2>2. status \in [Attempts -> Statuses]
    BY DEF Init, Statuses
  <2>3. /\ completed \in BOOLEAN /\ cancelled \in BOOLEAN /\ delayed \in BOOLEAN
        /\ outcome = "pending" /\ aborted \subseteq Launched
    BY Zenon DEF Init
  <2> QED BY <2>1, <2>2, <2>3 DEF TypeOK
<1>4. (\A a \in Attempts : status[a] = "no call") /\ outcome = "pending"
      /\ failures = 0 /\ ~completed
  BY DEF Init
<1>5. Untouched /\ ClosedByWinner /\ OneWinner /\ LosersCancelled
  BY <1>4 DEF Untouched, ClosedByWinner, OneWinner, LosersCancelled
<1> QED BY <1>2, <1>3, <1>5 DEF IInv

\* A step that fails nobody keeps the count.
LEMMA SameCount ==
    ASSUME CountExact, FailedAttempts' = FailedAttempts, failures' = failures
    PROVE  CountExact'
<1>1. CountExact' <=> failures' = Cardinality(FailedAttempts')
  BY DEF CountExact, FailedAttempts
<1> QED BY <1>1 DEF CountExact

LEMMA StartStep == ASSUME IInv, Start PROVE IInv'
<1>1. ~Called
  BY DEF Start, AbortedBefore, Execute, ExecuteThrows
<1>2. /\ failures' = failures /\ failures = 0
      /\ completed' = completed /\ ~completed
      /\ delayed' = delayed /\ aborted' = aborted /\ cancelled' = cancelled
      /\ outcome' # "resolved"
      /\ outcome' \in {"pending", "cancelled", "rejected"}
      /\ \A a \in Attempts : status[a] = "no call"
  BY <1>1 DEF IInv, Untouched, Start, AbortedBefore, Execute, ExecuteThrows
<1>3. /\ status' \in [Attempts -> {"unborn", "running", "armed", "lost"}]
      /\ status'[1] # "no call"
  <2>1. CASE AbortedBefore
    BY <2>1, AttemptsFinite DEF AbortedBefore
  <2>2. CASE Execute
    BY <2>2, AttemptsFinite DEF Execute
  <2>3. ASSUME NEW a \in Attempts, ExecuteThrows(a) PROVE <1>3!1 /\ <1>3!2
    BY <2>3, AttemptsFinite DEF ExecuteThrows
  <2> QED BY <2>1, <2>2, <2>3 DEF Start
<1>4. FailedAttempts = {} /\ FailedAttempts' = {}
  BY <1>2, <1>3 DEF FailedAttempts
<1>5. CountExact'
  BY <1>2, <1>4, SameCount DEF IInv
<1>6. aborted = {}
  BY <1>2 DEF IInv, TypeOK, Launched
<1>7. TypeOK'
  BY <1>2, <1>3, <1>6 DEF IInv, TypeOK, Statuses, Launched
<1> QED BY <1>2, <1>3, <1>5, <1>7
  DEF IInv, Untouched, Called, ClosedByWinner, OneWinner, LosersCancelled

LEMMA CancelStep == ASSUME IInv, Cancel PROVE IInv'
<1>1. /\ UNCHANGED <<delayed, status, failures, completed, outcome>>
      /\ cancelled' = TRUE /\ aborted \subseteq aborted'
      /\ aborted' \subseteq Launched
  BY DEF Cancel, IInv, TypeOK, Launched, Settled
<1>2. Launched' = Launched /\ Running' = Running /\ FailedAttempts' = FailedAttempts
  BY <1>1 DEF Launched, Running, FailedAttempts
<1>3. CountExact'
  BY <1>1, <1>2, SameCount DEF IInv
<1> QED BY <1>1, <1>2, <1>3
  DEF IInv, TypeOK, Untouched, Called, ClosedByWinner, OneWinner, LosersCancelled

\* The steps of one attempt that neither answer nor fail it.
LEMMA QuietStep ==
    ASSUME IInv, NEW a \in Attempts, HedgeTimer(a) \/ Return(a) \/ Throw(a)
    PROVE  IInv'
<1>1. /\ UNCHANGED <<delayed, aborted, failures, completed, outcome, cancelled>>
      /\ status[a] \in {"armed", "running"}
      /\ \E s \in {"unborn", "running", "lost", "returned", "threw"} :
           /\ status' = [status EXCEPT ![a] = s]
           /\ s = "running" => ~completed
           /\ status[a] = "running" => s \in {"returned", "threw"}
  BY DEF HedgeTimer, Return, Throw, Set
<1>2. PICK s \in {"unborn", "running", "lost", "returned", "threw"} :
        /\ status' = [status EXCEPT ![a] = s]
        /\ s = "running" => ~completed
        /\ status[a] = "running" => s \in {"returned", "threw"}
  BY <1>1
<1>3. /\ status' \in [Attempts -> Statuses]
      /\ status'[a] = s
      /\ \A b \in Attempts : b # a => status'[b] = status[b]
  BY <1>2 DEF IInv, TypeOK, Statuses
<1>4. Called
  BY <1>1 DEF IInv, Untouched
<1>5. Called'
  BY <1>2, <1>3, <1>4, AttemptsFinite DEF Called
<1>6. FailedAttempts' = FailedAttempts
  BY <1>1, <1>2, <1>3 DEF FailedAttempts
<1>7. CountExact'
  BY <1>1, <1>6, SameCount DEF IInv
<1>8. Launched \subseteq Launched'
  BY <1>1, <1>2, <1>3 DEF Launched
<1>9. LosersCancelled'
  BY <1>1, <1>2, <1>3 DEF IInv, LosersCancelled, ClosedByWinner, Running
<1>10. OneWinner' /\ ClosedByWinner'
  BY <1>1, <1>2, <1>3 DEF IInv, OneWinner, ClosedByWinner
<1> QED BY <1>1, <1>3, <1>5, <1>7, <1>8, <1>9, <1>10 DEF IInv, TypeOK, Untouched

LEMMA ResultStep == ASSUME IInv, NEW a \in Attempts, OnResult(a) PROVE IInv'
<1>1. PICK s \in {"late", "won"} :
        /\ status' = [status EXCEPT ![a] = s]
        /\ s = "won" <=> ~completed
  BY DEF OnResult, Set
<1>2. /\ status' \in [Attempts -> Statuses]
      /\ status'[a] = s
      /\ \A b \in Attempts : b # a => status'[b] = status[b]
      /\ status[a] = "returned"
  BY <1>1 DEF IInv, TypeOK, Statuses, OnResult
<1>3. Called'
  BY <1>1, <1>2, AttemptsFinite DEF IInv, Untouched, Called
<1>4. FailedAttempts' = FailedAttempts /\ failures' = failures
  BY <1>1, <1>2 DEF FailedAttempts, OnResult
<1>5. CountExact'
  BY <1>4, SameCount DEF IInv
<1>6. Launched' = Launched /\ Running' = Running /\ Running \subseteq Launched
  BY <1>1, <1>2 DEF Launched, Running
<1>7. /\ completed' = TRUE /\ cancelled' = cancelled /\ delayed' = delayed
      /\ aborted' = (IF completed THEN aborted ELSE aborted \cup Launched)
      /\ outcome' = IF completed \/ outcome # "pending" THEN outcome ELSE "resolved"
  BY DEF OnResult, Answer, IInv, TypeOK
<1>8. TypeOK'
  BY <1>2, <1>4, <1>6, <1>7 DEF IInv, TypeOK
<1>9. ClosedByWinner'
  BY <1>7 DEF ClosedByWinner
<1>10. OneWinner'
  BY <1>1, <1>2, <1>7 DEF IInv, OneWinner, ClosedByWinner
<1>11. LosersCancelled'
  BY <1>6, <1>7 DEF IInv, LosersCancelled, ClosedByWinner
<1> QED BY <1>3, <1>5, <1>8, <1>9, <1>10, <1>11 DEF IInv, Untouched

\* After onError one more attempt has failed and is counted.
LEMMA ErrorCounts ==
    ASSUME IInv, NEW a \in Attempts, OnError(a)
    PROVE  /\ CountExact' /\ failures' = failures + 1
           /\ failures' \in 0..(1 + MaxHedges)
           /\ status' = [status EXCEPT ![a] = "failed"]
           /\ failures' = 1 + MaxHedges => \A b \in Attempts : status'[b] = "failed"
<1>1. status[a] = "threw" /\ failures' = failures + 1
      /\ status' = [status EXCEPT ![a] = "failed"]
  BY DEF OnError, Set
<1> DEFINE after == {b \in Attempts : status'[b] = "failed"}
<1>2. after = FailedAttempts \cup {a} /\ a \notin FailedAttempts
  BY <1>1 DEF FailedAttempts, IInv, TypeOK
<1>3. Cardinality(after) = Cardinality(FailedAttempts) + 1
  BY <1>2, FailedFinite, FS_AddElement
<1>4. FailedAttempts' = after
  BY DEF FailedAttempts
<1>5. Cardinality(FailedAttempts') = failures'
  BY <1>1, <1>3, <1>4 DEF IInv, CountExact
<1>6. after \in SUBSET Attempts
  OBVIOUS
<1>7. /\ Cardinality(after) <= 1 + MaxHedges
      /\ Cardinality(after) = 1 + MaxHedges => after = Attempts
  BY <1>6, AttemptsFinite, FS_Subset
<1>8. CountExact'
  <2>1. CountExact' <=> failures' = Cardinality(FailedAttempts')
    BY DEF CountExact, FailedAttempts
  <2> QED BY <2>1, <1>5
<1>9. failures' \in 0..(1 + MaxHedges)
  BY <1>1, <1>4, <1>5, <1>7, HedgingAssumption DEF IInv, TypeOK
<1>10. failures' = 1 + MaxHedges => \A b \in Attempts : status'[b] = "failed"
  BY <1>4, <1>5, <1>7
<1> QED BY <1>1, <1>8, <1>9, <1>10

LEMMA ErrorStep == ASSUME IInv, NEW a \in Attempts, OnError(a) PROVE IInv'
<1>1. /\ status' \in [Attempts -> Statuses]
      /\ status'[a] = "failed" /\ status[a] = "threw"
      /\ \A b \in Attempts : b # a => status'[b] = status[b]
  BY ErrorCounts DEF IInv, TypeOK, Statuses, OnError
<1>2. Called'
  BY <1>1, AttemptsFinite DEF IInv, Untouched, Called
<1>3. Launched' = Launched /\ Running' = Running
  BY <1>1 DEF Launched, Running
<1>4. /\ delayed' = delayed /\ aborted' = aborted /\ cancelled' = cancelled
      /\ completed' \in BOOLEAN /\ (completed => completed')
      /\ outcome' \in {outcome, "rejected"}
      /\ outcome' = "resolved" => outcome = "resolved"
  BY DEF OnError, Answer, IInv, TypeOK
<1>5. TypeOK'
  BY <1>1, <1>3, <1>4, ErrorCounts DEF IInv, TypeOK
<1>6. ClosedByWinner'
  BY <1>1, <1>4 DEF IInv, ClosedByWinner
<1>7. OneWinner'
  BY <1>1, <1>4 DEF IInv, OneWinner
<1>8. LosersCancelled'
  BY <1>3, <1>4 DEF IInv, LosersCancelled
<1> QED BY <1>2, <1>5, <1>6, <1>7, <1>8, ErrorCounts DEF IInv, Untouched

LEMMA StepIInv == IInv /\ [Next]_vars => IInv'
<1> SUFFICES ASSUME IInv, [Next]_vars PROVE IInv'
  OBVIOUS
<1>1. CASE UNCHANGED vars
  <2>1. FailedAttempts' = FailedAttempts /\ Launched' = Launched /\ Running' = Running
    BY <1>1 DEF vars, FailedAttempts, Launched, Running
  <2>2. CountExact'
    BY <1>1, <2>1, SameCount DEF vars, IInv
  <2> QED BY <1>1, <2>1, <2>2
    DEF vars, IInv, TypeOK, Untouched, Called, ClosedByWinner, OneWinner, LosersCancelled
<1> QED BY <1>1, StartStep, CancelStep, QuietStep, ResultStep, ErrorStep
  DEF Next, Microtask

\* Whatever fn does, at most one attempt wins, a call is resolved only by a
\* winner, and once it is resolved every attempt that still runs is cancelled.
THEOREM HedgingSafety == Spec => [](TypeOK /\ OneWinner /\ LosersCancelled)
<1>1. IInv => TypeOK /\ OneWinner /\ LosersCancelled
  BY DEF IInv
<1> QED BY <1>1, InitIInv, StepIInv, PTL DEF Spec

\* Unless fn threw before it returned a promise, a call is rejected only when
\* every attempt has been launched and has failed.
THEOREM NoEarlyRejection == Spec => []RejectsOnlyWhenAllFailed
<1>1. Init => RejectsOnlyWhenAllFailed
  BY DEF Init, RejectsOnlyWhenAllFailed
<1>2. IInv /\ RejectsOnlyWhenAllFailed /\ [Next]_vars => RejectsOnlyWhenAllFailed'
  <2> SUFFICES ASSUME IInv, RejectsOnlyWhenAllFailed, [Next]_vars,
                      outcome' = "rejected", Lost' = {}
               PROVE  \A b \in Attempts : status'[b] = "failed"
    BY DEF RejectsOnlyWhenAllFailed
  <2>0. status \in [Attempts -> Statuses]
    BY DEF IInv, TypeOK
  <2>1. CASE Start
    <3>1. CASE AbortedBefore \/ Execute
      <4>1. outcome = "pending"
        BY <3>1 DEF AbortedBefore, Execute, IInv, Untouched
      <4>2. outcome' # "rejected"
        BY <3>1, <4>1 DEF AbortedBefore, Execute
      <4> QED BY <4>2
    <3>2. ASSUME NEW a \in Attempts, ExecuteThrows(a) PROVE FALSE
      <4>1. status'[a] = "lost"
        BY <3>2, HedgingAssumption DEF ExecuteThrows, Attempts
      <4> QED BY <4>1 DEF Lost
    <3> QED BY <2>1, <3>1, <3>2 DEF Start
  <2>2. CASE Cancel \/ UNCHANGED vars
    BY <2>2 DEF Cancel, vars, RejectsOnlyWhenAllFailed, Lost
  <2>3. ASSUME NEW a \in Attempts, NEW s \in Statuses, Set(a, s), status[a] # "lost"
        PROVE  Lost = {}
    BY <2>0, <2>3 DEF Set, Lost
  <2>4. ASSUME NEW a \in Attempts, HedgeTimer(a) \/ Return(a) \/ Throw(a)
        PROVE  \A b \in Attempts : status'[b] = "failed"
    <3>1. outcome = "rejected" /\ status[a] \in {"armed", "running"}
          /\ \E s \in Statuses : Set(a, s)
      BY <2>4 DEF HedgeTimer, Return, Throw, Statuses
    <3>2. Lost = {}
      BY <2>3, <3>1
    <3> QED BY <3>1, <3>2 DEF RejectsOnlyWhenAllFailed
  <2>5. ASSUME NEW a \in Attempts, OnResult(a)
        PROVE  \A b \in Attempts : status'[b] = "failed"
    <3>1. outcome = "rejected" /\ status[a] = "returned"
          /\ \E s \in Statuses : Set(a, s)
      BY <2>5 DEF OnResult, Answer, Statuses
    <3>2. Lost = {}
      BY <2>3, <3>1
    <3> QED BY <3>1, <3>2 DEF RejectsOnlyWhenAllFailed
  <2>6. ASSUME NEW a \in Attempts, OnError(a)
        PROVE  \A b \in Attempts : status'[b] = "failed"
    <3>1. CASE failures' = 1 + MaxHedges
      BY <3>1, <2>6, ErrorCounts
    <3>2. CASE failures' # 1 + MaxHedges
      <4>1. ~(failures + 1 >= 1 + MaxHedges)
        BY <3>2, <2>6, ErrorCounts, HedgingAssumption DEF IInv, TypeOK
      <4>2. outcome = "rejected" /\ status[a] = "threw" /\ Set(a, "failed")
        BY <4>1, <2>6 DEF OnError
      <4>3. Lost = {}
        BY <2>3, <4>2 DEF Statuses
      <4> QED BY <4>2, <4>3 DEF RejectsOnlyWhenAllFailed
    <3> QED BY <3>1, <3>2
  <2> QED BY <2>1, <2>2, <2>4, <2>5, <2>6 DEF Next, Microtask
<1> QED BY <1>1, <1>2, InitIInv, StepIInv, PTL DEF Spec

\* A call that is not answered waits for something that will come: a timer, an
\* operation, or the microtask after one.  Only a throw into a timer callback
\* leaves it with nothing.
PendingIsAwaited ==
    Called /\ outcome = "pending" /\ Lost = {} =>
        \E a \in Attempts : status[a] \in {"armed", "running", "returned", "threw"}

\* The statuses that an attempt has while the race is open.
Racing == {"armed", "running", "returned", "threw", "failed", "lost"}

\* A pending call is a race that nothing has closed, and an attempt that was
\* never launched belongs to none.
OpenRace ==
    Called /\ outcome = "pending" =>
        ~completed /\ failures < 1 + MaxHedges /\ \A a \in Attempts : status[a] \in Racing

LEMMA OpenRaceInit == Init => OpenRace
<1>1. 1 \in Attempts
  BY AttemptsFinite
<1> QED BY <1>1 DEF Init, OpenRace, Called

\* The call itself launches every attempt or arms its timer.
LEMMA OpenRaceStart == ASSUME IInv, Start, outcome' = "pending" PROVE OpenRace'
<1>1. ~Called
  BY DEF Start, AbortedBefore, Execute, ExecuteThrows
<1>2. Execute
  BY DEF Start, AbortedBefore, ExecuteThrows
<1>3. ~completed' /\ failures' = 0
  BY <1>1, <1>2 DEF IInv, Untouched, Execute
<1>4. \A a \in Attempts : status'[a] \in {"running", "armed"}
  BY <1>2 DEF Execute
<1>5. failures' < 1 + MaxHedges
  BY <1>3, HedgingAssumption
<1> QED BY <1>3, <1>4, <1>5 DEF OpenRace, Racing

\* A step of one attempt in an open race leaves it in the race, or closes it.
LEMMA OpenRaceMove ==
    ASSUME IInv, OpenRace, Called, outcome = "pending", NEW a \in Attempts,
           NEW s \in Racing, status' = [status EXCEPT ![a] = s],
           ~completed', failures' < 1 + MaxHedges
    PROVE  OpenRace'
<1>1. \A b \in Attempts : status'[b] \in Racing
  BY DEF OpenRace, IInv, TypeOK
<1> QED BY <1>1 DEF OpenRace

LEMMA OpenRaceStep == IInv /\ OpenRace /\ [Next]_vars => OpenRace'
<1> SUFFICES ASSUME IInv, OpenRace, [Next]_vars, outcome' = "pending" PROVE OpenRace'
  BY DEF OpenRace
<1>1. CASE Start
  BY <1>1, OpenRaceStart
<1>2. CASE Cancel \/ UNCHANGED vars
  BY <1>2 DEF Cancel, vars, OpenRace, Called
<1>3. ASSUME NEW a \in Attempts, HedgeTimer(a) \/ Return(a) \/ Throw(a) \/ Microtask(a)
      PROVE  OpenRace'
  <2>1. Called /\ outcome = "pending"
    <3>1. status[a] # "no call"
      BY <1>3 DEF HedgeTimer, Return, Throw, Microtask, OnResult, OnError
    <3>2. Called
      BY <3>1 DEF IInv, Untouched
    <3>3. outcome = "pending"
      BY <1>3 DEF HedgeTimer, Return, Throw, Microtask, OnResult, OnError, Answer
    <3> QED BY <3>2, <3>3
  <2>2. ~completed /\ failures < 1 + MaxHedges
    BY <2>1 DEF OpenRace
  <2>3. ~OnResult(a)
    BY <2>1, <2>2 DEF OnResult, Answer
  <2>4. CASE HedgeTimer(a) \/ Return(a) \/ Throw(a)
    <3>1. PICK s \in Racing : status' = [status EXCEPT ![a] = s]
      BY <2>2, <2>4 DEF HedgeTimer, Return, Throw, Set, Racing
    <3>2. completed' = completed /\ failures' = failures
      BY <2>4 DEF HedgeTimer, Return, Throw
    <3> QED BY <2>1, <2>2, <3>1, <3>2, OpenRaceMove
  <2>5. CASE OnError(a)
    <3>1. ~(failures + 1 >= 1 + MaxHedges) /\ ~completed' /\ failures' = failures + 1
      BY <2>1, <2>2, <2>5 DEF OnError, Answer
    <3>2. failures' < 1 + MaxHedges
      BY <3>1, HedgingAssumption DEF IInv, TypeOK
    <3>3. status' = [status EXCEPT ![a] = "failed"] /\ "failed" \in Racing
      BY <2>5 DEF OnError, Set, Racing
    <3> QED BY <2>1, <3>1, <3>2, <3>3, OpenRaceMove
  <2> QED BY <1>3, <2>3, <2>4, <2>5 DEF Microtask
<1> QED BY <1>1, <1>2, <1>3 DEF Next

\* hedging-policy.ts:240-252 and :264-279: failures is compared with the number
\* of attempts configured, so no failure leaves a call that nothing will answer.
\* This is what the liveness of a call rests on, for every number of hedges.
THEOREM NobodyIsForgotten == Spec => []PendingIsAwaited
<1>1. IInv /\ OpenRace => PendingIsAwaited
  <2> SUFFICES ASSUME IInv, OpenRace, Called, outcome = "pending", Lost = {},
                      \A a \in Attempts : status[a] \notin {"armed", "running", "returned", "threw"}
               PROVE  FALSE
    BY DEF PendingIsAwaited
  <2>1. \A a \in Attempts : status[a] = "failed"
    BY DEF OpenRace, Racing, Lost
  <2>2. FailedAttempts = Attempts
    BY <2>1 DEF FailedAttempts
  <2>3. failures = 1 + MaxHedges
    BY <2>2, AttemptsFinite DEF IInv, CountExact
  <2>4. failures < 1 + MaxHedges
    BY DEF OpenRace
  <2> QED BY <2>3, <2>4, HedgingAssumption
<1> QED BY <1>1, InitIInv, StepIInv, OpenRaceInit, OpenRaceStep, PTL DEF Spec

\* hedging-policy.ts:223-238: at most one attempt wins.
COROLLARY WinnerIsUnique == Spec => []OneWinner
BY HedgingSafety, PTL
=============================================================================
