------------------------- MODULE RetryTimeoutProofs -------------------------
(***************************************************************************)
(* What RetryTimeout guarantees for every number of attempts, both timeout *)
(* strategies, every backoff strategy and every operation.                 *)
(*                                                                         *)
(* The invariant has one part for each execution of the timeout policy     *)
(* (ExecInv) and one for the retry loop around them (LoopInv).  Its core   *)
(* is Settled: an execution that is not the current attempt has answered.  *)
(* What a decided race implies (ExecInv) then turns answers into signals.  *)
(***************************************************************************)
EXTENDS RetryTimeout, FiniteSetTheorems, TLAPS

Delaying == at \in {"delay after result", "delay after error"}

ExecInv(e) ==
    /\ fn[e] = "none" =>
           timer[e] = "none" /\ winner[e] = "none" /\ answer[e] = "pending" /\ e \notin told
    /\ winner[e] = "none" => fn[e] \in {"none", "running"}
    /\ winner[e] = "fn" => fn[e] \notin {"none", "running"}
    /\ winner[e] = "timer" => e \in told /\ ~optimistic
    /\ answer[e] # "pending" => winner[e] # "none" /\ timer[e] # "armed"

LoopType ==
    /\ at \in {"called", "attempting", "delay after result", "delay after error", "done"}
    /\ attempt \in 0..(1 + MaxAttempts)
    /\ reported \in 0..(1 + MaxAttempts)
    /\ overdue \in BOOLEAN /\ cancelled \in BOOLEAN
    /\ outcome \in {"pending", "resolved", "rejected", "aborted"}

\* Where the loop stands and which attempts have been begun.
Position ==
    /\ at = "called" => attempt = 0
    /\ at = "attempting" => attempt >= 1
    /\ Delaying => attempt >= 1 /\ attempt <= MaxAttempts
    /\ at = "done" => attempt >= 1
    /\ \A e \in Execs : fn[e] # "none" => e <= attempt
    /\ \A e \in Execs : e < attempt => fn[e] # "none"
    /\ at # "done" => \A e \in Execs : e <= attempt => fn[e] # "none"

\* Every execution but the current one has answered.
Settled ==
    \A e \in Execs : fn[e] # "none" /\ (at # "attempting" \/ e # attempt)
                         => answer[e] # "pending"

Cancelled == cancelled => \A e \in Execs : fn[e] # "none" => e \in told

Verdict ==
    /\ outcome = "rejected" => at = "done"
    /\ outcome = "rejected" => reported = attempt
    /\ outcome = "rejected" => (\A e \in Execs : e = attempt => fn[e] # "none") \/ overdue

LoopInv == LoopType /\ Position /\ Settled /\ Cancelled /\ Verdict

Inv == TimeoutTypeOK /\ (\A e \in Execs : ExecInv(e)) /\ LoopInv
-----------------------------------------------------------------------------
\* What a step of the whole does to the executions.
TimeoutStep ==
    \/ \E e \in Execs : Begin(e) \/ TimerFires(e) \/ FnEnds(e) \/ Continue(e)
    \/ Tell(Execs)
    \/ UNCHANGED timeoutVars

LEMMA Attempts == MaxAttempts \in Nat /\ Execs = 1..(1 + MaxAttempts)
BY RetryAssumption

\* The numbers of the invariant, apart from its truth values.
LEMMA Numbers ==
    ASSUME Inv
    PROVE  /\ attempt \in 0..(1 + MaxAttempts) /\ reported \in 0..(1 + MaxAttempts)
           /\ Position
BY DEF Inv, LoopInv, LoopType

LEMMA BeforeAttempt ==
    ASSUME Inv, at = "called" \/ Delaying
    PROVE  /\ attempt \in 0..MaxAttempts /\ attempt + 1 \in Execs
           /\ \A e \in Execs : fn[e] # "none" <=> e <= attempt
           /\ \A e \in Execs : fn[e] # "none" => answer[e] # "pending"
<1>1. attempt \in 0..MaxAttempts
    BY Numbers, Attempts DEF Position
<1>2. \A e \in Execs : fn[e] # "none" <=> e <= attempt
    BY Numbers, Attempts DEF Position, Delaying
<1>3. Settled  BY DEF Inv, LoopInv
<1>4. at # "attempting"  BY DEF Delaying
<1>5. attempt + 1 \in Execs  BY <1>1, Attempts
<1> QED  BY <1>1, <1>2, <1>3, <1>4, <1>5 DEF Settled

LEMMA StepsOfExecutions ==
    ASSUME Inv, [Next]_vars
    PROVE  TimeoutStep
<1>1. CASE Start \/ Resume
    <2>1. attempt + 1 \in Execs
        BY <1>1, BeforeAttempt DEF Start, Resume, Delaying
    <2>2. NextAttempt  BY <1>1 DEF Start, Resume
    <2>3. UNCHANGED timeoutVars \/ Begin(attempt + 1)  BY <2>2 DEF NextAttempt
    <2> QED  BY <2>1, <2>3 DEF TimeoutStep
<1>2. CASE DelayAborted  BY <1>2 DEF DelayAborted, TimeoutStep
<1>3. CASE \E a \in Execs : Returned(a) \/ Failed(a)
    BY <1>3 DEF Returned, Failed, TimeoutStep
<1>4. CASE Cancel  BY <1>4 DEF Cancel, TimeoutStep
<1>5. CASE TimeRunsOut  BY <1>5 DEF TimeRunsOut, TimeoutStep
<1>6. CASE OthersPause  BY <1>6 DEF OthersPause, TimeoutStep
<1>7. CASE \E e \in Execs : Inner(e) \/ Operation(e)
    BY <1>7 DEF Inner, Operation, TimeoutStep
<1>8. CASE UNCHANGED vars  BY <1>8 DEF vars, timeoutVars, TimeoutStep
<1> QED  BY <1>1, <1>2, <1>3, <1>4, <1>5, <1>6, <1>7, <1>8 DEF Next, Loop

LEMMA ExecutionsStep ==
    ASSUME TimeoutTypeOK, \A e \in Execs : ExecInv(e), TimeoutStep
    PROVE  TimeoutTypeOK' /\ \A e \in Execs : ExecInv(e)'
<1> USE DEF TimeoutTypeOK, ExecInv
<1>1. CASE UNCHANGED timeoutVars  BY <1>1 DEF timeoutVars
<1>2. CASE Tell(Execs)  BY <1>2 DEF Tell
<1>3. ASSUME NEW f \in Execs, Begin(f)
      PROVE  TimeoutTypeOK' /\ \A e \in Execs : ExecInv(e)'
    BY <1>3 DEF Begin, FnStates
<1>4. ASSUME NEW f \in Execs, TimerFires(f)
      PROVE  TimeoutTypeOK' /\ \A e \in Execs : ExecInv(e)'
    <2>1. fn[f] # "none" /\ answer[f] = "pending" /\ winner[f] = "none"
        BY <1>4 DEF TimerFires, Decided
    <2>2. timer' = [timer EXCEPT ![f] = "fired"] /\ told' = told \cup {f}
          /\ UNCHANGED <<optimistic, answer>>
        BY <1>4 DEF TimerFires
    <2>3. CASE winner' = [winner EXCEPT ![f] = IF optimistic THEN @ ELSE "timer"]
               /\ UNCHANGED fn
        BY <2>1, <2>2, <2>3 DEF FnStates
    <2>4. ASSUME NEW end \in {"returned", "threw", "timed out"},
                 fn' = [fn EXCEPT ![f] = end], winner' = [winner EXCEPT ![f] = "fn"]
          PROVE  TimeoutTypeOK' /\ \A e \in Execs : ExecInv(e)'
        BY <2>1, <2>2, <2>4 DEF FnStates
    <2> QED  BY <1>4, <2>3, <2>4 DEF TimerFires
<1>5. ASSUME NEW f \in Execs, FnEnds(f)
      PROVE  TimeoutTypeOK' /\ \A e \in Execs : ExecInv(e)'
    <2>1. PICK end \in {"returned", "threw", "timed out"} : fn' = [fn EXCEPT ![f] = end]
        BY <1>5 DEF FnEnds, Ends
    <2>2. fn[f] = "running"
          /\ winner' = [winner EXCEPT ![f] = IF @ = "none" THEN "fn" ELSE @]
          /\ UNCHANGED <<optimistic, timer, told, answer>>
        BY <1>5 DEF FnEnds
    <2> QED  BY <2>1, <2>2 DEF FnStates
<1>6. ASSUME NEW f \in Execs, Continue(f)
      PROVE  TimeoutTypeOK' /\ \A e \in Execs : ExecInv(e)'
    BY <1>6 DEF Continue, Decided, FnStates
<1> QED  BY <1>1, <1>2, <1>3, <1>4, <1>5, <1>6 DEF TimeoutStep
-----------------------------------------------------------------------------
\* The parts of LoopInv that a step of the loop proper restores.
LEMMA LoopStepNext ==
    ASSUME Inv, NextAttempt, at = "called" \/ Delaying
    PROVE  LoopInv'
<1>1. attempt \in 0..MaxAttempts /\ attempt + 1 \in Execs
      /\ (\A e \in Execs : fn[e] # "none" <=> e <= attempt)
      /\ (\A e \in Execs : fn[e] # "none" => answer[e] # "pending")
    BY BeforeAttempt
<1>2. LoopType /\ Cancelled /\ Verdict /\ TimeoutTypeOK  BY DEF Inv, LoopInv
<1>3. attempt + 1 \in 0..(1 + MaxAttempts) /\ attempt' = attempt + 1
    BY <1>1, Attempts DEF NextAttempt, Exhausted, ThrowReason
<1>4. /\ attempt' >= 1
      /\ \A e \in Execs : e <= attempt => e <= attempt'
      /\ \A e \in Execs : e < attempt' => e <= attempt
      /\ \A e \in Execs : e <= attempt' => e <= attempt \/ e = attempt + 1
      /\ attempt + 1 <= attempt'
    BY <1>1, <1>3, Attempts
<1>5. LoopType'
    BY <1>2, <1>3 DEF LoopType, NextAttempt, Exhausted, ThrowReason, Done
<1>6. CASE overdue /\ Exhausted(attempt + 1) /\ UNCHANGED timeoutVars
    <2>1. at' = "done" /\ fn' = fn /\ answer' = answer /\ told' = told
        BY <1>6 DEF Exhausted, Done, timeoutVars
    <2>2. Position'  BY <1>1, <1>4, <2>1 DEF Position, Delaying
    <2>3. Settled'  BY <1>1, <2>1 DEF Settled
    <2>4. Cancelled'  BY <1>2, <1>6, <2>1 DEF Cancelled, Exhausted, Done
    <2>5. Verdict'  BY <1>3, <1>6, <2>1 DEF Verdict, Exhausted, Done
    <2> QED  BY <1>5, <2>2, <2>3, <2>4, <2>5 DEF LoopInv
<1>7. CASE ThrowReason(attempt + 1) /\ UNCHANGED timeoutVars
    <2>1. at' = "done" /\ outcome' = "aborted" /\ fn' = fn /\ answer' = answer /\ told' = told
        BY <1>7 DEF ThrowReason, Done, timeoutVars
    <2>2. Position'  BY <1>1, <1>4, <2>1 DEF Position, Delaying
    <2>3. Settled'  BY <1>1, <2>1 DEF Settled
    <2>4. Cancelled'  BY <1>2, <1>7, <2>1 DEF Cancelled, ThrowReason, Done
    <2>5. Verdict'  BY <2>1 DEF Verdict
    <2> QED  BY <1>5, <2>2, <2>3, <2>4, <2>5 DEF LoopInv
<1>8. CASE ~cancelled /\ at' = "attempting" /\ Begin(attempt + 1)
           /\ UNCHANGED <<overdue, cancelled, outcome, reported>>
    <2>1. answer' = answer /\ (\A e \in Execs : e # attempt + 1 => fn'[e] = fn[e])
          /\ fn'[attempt + 1] # "none"
        BY <1>1, <1>2, <1>8 DEF Begin, TimeoutTypeOK
    <2>2. Position'  BY <1>1, <1>4, <1>8, <2>1 DEF Position, Delaying
    <2>3. Settled'  BY <1>1, <1>3, <1>8, <2>1 DEF Settled
    <2>4. Cancelled'  BY <1>8 DEF Cancelled
    <2>5. outcome # "rejected"  BY <1>2 DEF Verdict, Delaying
    <2>6. Verdict'  BY <1>8, <2>5 DEF Verdict
    <2> QED  BY <1>5, <2>2, <2>3, <2>4, <2>6 DEF LoopInv
<1> QED  BY <1>6, <1>7, <1>8 DEF NextAttempt

\* The loop is left, or pauses, after the current execution has answered.
Leave ==
    /\ UNCHANGED timeoutVars /\ attempt' = attempt
    /\ overdue' = overdue /\ cancelled' = cancelled
    /\ \/ at' = "done" /\ outcome' \in {"resolved", "aborted"} /\ reported' = reported
       \/ at' = "done" /\ outcome' = "rejected" /\ reported' = attempt
       \/ /\ attempt <= MaxAttempts /\ at' \in {"delay after result", "delay after error"}
          /\ outcome' = outcome /\ reported' = reported

LEMMA LoopStepLeave ==
    ASSUME Inv, Leave, at = "attempting" \/ Delaying,
           at = "attempting" => answer[attempt] # "pending"
    PROVE  LoopInv'
<1>1. LoopType /\ Cancelled /\ Verdict /\ Settled  BY DEF Inv, LoopInv
<1>2. attempt >= 1 /\ attempt \in 0..(1 + MaxAttempts) /\ at # "done"
      /\ (\A e \in Execs : e <= attempt <=> fn[e] # "none")
    BY Numbers, Attempts DEF Position, Delaying
<1>3. \A e \in Execs : fn[e] # "none" => answer[e] # "pending"
    BY <1>1 DEF Settled, Delaying
<1>4. fn' = fn /\ answer' = answer /\ told' = told  BY DEF Leave, timeoutVars
<1>5. LoopType'
    <2>1. reported' \in 0..(1 + MaxAttempts)  BY <1>1, <1>2 DEF Leave, LoopType
    <2> QED  BY <1>1, <2>1 DEF LoopType, Leave
<1>6. Position'
    <2>1. at' \in {"done", "delay after result", "delay after error"} /\ attempt' = attempt
          /\ (Delaying' => attempt <= MaxAttempts)
        BY DEF Leave, Delaying
    <2>2. \A e \in Execs : e < attempt => e <= attempt  BY <1>2, Attempts
    <2> QED  BY <1>2, <1>4, <2>1, <2>2 DEF Position, Delaying
<1>7. Settled'  BY <1>3, <1>4 DEF Settled
<1>8. Cancelled'  BY <1>1, <1>4 DEF Cancelled, Leave
<1>9. Verdict'
    <2>1. outcome # "rejected"  BY <1>1, <1>2 DEF Verdict
    <2>2. outcome' = "rejected" => at' = "done" /\ reported' = attempt /\ attempt' = attempt
        BY <2>1 DEF Leave
    <2>3. \A e \in Execs : e = attempt => fn[e] # "none"  BY <1>2, Attempts
    <2> QED  BY <1>4, <2>2, <2>3 DEF Verdict
<1> QED  BY <1>5, <1>6, <1>7, <1>8, <1>9 DEF LoopInv

\* The steps that leave the loop where it stands.
LEMMA LoopStepBeside ==
    ASSUME Inv, TimeoutTypeOK', at' = at, attempt' = attempt, reported' = reported,
           outcome' = outcome, overdue' \in {overdue, TRUE}, cancelled' \in {cancelled, TRUE},
           \A e \in Execs : fn'[e] = "none" <=> fn[e] = "none",
           \A e \in Execs : answer[e] # "pending" => answer'[e] # "pending",
           told \subseteq told',
           cancelled' => cancelled \/ \A e \in Execs : fn'[e] # "none" => e \in told'
    PROVE  LoopInv'
<1>1. LoopType'  BY DEF Inv, LoopInv, LoopType
<1>2. Position'  BY Attempts DEF Inv, LoopInv, LoopType, Position, Delaying
<1>3. Settled'  BY DEF Inv, LoopInv, Settled
<1>4. Cancelled'  BY DEF Inv, LoopInv, Cancelled
<1>5. Verdict'  BY DEF Inv, LoopInv, Verdict
<1> QED  BY <1>1, <1>2, <1>3, <1>4, <1>5 DEF LoopInv
-----------------------------------------------------------------------------
LEMMA InvInit == ASSUME Init PROVE Inv
<1>1. TimeoutTypeOK /\ \A e \in Execs : ExecInv(e)
    BY DEF Init, TimeoutInit, TimeoutTypeOK, FnStates, ExecInv
<1>2. LoopType
    <2>1. 0 \in 0..(1 + MaxAttempts)  BY Attempts
    <2> QED  BY <2>1 DEF Init, LoopType
<1>3. Position /\ Settled /\ Cancelled /\ Verdict
    BY Attempts DEF Init, TimeoutInit, Position, Settled, Cancelled, Verdict, Delaying
<1> QED  BY <1>1, <1>2, <1>3 DEF Inv, LoopInv

LEMMA InvNext == ASSUME Inv, [Next]_vars PROVE Inv'
<1>1. TimeoutStep  BY StepsOfExecutions
<1>2. TimeoutTypeOK' /\ \A e \in Execs : ExecInv(e)'
    BY <1>1, ExecutionsStep DEF Inv
<1> SUFFICES LoopInv'  BY <1>2 DEF Inv
<1>3. CASE Start \/ Resume
    <2>1. NextAttempt /\ (at = "called" \/ Delaying)
        BY <1>3 DEF Start, Resume, Delaying
    <2> QED  BY <2>1, LoopStepNext
<1>4. CASE DelayAborted
    <2>1. Leave /\ Delaying
        BY <1>4 DEF DelayAborted, Leave, Delaying, ThrowReason, Exhausted, Pause, Done
    <2>2. at # "attempting"  BY <2>1 DEF Delaying
    <2> QED  BY <2>1, <2>2, LoopStepLeave
<1>5. ASSUME NEW a \in Execs, Returned(a) \/ Failed(a)
      PROVE  LoopInv'
    <2>1. at = "attempting" /\ answer[attempt] # "pending"
        BY <1>5 DEF Returned, Failed, Answered
    <2>2. Leave
        BY <1>5 DEF Returned, Failed, Leave, Exhausted, Pause, Done
    <2> QED  BY <2>1, <2>2, LoopStepLeave
<1>6. CASE Cancel
    BY <1>2, <1>6, LoopStepBeside DEF Cancel, Tell, Inv, LoopInv, LoopType
<1>7. CASE TimeRunsOut
    BY <1>2, <1>7, LoopStepBeside DEF TimeRunsOut, timeoutVars, Inv, LoopInv, LoopType
<1>8. CASE OthersPause \/ UNCHANGED vars
    <2>1. UNCHANGED timeoutVars /\ UNCHANGED loopVars
        BY <1>8 DEF OthersPause, vars, loopVars, timeoutVars
    <2> QED  BY <1>2, <2>1, LoopStepBeside DEF loopVars, timeoutVars, Inv, LoopInv, LoopType
<1>9. ASSUME NEW e \in Execs, Inner(e) \/ Operation(e)
      PROVE  LoopInv'
    <2>1. UNCHANGED loopVars /\ (TimerFires(e) \/ Continue(e) \/ FnEnds(e))
        BY <1>9 DEF Inner, Operation
    <2>2. /\ \A f \in Execs : fn'[f] = "none" <=> fn[f] = "none"
          /\ \A f \in Execs : answer[f] # "pending" => answer'[f] # "pending"
          /\ told \subseteq told'
        BY <2>1 DEF Inv, TimeoutTypeOK, FnStates, ExecInv, TimerFires, Continue, FnEnds, Ends, Decided
    <2> QED  BY <1>2, <2>1, <2>2, LoopStepBeside DEF loopVars, Inv, LoopInv, LoopType
<1> QED
    BY <1>3, <1>4, <1>5, <1>6, <1>7, <1>8, <1>9 DEF Next, Loop
-----------------------------------------------------------------------------
LEMMA InvImpliesLive ==
    ASSUME Inv
    PROVE  OneLiveAttempt /\ CancelReachesAttempts /\ NoLateTimer
<1>1. \A e \in Execs : ExecInv(e)  BY DEF Inv
<1>2. Settled /\ Cancelled /\ TimeoutTypeOK  BY DEF Inv, LoopInv
<1>3. \A e \in Execs : fn[e] # "none" /\ answer[e] # "pending" =>
          /\ fn[e] = "running" => e \in told /\ ~optimistic
          /\ timer[e] # "armed"
    BY <1>1, <1>2 DEF ExecInv, TimeoutTypeOK
<1>4. \A e \in Execs : e \in Live => at = "attempting" /\ e = attempt
    BY <1>2, <1>3 DEF Settled, Live
<1>5. \A e \in Execs : optimistic /\ fn[e] = "running" => e = attempt
    BY <1>2, <1>3 DEF Settled
<1>6. OneLiveAttempt
    <2>1. \A e, f \in Live : e = f  BY <1>4 DEF Live
    <2>2. at # "attempting" => Live = {}  BY <1>4 DEF Live
    <2> QED  BY <1>5, <2>1, <2>2 DEF OneLiveAttempt
<1>7. CancelReachesAttempts  BY <1>2 DEF Cancelled, CancelReachesAttempts, Live
<1>8. NoLateTimer  BY <1>1 DEF NoLateTimer, ExecInv
<1> QED  BY <1>6, <1>7, <1>8

\* The attempts made are the numbers up to attempt, or up to the one before it.
LEMMA InvImpliesReported ==
    ASSUME Inv
    PROVE  AttemptsReported
<1> SUFFICES ASSUME outcome = "rejected"
             PROVE  reported = Cardinality(Made)
                    \/ (overdue /\ reported = Cardinality(Made) + 1)
    BY DEF AttemptsReported
<1>1. reported = attempt /\ at = "done"
      /\ ((\A e \in Execs : e = attempt => fn[e] # "none") \/ overdue)
    BY DEF Inv, LoopInv, Verdict
<1>2. attempt \in 1..(1 + MaxAttempts)
    BY <1>1, Numbers, Attempts DEF Position
<1>3. \A n \in Nat : Cardinality(1..n) = n
    <2> SUFFICES ASSUME NEW n \in Nat PROVE Cardinality(1..n) = n  OBVIOUS
    <2>1. Cardinality(1..n) = IF 1 > n THEN 0 ELSE n - 1 + 1  BY FS_Interval
    <2> QED  BY <2>1
<1>4. CASE \A e \in Execs : e = attempt => fn[e] # "none"
    <2>1. Made = 1..attempt
        BY <1>2, <1>4, Numbers, Attempts DEF Position, Made
    <2> QED  BY <1>1, <1>2, <1>3, <2>1
<1>5. CASE fn[attempt] = "none" /\ overdue
    <2>1. Made = 1..(attempt - 1)
        BY <1>2, <1>5, Numbers, Attempts DEF Position, Made
    <2>2. attempt - 1 \in Nat /\ attempt = (attempt - 1) + 1  BY <1>2
    <2> QED  BY <1>1, <1>3, <1>5, <2>1, <2>2
<1>6. fn[attempt] # "none" => \A e \in Execs : e = attempt => fn[e] # "none"
    OBVIOUS
<1>7. fn[attempt] # "none" \/ overdue
    BY <1>1, <1>2, Attempts
<1> QED  BY <1>4, <1>5, <1>6, <1>7

\* The invariant of the backoff: previousDelay never sinks below both bounds.
DelayInv ==
    /\ strategy \in Strategies /\ delay \in Nat
    /\ previous \in Nat /\ previous >= Lesser(InitialDelay, MaxDelay)
    /\ Delaying => Documented(delay, attempt)

LEMMA UpperHalf ==
    ASSUME NEW top \in Nat, NEW ms \in Upper(top)
    PROVE  ms \in Nat /\ ms <= top /\ 2 * ms + 1 >= top
<1>1. top \div 2 \in Nat /\ 2 * (top \div 2) + 1 >= top  OBVIOUS
<1> QED  BY <1>1 DEF Upper

LEMMA DelaysDocumented ==
    ASSUME DelayInv, NEW number \in 1..MaxAttempts, NEW ms \in Delays(number + 1)
    PROVE  /\ ms \in Nat /\ Documented(ms, number)
           /\ strategy = "decorrelated" => ms >= Lesser(InitialDelay, MaxDelay)
<1>1. PICK top : top = InitialDelay * Multiplier ^ (number - 1)  OBVIOUS
<1>2. top \in Nat
    <2>1. number - 1 \in 0..MaxAttempts  BY Attempts
    <2> QED  BY <1>1, <2>1, RetryAssumption
<1>3. Exponential(number + 1) = IF top < MaxDelay THEN top ELSE MaxDelay
    <2>1. (number + 1) - 2 = number - 1  OBVIOUS
    <2> QED  BY <1>1, <2>1 DEF Exponential, Lesser
<1>4. PICK capped \in Nat : capped = IF top < MaxDelay THEN top ELSE MaxDelay
    BY <1>2, BackoffAssumption
<1>5. Exponential(number + 1) = capped  BY <1>3, <1>4
<1>6. CASE strategy = "constant"
    BY <1>6, BackoffAssumption DEF Delays, Documented
<1>7. CASE strategy = "exponential"
    BY <1>1, <1>4, <1>5, <1>7 DEF Delays, Documented
<1>8. CASE strategy = "full"
    <2>1. ms \in Below(capped)  BY <1>5, <1>8 DEF Delays
    <2>2. ms \in Nat /\ ms <= capped  BY <1>4, <2>1 DEF Below
    <2> QED  BY <1>1, <1>4, <1>8, <2>2 DEF Documented
<1>9. CASE strategy = "equal"
    <2>1. ms \in Upper(capped)  BY <1>5, <1>9 DEF Delays
    <2>2. ms \in Nat /\ ms <= capped /\ 2 * ms + 1 >= capped  BY <2>1, UpperHalf
    <2> QED  BY <1>1, <1>4, <1>9, <2>2 DEF Documented
<1>10. CASE strategy = "decorrelated"
    <2>1. ms \in Decorrelated  BY <1>10 DEF Delays
    <2>2. ms \in Nat /\ ms <= MaxDelay /\ (ms >= InitialDelay \/ ms = MaxDelay)
        BY <2>1, BackoffAssumption DEF Decorrelated, Lesser, DelayInv
    <2>3. ms >= Lesser(InitialDelay, MaxDelay)
        BY <2>2, BackoffAssumption DEF Lesser
    <2> QED  BY <1>10, <2>2, <2>3 DEF Documented
<1> QED  BY <1>6, <1>7, <1>8, <1>9, <1>10 DEF DelayInv, Strategies

LEMMA DelayInvNext ==
    ASSUME Inv, DelayInv, [Next]_vars
    PROVE  DelayInv'
<1>1. CASE Start \/ Resume
    <2>1. NextAttempt  BY <1>1 DEF Start, Resume
    <2>2. strategy' = strategy /\ previous' = previous /\ delay' = 0 /\ ~Delaying'
        BY <2>1 DEF NextAttempt, Exhausted, ThrowReason, Done, backoffVars, Delaying
    <2> QED  BY <2>2 DEF DelayInv
<1>2. CASE UNCHANGED <<strategy, previous, delay, at, attempt>>
    BY <1>2 DEF DelayInv, Delaying, Documented
<1>3. ASSUME at' = "done", delay' = 0, UNCHANGED backoffVars
      PROVE  DelayInv'
    BY <1>3 DEF DelayInv, Delaying, backoffVars
<1>4. attempt >= 1 /\ attempt <= MaxAttempts => attempt \in 1..MaxAttempts
    BY Numbers, Attempts
<1>5. ASSUME NEW kind \in {"delay after result", "delay after error"}, Pause(kind), attempt >= 1
      PROVE  DelayInv'
    <2>1. attempt \in 1..MaxAttempts  BY <1>4, <1>5 DEF Pause
    <2>2. PICK ms \in Delays(attempt + 1) : delay' = ms /\ GetDelay(attempt + 1, ms)
        BY <1>5 DEF Pause
    <2>3. ms \in Nat /\ Documented(ms, attempt)
          /\ (strategy = "decorrelated" => ms >= Lesser(InitialDelay, MaxDelay))
        BY <2>1, DelaysDocumented
    <2>4. strategy' = strategy /\ attempt' = attempt /\ delay' = ms
          /\ previous' = IF strategy = "decorrelated" THEN ms ELSE previous
        BY <1>5, <2>2 DEF Pause, GetDelay
    <2>5. Documented(delay, attempt)'  BY <2>3, <2>4 DEF Documented
    <2> QED  BY <2>3, <2>4, <2>5 DEF DelayInv
<1>6. CASE DelayAborted
    <2>1. attempt >= 1  BY <1>6, Numbers DEF DelayAborted, Position, Delaying
    <2> QED  BY <1>3, <1>5, <1>6, <2>1 DEF DelayAborted, ThrowReason, Exhausted, Done
<1>7. ASSUME NEW a \in Execs, Returned(a) \/ Failed(a)
      PROVE  DelayInv'
    <2>1. attempt >= 1  BY <1>7, Numbers DEF Returned, Failed, Answered, Position
    <2> QED  BY <1>3, <1>5, <1>7, <2>1 DEF Returned, Failed, Exhausted, Done
<1>8. CASE OthersPause
    <2>1. PICK number \in 2..(1 + MaxAttempts) : \E ms \in Delays(number) : GetDelay(number, ms)
        BY <1>8 DEF OthersPause
    <2>2. number - 1 \in 1..MaxAttempts /\ number = (number - 1) + 1  BY Attempts
    <2>3. PICK ms \in Delays((number - 1) + 1) : GetDelay(number, ms)  BY <2>1, <2>2
    <2>4. ms \in Nat /\ (strategy = "decorrelated" => ms >= Lesser(InitialDelay, MaxDelay))
        BY <2>2, <2>3, DelaysDocumented
    <2>5. strategy' = strategy /\ previous' = IF strategy = "decorrelated" THEN ms ELSE previous
        BY <2>3 DEF GetDelay
    <2>6. delay' = delay /\ attempt' = attempt /\ at' = at
        BY <1>8 DEF OthersPause, loopVars
    <2>7. Delaying' => Documented(delay, attempt)'
        BY <2>5, <2>6 DEF DelayInv, Delaying, Documented
    <2> QED  BY <2>4, <2>5, <2>6, <2>7 DEF DelayInv
<1>9. CASE Cancel \/ TimeRunsOut \/ (\E e \in Execs : Inner(e) \/ Operation(e)) \/ UNCHANGED vars
    BY <1>2, <1>9 DEF Cancel, TimeRunsOut, Inner, Operation, vars, loopVars, backoffVars
<1> QED  BY <1>1, <1>6, <1>7, <1>8, <1>9 DEF Next, Loop

LEMMA DelayInvImplies ==
    ASSUME Inv, DelayInv
    PROVE  DelayDocumented
<1> SUFFICES ASSUME Delaying
             PROVE  Documented(delay, Cardinality(Made))
    BY DEF DelayDocumented, Delaying, Documented
<1>1. attempt \in 1..MaxAttempts
    BY Numbers, Attempts DEF Position
<1>2. Made = 1..attempt
    <2>1. \A e \in Execs : fn[e] # "none" <=> e <= attempt  BY BeforeAttempt
    <2> QED  BY <1>1, <2>1, Attempts DEF Made
<1>3. Cardinality(1..attempt) = attempt
    <2>1. Cardinality(1..attempt) = IF 1 > attempt THEN 0 ELSE attempt - 1 + 1
        BY <1>1, FS_Interval
    <2> QED  BY <1>1, <2>1
<1> QED  BY <1>2, <1>3 DEF DelayInv

LEMMA SpecInv == Spec => []Inv
<1>1. Init => Inv  BY InvInit
<1>2. Inv /\ [Next]_vars => Inv'  BY InvNext
<1> QED  BY <1>1, <1>2, PTL DEF Spec

LEMMA SpecDelayInv == Spec => []DelayInv
<1>1. Init => DelayInv
    BY BackoffAssumption DEF Init, BackoffInit, DelayInv, Delaying, Lesser
<1>2. Inv /\ DelayInv /\ [Next]_vars => DelayInv'  BY DelayInvNext
<1> QED  BY <1>1, <1>2, SpecInv, PTL DEF Spec

\* retry-policy.ts:141-226 over timeout-policy.ts: attempts that were not told
\* to stop never overlap, abandoned ones have been told.
THEOREM AttemptsDoNotOverlap == Spec => []OneLiveAttempt
<1>1. Inv => OneLiveAttempt  BY InvImpliesLive
<1> QED  BY <1>1, SpecInv, PTL

\* retry-policy.ts:130-138, timeout-policy.ts:78-86: an abort of the caller's
\* signal reaches every operation that still runs, and no attempt starts later.
THEOREM CancelReaches == Spec => []CancelReachesAttempts
<1>1. Inv => CancelReachesAttempts  BY InvImpliesLive
<1> QED  BY <1>1, SpecInv, PTL

\* timeout-policy.ts:130-155: an answered execution has no armed timer.
THEOREM TimersEnd == Spec => []NoLateTimer
<1>1. Inv => NoLateTimer  BY InvImpliesLive
<1> QED  BY <1>1, SpecInv, PTL

\* retry-policy.ts:219-224: the failure event counts the attempts made, or one
\* more when maxDuration ended the loop.
THEOREM ReportIsExact == Spec => []AttemptsReported
<1>1. Inv => AttemptsReported  BY InvImpliesReported
<1> QED  BY <1>1, SpecInv, PTL

\* backoff.ts:25-134: every delay is the documented one for the number of
\* attempts made, with a strategy that other calls use at the same time.
THEOREM DelaysAreDocumented == Spec => []DelayDocumented
<1>1. Inv /\ DelayInv => DelayDocumented  BY DelayInvImplies
<1> QED  BY <1>1, SpecInv, SpecDelayInv, PTL

\* All variables keep their types.
THEOREM TypeCorrect == Spec => []TypeOK
<1>1. Inv /\ DelayInv => TypeOK  BY DEF Inv, DelayInv, LoopInv, LoopType, TypeOK
<1> QED  BY <1>1, SpecInv, SpecDelayInv, PTL

\* A call that is attempting waits for something the event loop brings: the
\* continuation of its race or its timer.  Only an optimistic timeout waits for
\* the operation itself.
AttemptIsAwaited ==
    at = "attempting" =>
        \E e \in Execs :
            /\ e = attempt
            /\ \/ Answered(e) \/ e \in Decided \/ timer[e] = "armed"
               \/ optimistic /\ fn[e] = "running"

\* A race that is not decided has its timer, unless the timeout is optimistic.
Due(e) == fn[e] # "none" /\ winner[e] = "none" => timer[e] = "armed" \/ optimistic

LEMMA DueNext ==
    ASSUME Inv, \A e \in Execs : Due(e), [Next]_vars, NEW e \in Execs
    PROVE  Due(e)'
<1> USE DEF Due, Inv, TimeoutTypeOK
<1>1. TimeoutStep  BY StepsOfExecutions
<1>2. CASE UNCHANGED timeoutVars \/ Tell(Execs)  BY <1>2 DEF timeoutVars, Tell
<1>3. ASSUME NEW f \in Execs, Begin(f)  PROVE Due(e)'
    BY <1>3 DEF Begin
<1>4. ASSUME NEW f \in Execs, TimerFires(f)  PROVE Due(e)'
    BY <1>4 DEF TimerFires
<1>5. ASSUME NEW f \in Execs, FnEnds(f)  PROVE Due(e)'
    BY <1>5 DEF FnEnds
<1>6. ASSUME NEW f \in Execs, Continue(f)  PROVE Due(e)'
    BY <1>6 DEF Continue, Decided
<1> QED  BY <1>1, <1>2, <1>3, <1>4, <1>5, <1>6 DEF TimeoutStep

\* timeout-policy.ts:108-141: whatever the operations do, a pessimistic timeout
\* leaves no attempt that only an operation could end.
THEOREM NoAttemptHangs == Spec => []AttemptIsAwaited
<1>1. Init => \A e \in Execs : Due(e)  BY DEF Init, TimeoutInit, Due
<1>2. Inv /\ (\A e \in Execs : Due(e)) /\ [Next]_vars => (\A e \in Execs : Due(e))'
    <2> SUFFICES ASSUME Inv, \A e \in Execs : Due(e), [Next]_vars, NEW e \in Execs
                 PROVE  Due(e)'
        OBVIOUS
    <2> QED  BY DueNext
<1>3. Inv /\ (\A e \in Execs : Due(e)) => AttemptIsAwaited
    <2> SUFFICES ASSUME Inv, \A e \in Execs : Due(e), at = "attempting"
                 PROVE  AttemptIsAwaited
        BY DEF AttemptIsAwaited
    <2>1. attempt \in Execs  BY Numbers, Attempts DEF Position
    <2>2. fn[attempt] # "none"  BY <2>1, Numbers, Attempts DEF Position
    <2>3. winner[attempt] = "none" => fn[attempt] = "running"  BY <2>1, <2>2 DEF Inv, ExecInv
    <2>4. winner[attempt] = "none" => timer[attempt] = "armed" \/ optimistic
        BY <2>1, <2>2 DEF Due
    <2>5. winner[attempt] # "none" => Answered(attempt) \/ attempt \in Decided
        BY <2>1 DEF Answered, Decided
    <2> QED  BY <2>1, <2>3, <2>4, <2>5 DEF AttemptIsAwaited
<1> QED  BY <1>1, <1>2, <1>3, SpecInv, PTL DEF Spec
=============================================================================
