--------------------------- MODULE BulkheadProofs ---------------------------
(***************************************************************************)
(* Proofs about Bulkhead, for every set of requests, every maxConcurrent   *)
(* and every maxQueue.                                                     *)
(***************************************************************************)
EXTENDS Bulkhead, FiniteSetTheorems, SequenceTheorems, TLAPS

\* splice(findIndex(...), 1) takes one element out of a line without
\* duplicates and leaves the others.
LEMMA RemoveFirstEffect ==
    ASSUME NEW S, NEW s \in Seq(S), NoDuplicates(s), NEW e \in ToSet(s)
    PROVE  /\ RemoveFirst(s, e) \in Seq(S)
           /\ Len(RemoveFirst(s, e)) <= Len(s)
           /\ ToSet(RemoveFirst(s, e)) = ToSet(s) \ {e}
           /\ NoDuplicates(RemoveFirst(s, e))
<1>1. PICK k \in 1..Len(s) : s[k] = e
  BY DEF ToSet
<1>2. \A i \in 1..Len(s) : s[i] = e => i = k
  BY <1>1 DEF NoDuplicates
<1> DEFINE t == [i \in 1..(Len(s) - 1) |-> IF i < k THEN s[i] ELSE s[i + 1]]
<1>3. RemoveFirst(s, e) = t
  <2>1. {i \in 1..Len(s) : s[i] = e} = {k}
    BY <1>1, <1>2
  <2>2. Min({k}) = k
    BY DEF Min
  <2>3. SelectInSeq(s, LAMBDA v : v = e) = k
    BY <2>1, <2>2 DEF SelectInSeq
  <2>4. RemoveFirst(s, e) = RemoveAt(s, k)
    BY <1>1, <2>3 DEF RemoveFirst
  <2>5. RemoveAt(s, k) = t
    <3> DEFINE a == SubSeq(s, 1, k - 1)
               b == SubSeq(s, k + 1, Len(s))
    <3>1. /\ a \in Seq(S) /\ Len(a) = k - 1
          /\ \A i \in 1..(k - 1) : a[i] = s[i]
      BY SubSeqProperties
    <3>2. /\ b \in Seq(S) /\ Len(b) = Len(s) - k
          /\ \A i \in 1..(Len(s) - k) : b[i] = s[k + i]
      BY SubSeqProperties
    <3> HIDE DEF a, b
    <3>3. /\ a \o b \in Seq(S) /\ Len(a \o b) = Len(s) - 1
          /\ \A i \in 1..(Len(s) - 1) :
               (a \o b)[i] = IF i <= k - 1 THEN a[i] ELSE b[i - (k - 1)]
      <4> HIDE DEF t
      <4>1. /\ a \o b \in Seq(S) /\ Len(a \o b) = Len(a) + Len(b)
            /\ \A i \in 1..(Len(a) + Len(b)) :
                 (a \o b)[i] = IF i <= Len(a) THEN a[i] ELSE b[i - Len(a)]
        BY <3>1, <3>2, ConcatProperties
      <4>2. Len(a) = k - 1 /\ Len(a) + Len(b) = Len(s) - 1
        BY <3>1, <3>2
      <4> QED BY ONLY <4>1, <4>2
    <3>4. \A i \in 1..(Len(s) - 1) : (a \o b)[i] = t[i]
      BY <3>1, <3>2, <3>3
    <3>5. t \in Seq(S) /\ Len(t) = Len(s) - 1
      OBVIOUS
    <3>6. a \o b = t
      <4> HIDE DEF t
      <4> QED BY <3>3, <3>4, <3>5, SeqEqual
    <3> QED BY <3>6 DEF RemoveAt, a, b
  <2> QED BY <2>4, <2>5
<1>4. t \in Seq(S) /\ Len(t) = Len(s) - 1
  BY <1>1
<1>5. ToSet(t) = ToSet(s) \ {e}
  <2>1. ASSUME NEW x \in ToSet(t) PROVE x \in ToSet(s) \ {e}
    BY <1>1, <1>2, <1>4 DEF ToSet
  <2>2. ASSUME NEW x \in ToSet(s) \ {e} PROVE x \in ToSet(t)
    <3>1. PICK i \in 1..Len(s) : s[i] = x /\ i # k
      BY <1>1 DEF ToSet
    <3>2. CASE i < k
      <4>1. i \in 1..(Len(s) - 1) /\ t[i] = x
        BY <3>1, <3>2, <1>1
      <4> QED BY <4>1, <1>4 DEF ToSet
    <3>3. CASE i > k
      <4>1. i - 1 \in 1..(Len(s) - 1) /\ t[i - 1] = x
        BY <3>1, <3>3, <1>1
      <4> QED BY <4>1, <1>4 DEF ToSet
    <3> QED BY <3>1, <3>2, <3>3, <1>1
  <2> QED BY <2>1, <2>2
<1>6. NoDuplicates(t)
  BY <1>1, <1>4 DEF NoDuplicates
<1> QED BY <1>1, <1>3, <1>4, <1>5, <1>6

\* push() and resolve() put one new element at the end.
LEMMA AppendEffect ==
    ASSUME NEW S, NEW s \in Seq(S), NoDuplicates(s), NEW e \in S \ ToSet(s)
    PROVE  /\ Append(s, e) \in Seq(S)
           /\ Len(Append(s, e)) = Len(s) + 1
           /\ ToSet(Append(s, e)) = ToSet(s) \cup {e}
           /\ NoDuplicates(Append(s, e))
<1> DEFINE t == Append(s, e)
<1>1. /\ t \in Seq(S)
      /\ Len(t) = Len(s) + 1
      /\ \A i \in 1..Len(s) : t[i] = s[i]
      /\ t[Len(s) + 1] = e
  OBVIOUS
<1>2. \A i \in 1..Len(s) : s[i] \in ToSet(s)
  BY DEF ToSet
<1>3. ToSet(t) = ToSet(s) \cup {e}
  BY <1>1 DEF ToSet
<1>4. NoDuplicates(t)
  <2> SUFFICES ASSUME NEW i \in 1..Len(t), NEW j \in 1..Len(t), t[i] = t[j]
               PROVE  i = j
    BY <1>1 DEF NoDuplicates
  <2>1. CASE i <= Len(s) /\ j <= Len(s)
    BY <2>1, <1>1 DEF NoDuplicates
  <2>2. CASE i = Len(s) + 1 \/ j = Len(s) + 1
    BY <2>2, <1>1, <1>2
  <2> QED BY <2>1, <2>2, <1>1
<1> QED BY <1>1, <1>3, <1>4

\* shift() takes the head and leaves the others.
LEMMA TailEffect ==
    ASSUME NEW S, NEW s \in Seq(S), NoDuplicates(s), s # <<>>
    PROVE  /\ Head(s) \in ToSet(s)
           /\ Tail(s) \in Seq(S)
           /\ Len(Tail(s)) = Len(s) - 1
           /\ ToSet(Tail(s)) = ToSet(s) \ {Head(s)}
           /\ NoDuplicates(Tail(s))
<1> DEFINE t == Tail(s)
<1>1. /\ Len(s) \in Nat /\ Len(s) >= 1
      /\ Head(s) = s[1]
      /\ t \in Seq(S)
      /\ Len(t) = Len(s) - 1
      /\ \A i \in 1..Len(t) : t[i] = s[i + 1]
  OBVIOUS
<1>2. ToSet(t) = ToSet(s) \ {Head(s)}
  <2>1. ASSUME NEW x \in ToSet(t) PROVE x \in ToSet(s) \ {Head(s)}
    BY <1>1 DEF ToSet, NoDuplicates
  <2>2. ASSUME NEW x \in ToSet(s) \ {Head(s)} PROVE x \in ToSet(t)
    <3>1. PICK i \in 1..Len(s) : s[i] = x /\ i # 1
      BY <1>1 DEF ToSet
    <3>2. i - 1 \in 1..Len(t) /\ t[i - 1] = x
      BY <3>1, <1>1
    <3>3. DOMAIN t = 1..Len(t)
      BY <1>1
    <3> HIDE DEF t
    <3> QED BY <3>2, <3>3 DEF ToSet
  <2> QED BY <2>1, <2>2
<1>3. NoDuplicates(t)
  BY <1>1 DEF NoDuplicates
<1>4. Head(s) \in ToSet(s)
  BY <1>1 DEF ToSet
<1> QED BY <1>1, <1>2, <1>3, <1>4
-----------------------------------------------------------------------------
\* The inductive invariant.  ActiveCountExact is what keeps activeCount a
\* natural number; QueueConsistent is what makes a hand-over move a request
\* that really waits; and a request that got its slot directly is never one
\* that is still to get it.
DirectAreServed ==
    /\ direct \cap (In("idle") \cup In("queued") \cup In("granted")) = {}
    /\ DirectAdmissionsWithinLimit

IInv ==
    /\ TypeOK
    /\ QueueConsistent
    /\ ActiveCountExact
    /\ NoIdleSlotWhileWaiting
    /\ DirectAreServed

LEMMA InFinite ==
    ASSUME NEW stage PROVE IsFiniteSet(In(stage))
BY FS_Subset, BulkheadAssumption DEF In

LEMMA InitIInv == Init => IInv
<1> SUFFICES ASSUME Init PROVE IInv
  OBVIOUS
<1>1. \A stage \in Stages \ {"idle"} : In(stage) = {}
  BY DEF Init, In, Stages
<1>2. TypeOK
  BY DEF Init, TypeOK, Stages
<1>3. QueueConsistent
  BY <1>1, BulkheadAssumption DEF Init, QueueConsistent, ToSet, NoDuplicates, Stages
<1>4. ActiveCountExact
  BY <1>1, FS_EmptySet DEF Init, ActiveCountExact, Stages
<1>5. NoIdleSlotWhileWaiting
  BY DEF Init, NoIdleSlotWhileWaiting
<1>6. DirectAreServed
  <2>1. direct \cap In("running") = {}
    BY DEF Init
  <2> QED BY <2>1, FS_EmptySet, BulkheadAssumption
          DEF Init, DirectAreServed, DirectAdmissionsWithinLimit
<1> QED BY <1>2, <1>3, <1>4, <1>5, <1>6 DEF IInv

\* A request changes its stage: who is in which stage afterwards.
LEMMA MoveEffect ==
    ASSUME TypeOK, NEW r \in Requests, NEW stage \in Stages, Move(r, stage)
    PROVE  /\ pc' \in [Requests -> Stages]
           /\ In(stage)' = In(stage) \cup {r}
           /\ \A other \in Stages \ {stage} : In(other)' = In(other) \ {r}
BY DEF TypeOK, Move, In

\* One operation more, or one less, inside fn.
LEMMA CountUp ==
    ASSUME NEW r \in Requests, r \notin In("running"), ActiveCountExact,
           active' = active + 1, In("running")' = In("running") \cup {r}
    PROVE  ActiveCountExact'
BY InFinite, FS_AddElement DEF ActiveCountExact

LEMMA CountDown ==
    ASSUME NEW r \in In("running"), ActiveCountExact,
           active' = active - 1, In("running")' = In("running") \ {r}
    PROVE  ActiveCountExact' /\ active' \in Nat
<1>1. In("running") # {} /\ Cardinality(In("running")) \in Nat
  BY InFinite, FS_CardinalityType
<1>2. Cardinality(In("running")) >= 1
  BY <1>1, InFinite, FS_EmptySet
<1>3. Cardinality(In("running") \ {r}) = Cardinality(In("running")) - 1
  BY InFinite, FS_RemoveElement
<1> QED BY <1>1, <1>2, <1>3 DEF ActiveCountExact

\* No new operation was admitted directly, and none of the others came back.
LEMMA DirectKept ==
    ASSUME DirectAreServed, direct' = direct,
           In("idle")' \cup In("queued")' \cup In("granted")'
             \subseteq In("idle") \cup In("queued") \cup In("granted"),
           direct \cap In("running")' \subseteq direct \cap In("running")
    PROVE  DirectAreServed'
<1>1. IsFiniteSet(direct \cap In("running"))
  BY InFinite, FS_Subset
<1>2. Cardinality(direct \cap In("running")') <= Cardinality(direct \cap In("running"))
  BY <1>1, FS_Subset
<1>3. /\ Cardinality(direct \cap In("running")') \in Nat
      /\ Cardinality(direct \cap In("running")) \in Nat
  BY <1>1, FS_Subset, FS_CardinalityType
<1>4. DirectAdmissionsWithinLimit'
  BY <1>2, <1>3, BulkheadAssumption DEF DirectAreServed, DirectAdmissionsWithinLimit
<1> QED BY <1>4 DEF DirectAreServed
-----------------------------------------------------------------------------
\* The line and its timers after one waiter left it by timeout or abort.
LEMMA LeaveLine ==
    ASSUME IInv, NEW r \in In("queued"), NEW stage \in {"timedOut", "aborted"},
           Move(r, stage), queue' = RemoveFirst(queue, r), timers' = timers \ {r},
           UNCHANGED <<active, granted, direct>>
    PROVE  IInv'
<1>1. r \in Requests /\ pc[r] = "queued" /\ stage \in Stages
  BY DEF In, Stages
<1>2. /\ pc' \in [Requests -> Stages]
      /\ In("queued")' = In("queued") \ {r}
      /\ In("granted")' = In("granted")
      /\ In("running")' = In("running")
      /\ In("idle")' = In("idle")
  BY <1>1, MoveEffect DEF IInv, In, Stages
<1>3. /\ queue' \in Seq(Requests)
      /\ Len(queue') <= Len(queue)
      /\ ToSet(queue') = ToSet(queue) \ {r}
      /\ NoDuplicates(queue')
  BY RemoveFirstEffect DEF IInv, TypeOK, QueueConsistent
<1>4. TypeOK'
  BY <1>2, <1>3 DEF IInv, TypeOK
<1>5. QueueConsistent'
  <2>1. Len(queue)' <= MaxQueue
    BY <1>3, BulkheadAssumption DEF IInv, TypeOK, QueueConsistent
  <2>2. ToSet(granted)' = In("granted")' /\ NoDuplicates(granted)'
    BY <1>2 DEF IInv, QueueConsistent, ToSet, NoDuplicates
  <2>3. ToSet(queue') = In("queued")' /\ timers' = In("queued")'
    BY <1>2, <1>3 DEF IInv, QueueConsistent
  <2>4. ToSet(queue)' = In("queued")' /\ NoDuplicates(queue)'
    BY <1>3, <2>3 DEF ToSet, NoDuplicates
  <2> QED BY <2>1, <2>2, <2>3, <2>4 DEF QueueConsistent
<1>6. ActiveCountExact'
  BY <1>2 DEF IInv, ActiveCountExact
<1>7. NoIdleSlotWhileWaiting'
  <2>1. queue # <<>>
    BY DEF IInv, QueueConsistent, ToSet
  <2> QED BY <2>1 DEF IInv, NoIdleSlotWhileWaiting
<1>8. DirectAreServed'
  BY <1>2, DirectKept DEF IInv
<1> QED BY <1>4, <1>5, <1>6, <1>7, <1>8 DEF IInv

LEMMA ExecuteNowIInv ==
    ASSUME IInv, NEW r \in Requests, ExecuteNow(r) PROVE IInv'
<1>1. /\ pc[r] = "idle" /\ active < MaxConcurrent /\ active' = active + 1
      /\ Move(r, "running") /\ direct' = direct \cup {r}
      /\ UNCHANGED <<queue, timers, granted>>
  BY DEF ExecuteNow, TakeSlot
<1>2. /\ pc' \in [Requests -> Stages]
      /\ In("running")' = In("running") \cup {r}
      /\ In("queued")' = In("queued")
      /\ In("granted")' = In("granted")
      /\ In("idle")' = In("idle") \ {r}
      /\ r \notin In("running") \cup In("queued") \cup In("granted")
  BY <1>1, MoveEffect DEF IInv, In, Stages
<1>3. TypeOK'
  BY <1>1, <1>2 DEF IInv, TypeOK
<1>4. QueueConsistent'
  BY <1>1, <1>2 DEF IInv, QueueConsistent, ToSet, NoDuplicates
<1>5. ActiveCountExact'
  BY <1>1, <1>2, CountUp DEF IInv
<1>6. NoIdleSlotWhileWaiting'
  BY <1>1, BulkheadAssumption DEF IInv, TypeOK, NoIdleSlotWhileWaiting
<1>7. DirectAreServed'
  <2>1. direct' \cap In("running")' \subseteq In("running")'
    OBVIOUS
  <2>2. IsFiniteSet(In("running")')
    BY <1>2, InFinite, FS_AddElement
  <2>3. Cardinality(direct' \cap In("running")') <= Cardinality(In("running")')
    BY <2>1, <2>2, FS_Subset
  <2>4. Cardinality(In("running")') = active + 1
    BY <1>1, <1>5 DEF ActiveCountExact
  <2>5. Cardinality(direct' \cap In("running")') \in Nat
    BY <2>1, <2>2, FS_Subset, FS_CardinalityType
  <2>6. DirectAdmissionsWithinLimit'
    BY <1>1, <2>3, <2>4, <2>5, BulkheadAssumption
    DEF DirectAdmissionsWithinLimit, IInv, TypeOK
  <2> QED BY <1>1, <1>2, <2>6 DEF IInv, DirectAreServed
<1> QED BY <1>3, <1>4, <1>5, <1>6, <1>7 DEF IInv

LEMMA EnqueueIInv ==
    ASSUME IInv, NEW r \in Requests, Enqueue(r) PROVE IInv'
<1>1. /\ pc[r] = "idle" /\ active >= MaxConcurrent /\ Len(queue) < MaxQueue
      /\ queue' = Append(queue, r) /\ timers' = timers \cup {r}
      /\ Move(r, "queued") /\ UNCHANGED <<active, granted, direct>>
  BY DEF Enqueue
<1>2. /\ pc' \in [Requests -> Stages]
      /\ In("queued")' = In("queued") \cup {r}
      /\ In("running")' = In("running")
      /\ In("granted")' = In("granted")
      /\ In("idle")' = In("idle") \ {r}
      /\ r \notin In("queued") /\ r \in In("idle")
  BY <1>1, MoveEffect DEF IInv, In, Stages
<1>3. /\ queue' \in Seq(Requests)
      /\ Len(queue') = Len(queue) + 1
      /\ ToSet(queue') = ToSet(queue) \cup {r}
      /\ NoDuplicates(queue')
  BY <1>1, <1>2, AppendEffect DEF IInv, TypeOK, QueueConsistent
<1>4. TypeOK'
  BY <1>1, <1>2, <1>3 DEF IInv, TypeOK
<1>5. QueueConsistent'
  <2>1. Len(queue)' <= MaxQueue
    BY <1>1, <1>3, BulkheadAssumption DEF IInv, TypeOK
  <2> QED BY <1>1, <1>2, <1>3, <2>1 DEF IInv, QueueConsistent, ToSet, NoDuplicates
<1>6. ActiveCountExact'
  BY <1>1, <1>2 DEF IInv, ActiveCountExact
<1>7. NoIdleSlotWhileWaiting'
  BY <1>1, BulkheadAssumption DEF IInv, TypeOK, NoIdleSlotWhileWaiting
<1>8. DirectAreServed'
  BY <1>1, <1>2, DirectKept DEF IInv
<1> QED BY <1>4, <1>5, <1>6, <1>7, <1>8 DEF IInv

\* The calls that take nothing: refused, or aborted before they began.
LEMMA TurnedAwayIInv ==
    ASSUME IInv, NEW r \in Requests, CallAborted(r) \/ Reject(r) PROVE IInv'
<1>1. PICK stage \in {"aborted", "rejected"} : Move(r, stage)
  BY DEF CallAborted, Reject
<1>2. /\ pc[r] = "idle" /\ UNCHANGED <<active, queue, timers, granted, direct>>
  BY DEF CallAborted, Reject, IInv, TypeOK
<1>3. /\ pc' \in [Requests -> Stages]
      /\ In("queued")' = In("queued")
      /\ In("running")' = In("running")
      /\ In("granted")' = In("granted")
      /\ In("idle")' \subseteq In("idle")
  BY <1>1, <1>2, MoveEffect DEF IInv, In, Stages
<1>4. TypeOK'
  BY <1>2, <1>3 DEF IInv, TypeOK
<1>5. QueueConsistent'
  BY <1>2, <1>3 DEF IInv, QueueConsistent, ToSet, NoDuplicates
<1>6. ActiveCountExact' /\ NoIdleSlotWhileWaiting'
  BY <1>2, <1>3 DEF IInv, ActiveCountExact, NoIdleSlotWhileWaiting
<1>7. DirectAreServed'
  BY <1>2, <1>3, DirectKept DEF IInv
<1> QED BY <1>4, <1>5, <1>6, <1>7 DEF IInv

LEMMA SettleIInv ==
    ASSUME IInv, NEW r \in Requests, NEW outcome \in {"returned", "failed"},
           Settle(r, outcome)
    PROVE  IInv'
<1> DEFINE pcAfter == [pc EXCEPT ![r] = outcome]
<1>1. /\ pc[r] = "running" /\ active' = active - 1
      /\ ReleaseNext(pcAfter) /\ direct' = direct
  BY DEF Settle, IInv, TypeOK
<1>2. r \in In("running") /\ outcome \in Stages
  BY <1>1 DEF In, Stages
<1>3. CASE queue = <<>>
  <2>1. Move(r, outcome) /\ UNCHANGED <<queue, timers, granted>>
    BY <1>1, <1>3 DEF ReleaseNext, Move
  <2>2. /\ pc' \in [Requests -> Stages]
        /\ In("queued")' = In("queued")
        /\ In("running")' = In("running") \ {r}
        /\ In("granted")' = In("granted")
        /\ In("idle")' = In("idle")
    BY <1>1, <1>2, <2>1, MoveEffect DEF IInv, In, Stages
  <2>3. ActiveCountExact' /\ active' \in Nat
    BY <1>1, <1>2, <2>2, CountDown DEF IInv
  <2>4. TypeOK'
    BY <1>1, <2>1, <2>2, <2>3 DEF IInv, TypeOK
  <2>5. QueueConsistent'
    BY <2>1, <2>2 DEF IInv, QueueConsistent, ToSet, NoDuplicates
  <2>6. NoIdleSlotWhileWaiting'
    BY <1>3, <2>1 DEF NoIdleSlotWhileWaiting
  <2>7. DirectAreServed'
    BY <1>1, <2>2, DirectKept DEF IInv
  <2> QED BY <2>3, <2>4, <2>5, <2>6, <2>7 DEF IInv
<1>4. CASE queue # <<>>
  <2> DEFINE h == Head(queue)
  <2>1. /\ h \in ToSet(queue) /\ Tail(queue) \in Seq(Requests)
        /\ Len(Tail(queue)) = Len(queue) - 1
        /\ ToSet(Tail(queue)) = ToSet(queue) \ {h}
        /\ NoDuplicates(Tail(queue))
    BY <1>4, TailEffect DEF IInv, TypeOK, QueueConsistent
  <2> HIDE DEF h
  <2>2. /\ queue' = Tail(queue) /\ timers' = timers \ {h}
        /\ granted' = Append(granted, h)
        /\ pc' = [pcAfter EXCEPT ![h] = "granted"]
    BY <1>1, <1>4 DEF ReleaseNext, h
  <2>3. h \in Requests /\ pc[h] = "queued" /\ h # r /\ h \notin ToSet(granted)
    BY <1>1, <2>1 DEF IInv, QueueConsistent, In
  <2>4. /\ pc' \in [Requests -> Stages]
        /\ In("queued")' = In("queued") \ {h}
        /\ In("running")' = In("running") \ {r}
        /\ In("granted")' = In("granted") \cup {h}
        /\ In("idle")' = In("idle")
    BY <1>1, <1>2, <2>2, <2>3 DEF IInv, TypeOK, In, Stages
  <2>5. /\ granted' \in Seq(Requests)
        /\ Len(granted') = Len(granted) + 1
        /\ ToSet(granted') = ToSet(granted) \cup {h}
        /\ NoDuplicates(granted')
    BY <2>2, <2>3, AppendEffect DEF IInv, TypeOK, QueueConsistent
  <2>6. ActiveCountExact' /\ active' \in Nat
    BY <1>1, <1>2, <2>4, CountDown DEF IInv
  <2>7. TypeOK'
    BY <1>1, <2>1, <2>2, <2>4, <2>5, <2>6 DEF IInv, TypeOK
  <2>8. QueueConsistent'
    <3>1. Len(queue)' <= MaxQueue
      BY <2>1, <2>2, BulkheadAssumption DEF IInv, TypeOK, QueueConsistent
    <3>2. ToSet(queue') = In("queued")' /\ timers' = In("queued")'
      BY <2>1, <2>2, <2>4 DEF IInv, QueueConsistent
    <3>3. ToSet(granted') = In("granted")'
      BY <2>4, <2>5 DEF IInv, QueueConsistent
    <3>4. ToSet(queue)' = In("queued")' /\ NoDuplicates(queue)'
      BY <2>1, <2>2, <3>2 DEF ToSet, NoDuplicates
    <3>5. ToSet(granted)' = In("granted")' /\ NoDuplicates(granted)'
      BY <2>5, <3>3 DEF ToSet, NoDuplicates
    <3> QED BY <3>1, <3>2, <3>4, <3>5 DEF QueueConsistent
  <2>9. NoIdleSlotWhileWaiting'
    BY <1>1, <1>4, <2>5, BulkheadAssumption DEF IInv, TypeOK, NoIdleSlotWhileWaiting
  <2>10. DirectAreServed'
    BY <1>1, <2>3, <2>4, DirectKept DEF IInv, In
  <2> QED BY <2>6, <2>7, <2>8, <2>9, <2>10 DEF IInv
<1> QED BY <1>3, <1>4

LEMMA ResumeIInv == ASSUME IInv, Resume PROVE IInv'
<1> DEFINE h == Head(granted)
<1>1. /\ granted # <<>> /\ granted' = Tail(granted) /\ active' = active + 1
      /\ Move(h, "running") /\ UNCHANGED <<queue, timers, direct>>
  BY DEF Resume, TakeSlot
<1>2. /\ h \in ToSet(granted) /\ Tail(granted) \in Seq(Requests)
      /\ Len(Tail(granted)) = Len(granted) - 1
      /\ ToSet(Tail(granted)) = ToSet(granted) \ {h}
      /\ NoDuplicates(Tail(granted))
  BY <1>1, TailEffect DEF IInv, TypeOK, QueueConsistent
<1> HIDE DEF h
<1>3. h \in Requests /\ pc[h] = "granted"
  BY <1>2 DEF IInv, QueueConsistent, In
<1>4. /\ pc' \in [Requests -> Stages]
      /\ In("queued")' = In("queued")
      /\ In("running")' = In("running") \cup {h}
      /\ In("granted")' = In("granted") \ {h}
      /\ In("idle")' = In("idle")
      /\ h \notin In("running")
  BY <1>1, <1>3, MoveEffect DEF IInv, In, Stages
<1>5. ActiveCountExact'
  BY <1>1, <1>3, <1>4, CountUp DEF IInv
<1>6. TypeOK'
  BY <1>1, <1>2, <1>4 DEF IInv, TypeOK
<1>7. QueueConsistent'
  <2>1. ToSet(granted') = In("granted")'
    BY <1>1, <1>2, <1>4 DEF IInv, QueueConsistent
  <2>2. ToSet(granted)' = In("granted")' /\ NoDuplicates(granted)'
    BY <1>1, <1>2, <2>1 DEF ToSet, NoDuplicates
  <2>3. ToSet(queue)' = In("queued")' /\ NoDuplicates(queue)'
    BY <1>1, <1>4 DEF IInv, QueueConsistent, ToSet, NoDuplicates
  <2> QED BY <1>1, <1>4, <2>2, <2>3 DEF IInv, QueueConsistent
<1>8. NoIdleSlotWhileWaiting'
  BY <1>1, <1>2, BulkheadAssumption DEF IInv, TypeOK, NoIdleSlotWhileWaiting
<1>9. DirectAreServed'
  <2>1. h \notin direct
    BY <1>3 DEF IInv, DirectAreServed, In
  <2> QED BY <1>1, <1>4, <2>1, DirectKept DEF IInv
<1> QED BY <1>5, <1>6, <1>7, <1>8, <1>9 DEF IInv

LEMMA NextIInv == IInv /\ [Next]_vars => IInv'
<1> SUFFICES ASSUME IInv, [Next]_vars PROVE IInv'
  OBVIOUS
<1>1. CASE UNCHANGED vars
  BY <1>1 DEF vars, IInv, TypeOK, QueueConsistent, ActiveCountExact, In, ToSet,
     NoDuplicates, NoIdleSlotWhileWaiting, DirectAreServed,
     DirectAdmissionsWithinLimit
<1>2. ASSUME NEW r \in Requests, Call(r) PROVE IInv'
  BY <1>2, TurnedAwayIInv, ExecuteNowIInv, EnqueueIInv DEF Call
<1>3. ASSUME NEW r \in Requests, QueueTimeout(r) \/ Abort(r) PROVE IInv'
  <2>1. r \in In("queued")
    BY <1>3 DEF QueueTimeout, Abort, In, IInv, QueueConsistent
  <2>2. CASE QueueTimeout(r)
    BY <2>1, <2>2, LeaveLine DEF QueueTimeout
  <2>3. CASE Abort(r)
    BY <2>1, <2>3, LeaveLine DEF Abort
  <2> QED BY <1>3, <2>2, <2>3
<1>4. ASSUME NEW r \in Requests, NEW outcome \in {"returned", "failed"},
             Settle(r, outcome)
      PROVE  IInv'
  BY <1>4, SettleIInv
<1>5. CASE Resume
  BY <1>5, ResumeIInv
<1>6. CASE AllAnswered
  BY <1>1, <1>6 DEF AllAnswered
<1> QED BY <1>1, <1>2, <1>3, <1>4, <1>5, <1>6 DEF Next, Work

\* In every behaviour activeCount is the number of running operations, the
\* line and its timers agree with the requests' stages, no slot idles while a
\* request waits, and direct admissions respect the limit.
THEOREM BulkheadInvariant ==
    Spec => [](/\ TypeOK /\ ActiveCountExact /\ QueueConsistent
               /\ NoIdleSlotWhileWaiting /\ DirectAdmissionsWithinLimit)
<1>1. IInv => /\ TypeOK /\ ActiveCountExact /\ QueueConsistent
              /\ NoIdleSlotWhileWaiting /\ DirectAdmissionsWithinLimit
  BY DEF IInv, DirectAreServed
<1> QED BY <1>1, InitIInv, NextIInv, PTL DEF Spec
-----------------------------------------------------------------------------
\* Without a line nothing is ever handed over, so every admission looked at
\* activeCount and the limit is strict.
FailFastInv == MaxQueue = 0 => granted = <<>> /\ active <= MaxConcurrent

LEMMA FailFastStep == IInv /\ FailFastInv /\ [Next]_vars => FailFastInv'
<1> SUFFICES ASSUME IInv, granted = <<>>, active <= MaxConcurrent, MaxQueue = 0,
                    [Next]_vars
             PROVE  granted' = <<>> /\ active' <= MaxConcurrent
  BY DEF FailFastInv
<1>1. queue = <<>>
  BY BulkheadAssumption DEF IInv, TypeOK, QueueConsistent
<1>2. active \in Nat /\ MaxConcurrent \in Nat
  BY BulkheadAssumption DEF IInv, TypeOK
<1>3. CASE UNCHANGED vars
  BY <1>3 DEF vars
<1>4. ASSUME NEW r \in Requests, Call(r)
      PROVE  granted' = <<>> /\ active' <= MaxConcurrent
  BY <1>2, <1>4 DEF Call, CallAborted, ExecuteNow, Enqueue, Reject, TakeSlot
<1>5. ASSUME NEW r \in Requests, Work(r)
      PROVE  granted' = <<>> /\ active' <= MaxConcurrent
  BY <1>1, <1>2, <1>5 DEF Work, QueueTimeout, Abort, Settle, ReleaseNext
<1>6. ~Resume
  BY DEF Resume
<1>7. CASE AllAnswered
  BY <1>3, <1>7 DEF AllAnswered
<1> QED BY <1>3, <1>4, <1>5, <1>6, <1>7 DEF Next

\* maxQueue = 0, the default: activeCount never exceeds maxConcurrent.
THEOREM FailFastIsStrict == Spec => []FailFastLimit
<1>1. Init => FailFastInv
  BY BulkheadAssumption DEF Init, FailFastInv
<1>2. FailFastInv => FailFastLimit
  BY DEF FailFastInv, FailFastLimit
<1> QED BY <1>1, <1>2, InitIInv, NextIInv, FailFastStep, PTL DEF Spec
-----------------------------------------------------------------------------
(* With a line, maxConcurrent can be exceeded, and in one way only. *)

SlotsWithinLimit == active + Len(granted) <= MaxConcurrent

GapCall == granted # <<>> /\ \E r \in Requests : Call(r)

OnlyGapOvershoots == [][SlotsWithinLimit /\ ~SlotsWithinLimit' => GapCall]_vars

LEMMA LimitStep == IInv /\ SlotsWithinLimit /\ [Next]_vars => SlotsWithinLimit' \/ GapCall
<1> SUFFICES ASSUME IInv, SlotsWithinLimit, [Next]_vars, ~GapCall PROVE SlotsWithinLimit'
  OBVIOUS
<1>1. /\ active \in Nat /\ MaxConcurrent \in Nat /\ granted \in Seq(Requests)
      /\ queue \in Seq(Requests) /\ active + Len(granted) <= MaxConcurrent
  BY BulkheadAssumption DEF IInv, TypeOK, SlotsWithinLimit
<1>2. CASE UNCHANGED vars
  BY <1>1, <1>2 DEF vars, SlotsWithinLimit
<1>3. ASSUME NEW r \in Requests, Call(r) PROVE SlotsWithinLimit'
  <2>1. granted = <<>>
    BY <1>3 DEF GapCall
  <2> QED BY <1>1, <1>3, <2>1
  DEF Call, CallAborted, ExecuteNow, Enqueue, Reject, TakeSlot, SlotsWithinLimit
<1>4. ASSUME NEW r \in Requests, QueueTimeout(r) \/ Abort(r) PROVE SlotsWithinLimit'
  BY <1>1, <1>4 DEF QueueTimeout, Abort, SlotsWithinLimit
<1>5. ASSUME NEW r \in Requests, NEW outcome \in {"returned", "failed"},
             Settle(r, outcome)
      PROVE  SlotsWithinLimit'
  <2>1. CASE queue = <<>>
    BY <1>1, <1>5, <2>1 DEF Settle, ReleaseNext, SlotsWithinLimit
  <2>2. CASE queue # <<>>
    <3>1. Head(queue) \in Requests
      BY <1>1, <2>2
    <3>2. granted' = Append(granted, Head(queue)) /\ active' = active - 1
      BY <1>5, <2>2 DEF Settle, ReleaseNext
    <3>3. Len(granted') = Len(granted) + 1
      BY <1>1, <3>1, <3>2
    <3> QED BY <1>1, <3>2, <3>3 DEF SlotsWithinLimit
  <2> QED BY <2>1, <2>2
<1>6. CASE Resume
  BY <1>1, <1>6 DEF Resume, TakeSlot, SlotsWithinLimit
<1>7. CASE AllAnswered
  BY <1>2, <1>7 DEF AllAnswered
<1> QED BY <1>2, <1>3, <1>4, <1>5, <1>6, <1>7 DEF Next, Work

\* Running operations and promised slots together go over maxConcurrent only
\* when somebody calls between releaseNext's hand-over (bulkhead-policy.ts:162)
\* and the waiter's resumption; no timer, abort, release or resumption does it.
THEOREM LimitLeftInGapOnly == Spec => OnlyGapOvershoots
<1>1. IInv /\ [Next]_vars => [SlotsWithinLimit /\ ~SlotsWithinLimit' => GapCall]_vars
  BY LimitStep
<1> QED BY <1>1, InitIInv, NextIInv, PTL DEF Spec, OnlyGapOvershoots
-----------------------------------------------------------------------------
\* A line without duplicates is as long as the set of those in it is large.
LEMMA LineLength ==
    ASSUME NEW S, NEW s \in Seq(S), NoDuplicates(s)
    PROVE  Cardinality(ToSet(s)) = Len(s)
<1>1. s \in Bijection(1..Len(s), ToSet(s))
  BY DEF Bijection, Injection, Surjection, IsInjective, ToSet, NoDuplicates
<1> QED BY <1>1, FS_CountingElements DEF ExistsBijection

\* The contract counts with the same Cardinality.
LEMMA ContractCardinality == \A S : Contract!Cardinality(S) = Cardinality(S)
BY DEF Contract!Cardinality, Cardinality

LEMMA ContractInit == Init => Contract!Init
<1> SUFFICES ASSUME Init PROVE Contract!Init
  OBVIOUS
<1> QED BY DEF Init, Contract!Init, In

\* Promises are the requests in the hand-over gap; the others inside run.
LEMMA Counts ==
    ASSUME IInv
    PROVE  /\ (In("running") \cup In("granted")) \ In("granted") = In("running")
           /\ active = Cardinality(In("running"))
           /\ active <= Cardinality(In("running") \cup In("granted"))
           /\ Cardinality(In("running") \cup In("granted")) \in Nat
           /\ Cardinality(In("queued")) = Len(queue)
           /\ In("granted") = {} => granted = <<>>
<1>1. (In("running") \cup In("granted")) \ In("granted") = In("running")
  BY DEF In
<1>2. active = Cardinality(In("running"))
  BY DEF IInv, ActiveCountExact
<1>3. IsFiniteSet(In("running") \cup In("granted"))
  BY InFinite, FS_Union
<1>4. active <= Cardinality(In("running") \cup In("granted"))
  BY <1>2, <1>3, FS_Subset
<1>5. Cardinality(In("queued")) = Len(queue)
  BY LineLength DEF IInv, TypeOK, QueueConsistent
<1>6. In("granted") = {} => granted = <<>>
  BY TailEffect DEF IInv, TypeOK, QueueConsistent
<1> QED BY <1>1, <1>2, <1>3, <1>4, <1>5, <1>6, FS_CardinalityType

\* A call enters, waits or is refused; one that was aborted before it began is
\* not seen.
LEMMA CallRefines ==
    ASSUME IInv, NEW r \in Requests, Call(r)
    PROVE  [Contract!Next]_Contract!contractVars
<1>1. MaxConcurrent \in Nat /\ active \in Nat
  BY BulkheadAssumption DEF IInv, TypeOK
<1>2. CASE CallAborted(r)
  <2>1. /\ In("granted")' = In("granted") /\ In("queued")' = In("queued")
        /\ In("running")' = In("running") /\ In("rejected")' = In("rejected")
    BY <1>2, MoveEffect DEF CallAborted, IInv, In, Stages
  <2> QED BY <2>1 DEF Contract!contractVars
<1>3. ASSUME pc[r] = "idle", NEW stage \in {"running", "queued", "rejected"},
             Move(r, stage)
      PROVE  /\ r \in Contract!Outside
             /\ \A other \in {"running", "queued", "granted", "rejected"} :
                   In(other)' = In(other) \cup (IF other = stage THEN {r} ELSE {})
  BY <1>3, MoveEffect DEF IInv, In, Stages, Contract!Outside
<1>4. CASE ExecuteNow(r)
  <2>1. In("granted") = {} => In("queued") = {}
    BY <1>1, <1>4, Counts
    DEF ExecuteNow, IInv, TypeOK, NoIdleSlotWhileWaiting, QueueConsistent, ToSet
  <2>2. /\ r \in Contract!Outside
        /\ In("queued")' = In("queued") /\ In("rejected")' = In("rejected")
        /\ In("running")' = In("running") \cup {r} /\ In("granted")' = In("granted")
    BY <1>3, <1>4 DEF ExecuteNow, TakeSlot
  <2>3. Cardinality((In("running") \cup In("granted")) \ In("granted")) < MaxConcurrent
    BY <1>4, Counts DEF ExecuteNow
  <2>4. Contract!Enter(r)
    BY <2>1, <2>2, <2>3, ContractCardinality DEF Contract!Enter
  <2> QED BY <2>4 DEF Contract!Next
<1>5. CASE Enqueue(r)
  <2>1. /\ r \in Contract!Outside
        /\ In("queued")' = In("queued") \cup {r} /\ In("rejected")' = In("rejected")
        /\ In("running")' = In("running") /\ In("granted")' = In("granted")
    BY <1>3, <1>5 DEF Enqueue
  <2>2. /\ Cardinality(In("running") \cup In("granted")) >= MaxConcurrent
        /\ Cardinality(In("queued")) < MaxQueue
    BY <1>1, <1>5, Counts DEF Enqueue
  <2>3. Contract!Wait(r)
    BY <2>1, <2>2, ContractCardinality DEF Contract!Wait
  <2> QED BY <2>3 DEF Contract!Next
<1>6. CASE Reject(r)
  <2>1. /\ r \in Contract!Outside
        /\ In("queued")' = In("queued") /\ In("rejected")' = In("rejected") \cup {r}
        /\ In("running")' = In("running") /\ In("granted")' = In("granted")
    BY <1>3, <1>6 DEF Reject
  <2>2. /\ Cardinality(In("running") \cup In("granted")) >= MaxConcurrent
        /\ Cardinality(In("queued")) >= MaxQueue
    BY <1>1, <1>6, Counts DEF Reject
  <2>3. Contract!Refuse(r)
    BY <2>1, <2>2, ContractCardinality DEF Contract!Refuse
  <2> QED BY <2>3 DEF Contract!Next
<1> QED BY <1>2, <1>4, <1>5, <1>6 DEF Call

\* A finished operation leaves, and its slot is promised to whoever is next.
LEMMA SettleRefines ==
    ASSUME IInv, NEW r \in Requests, NEW outcome \in {"returned", "failed"},
           Settle(r, outcome)
    PROVE  Contract!Leave(r)
<1> DEFINE pcAfter == [pc EXCEPT ![r] = outcome]
<1>1. pc[r] = "running" /\ ReleaseNext(pcAfter) /\ pc \in [Requests -> Stages]
  BY DEF Settle, IInv, TypeOK
<1>2. CASE queue = <<>>
  <2>1. In("queued") = {} /\ pc' = pcAfter
    BY <1>1, <1>2 DEF ReleaseNext, IInv, QueueConsistent, ToSet
  <2>2. /\ In("queued")' = In("queued") /\ In("rejected")' = In("rejected")
        /\ In("granted")' = In("granted")
        /\ In("running")' \cup In("granted")'
             = (In("running") \cup In("granted")) \ {r}
        /\ r \in (In("running") \cup In("granted")) \ In("granted")
    BY <1>1, <2>1 DEF In
  <2> QED BY <2>1, <2>2 DEF Contract!Leave
<1>3. CASE queue # <<>>
  <2> DEFINE h == Head(queue)
  <2>1. h \in In("queued")
    BY <1>3, TailEffect DEF IInv, TypeOK, QueueConsistent
  <2>2. pc' = [pcAfter EXCEPT ![h] = "granted"]
    BY <1>1, <1>3 DEF ReleaseNext
  <2> HIDE DEF h
  <2>3. /\ In("queued")' = In("queued") \ {h} /\ In("rejected")' = In("rejected")
        /\ In("granted")' = In("granted") \cup {h}
        /\ In("running")' \cup In("granted")'
             = ((In("running") \cup In("granted")) \ {r}) \cup {h}
        /\ r \in (In("running") \cup In("granted")) \ In("granted")
    BY <1>1, <2>1, <2>2 DEF In
  <2> QED BY <2>1, <2>3 DEF Contract!Leave
<1> QED BY <1>2, <1>3

LEMMA NextRefines ==
    IInv /\ [Next]_vars => [Contract!Next]_Contract!contractVars
<1> SUFFICES ASSUME IInv, [Next]_vars
             PROVE  [Contract!Next]_Contract!contractVars
  OBVIOUS
<1>1. CASE UNCHANGED vars
  BY <1>1 DEF vars, Contract!contractVars, In
<1>2. ASSUME NEW r \in Requests, Call(r)
      PROVE  [Contract!Next]_Contract!contractVars
  BY <1>2, CallRefines
<1>3. ASSUME NEW r \in Requests, QueueTimeout(r) \/ Abort(r)
      PROVE  [Contract!Next]_Contract!contractVars
  <2>1. r \in In("queued") /\ (Move(r, "timedOut") \/ Move(r, "aborted"))
    BY <1>3 DEF QueueTimeout, Abort, In, IInv, QueueConsistent
  <2>2. /\ In("queued")' = In("queued") \ {r} /\ In("rejected")' = In("rejected")
        /\ In("running")' = In("running") /\ In("granted")' = In("granted")
    BY <2>1 DEF Move, In, IInv, TypeOK
  <2>3. Contract!GiveUp(r)
    BY <2>1, <2>2 DEF Contract!GiveUp
  <2> QED BY <2>3 DEF Contract!Next
<1>4. ASSUME NEW r \in Requests, NEW outcome \in {"returned", "failed"},
             Settle(r, outcome)
      PROVE  [Contract!Next]_Contract!contractVars
  BY <1>4, SettleRefines DEF Contract!Next
<1>5. CASE Resume
  <2> DEFINE h == Head(granted)
  <2>1. h \in In("granted")
    BY <1>5, TailEffect DEF Resume, IInv, TypeOK, QueueConsistent
  <2>2. Move(h, "running")
    BY <1>5 DEF Resume, TakeSlot
  <2> HIDE DEF h
  <2>3. /\ In("queued")' = In("queued") /\ In("rejected")' = In("rejected")
        /\ In("granted")' = In("granted") \ {h}
        /\ In("running")' \cup In("granted")' = In("running") \cup In("granted")
    BY <2>1, <2>2 DEF Move, In, IInv, TypeOK
  <2>4. h \in Requests /\ Contract!KeepPromise(h)
    BY <2>1, <2>3 DEF Contract!KeepPromise, In
  <2> QED BY <2>4 DEF Contract!Next
<1>6. CASE AllAnswered
  BY <1>1, <1>6 DEF AllAnswered
<1> QED BY <1>1, <1>2, <1>3, <1>4, <1>5, <1>6 DEF Next, Work

\* In every schedule the policy implements the bounded semaphore of
\* BulkheadContract, whatever the limits are.
THEOREM BulkheadImplementsContract == Spec => ImplementsContract
BY ContractInit, NextRefines, InitIInv, NextIInv, PTL
DEF Spec, ImplementsContract, Contract!Spec

\* bulkhead-policy.ts:274-352: timers, line entries and stages never disagree.
COROLLARY LineIsConsistent == Spec => []QueueConsistent
BY BulkheadInvariant, PTL

\* bulkhead-policy.ts:336-351: nobody waits while a slot is free.
COROLLARY NoIdleSlots == Spec => []NoIdleSlotWhileWaiting
BY BulkheadInvariant, PTL
-----------------------------------------------------------------------------
\* The line, oldest first: those who were handed a slot, then those who wait,
\* and nobody twice.
LEMMA LineFacts ==
    ASSUME IInv, NEW k \in DOMAIN Line
    PROVE  /\ Line[k] \in Requests /\ k \in Nat \ {0} /\ Len(granted) \in Nat
           /\ k <= Len(granted) => Line[k] = granted[k] /\ pc[Line[k]] = "granted"
           /\ k > Len(granted) => pc[Line[k]] = "queued"
                                   /\ k - Len(granted) \in DOMAIN queue
                                   /\ Line[k] = queue[k - Len(granted)]
<1>1. granted \in Seq(Requests) /\ queue \in Seq(Requests)
  BY DEF IInv, TypeOK
<1>2. /\ Line \in Seq(Requests) /\ Len(Line) = Len(granted) + Len(queue)
      /\ \A i \in 1..Len(Line) :
            Line[i] = IF i <= Len(granted) THEN granted[i] ELSE queue[i - Len(granted)]
  BY <1>1, ConcatProperties DEF Line
<1>3. /\ k \in 1..Len(Line) /\ Len(granted) \in Nat /\ Len(queue) \in Nat
  BY <1>1, <1>2
<1>4. CASE k <= Len(granted)
  <2>1. k \in DOMAIN granted /\ Line[k] = granted[k] /\ granted[k] \in ToSet(granted)
    BY <1>1, <1>2, <1>3, <1>4 DEF ToSet
  <2>2. Line[k] \in In("granted")
    BY <2>1 DEF IInv, QueueConsistent
  <2> QED BY <1>3, <1>4, <2>1, <2>2 DEF In
<1>5. CASE k > Len(granted)
  <2>1. /\ k - Len(granted) \in DOMAIN queue /\ Line[k] = queue[k - Len(granted)]
        /\ queue[k - Len(granted)] \in ToSet(queue)
    BY <1>1, <1>2, <1>3, <1>5 DEF ToSet
  <2>2. Line[k] \in In("queued")
    BY <2>1 DEF IInv, QueueConsistent
  <2> QED BY <1>3, <1>5, <2>1, <2>2 DEF In
<1> QED BY <1>3, <1>4, <1>5

\* A step that hands no slot over and starts nobody who waited.
LEMMA QuietStep ==
    ASSUME IInv, \A r \in Requests : pc[r] \in {"queued", "granted"} =>
                     pc'[r] = pc[r] \/ pc'[r] \notin {"queued", "granted", "running"}
    PROVE  InTurn
<1> SUFFICES ASSUME NEW i \in DOMAIN Line, NEW j \in DOMAIN Line, i < j,
                    pc'[Line[j]] \in {"granted", "running"}
             PROVE  pc'[Line[i]] # "queued" /\ pc'[Line[j]] # "running"
  BY DEF InTurn
<1>1. pc[Line[j]] = "granted" /\ pc'[Line[j]] = "granted"
  BY LineFacts
<1>2. pc[Line[i]] = "granted"
  BY <1>1, LineFacts
<1> QED BY <1>1, <1>2, LineFacts

LEMMA SettleInTurn ==
    ASSUME IInv, NEW r \in Requests, NEW outcome \in {"returned", "failed"}, Settle(r, outcome)
    PROVE  InTurn
<1>1. pc \in [Requests -> Stages] /\ pc[r] = "running"
  BY DEF IInv, TypeOK, Settle
<1>2. CASE queue = <<>>
  <2>1. pc' = [pc EXCEPT ![r] = outcome]
    BY <1>2 DEF Settle, ReleaseNext
  <2> QED BY <1>1, <2>1, QuietStep
<1>3. CASE queue # <<>>
  <2>1. /\ Head(queue) \in Requests /\ Head(queue) = queue[1] /\ queue \in Seq(Requests)
    BY <1>3 DEF IInv, TypeOK
  <2>2. pc' = [[pc EXCEPT ![r] = outcome] EXCEPT ![Head(queue)] = "granted"]
    BY <1>3 DEF Settle, ReleaseNext
  <2>3. ASSUME NEW p \in Requests, pc[p] \in {"queued", "granted"}
        PROVE  pc'[p] = IF p = Head(queue) THEN "granted" ELSE pc[p]
    BY <1>1, <2>1, <2>2, <2>3
  <2> SUFFICES ASSUME NEW i \in DOMAIN Line, NEW j \in DOMAIN Line, i < j,
                      pc'[Line[j]] \in {"granted", "running"}
               PROVE  pc'[Line[i]] # "queued" /\ pc'[Line[j]] # "running"
    BY DEF InTurn
  <2>4. pc'[Line[j]] # "running"
    BY <2>3, LineFacts
  <2>5. j <= Len(granted) + 1
    <3>1. CASE pc[Line[j]] = "granted"  BY <3>1, LineFacts
    <3>2. CASE Line[j] = Head(queue) /\ j > Len(granted)
      <4>1. j - Len(granted) \in DOMAIN queue /\ queue[j - Len(granted)] = queue[1]
        BY <2>1, <3>2, LineFacts
      <4>2. 1 \in DOMAIN queue /\ NoDuplicates(queue)
        BY <1>3, <2>1 DEF IInv, QueueConsistent
      <4>3. j - Len(granted) = 1
        BY <4>1, <4>2 DEF NoDuplicates
      <4> QED BY <4>3, LineFacts
    <3> QED BY <2>3, <3>1, <3>2, LineFacts
  <2>6. pc[Line[i]] = "granted"
    <3>1. i <= Len(granted)
      BY <2>5, LineFacts
    <3> QED BY <3>1, LineFacts
  <2>7. pc'[Line[i]] = "granted"
    BY <2>3, <2>6, LineFacts
  <2> QED BY <2>4, <2>7
<1> QED BY <1>2, <1>3

LEMMA ResumeInTurn == ASSUME IInv, Resume PROVE InTurn
<1>1. /\ pc \in [Requests -> Stages] /\ granted \in Seq(Requests) /\ granted # <<>>
      /\ pc' = [pc EXCEPT ![Head(granted)] = "running"]
      /\ Head(granted) = granted[1] /\ 1 \in DOMAIN granted /\ Len(granted) >= 1
  BY DEF IInv, TypeOK, Resume, TakeSlot, Move
<1> SUFFICES ASSUME NEW i \in DOMAIN Line, NEW j \in DOMAIN Line, i < j,
                    pc'[Line[j]] \in {"granted", "running"}
             PROVE  pc'[Line[i]] # "queued" /\ pc'[Line[j]] # "running"
  BY DEF InTurn
<1>2. Line[j] # Head(granted)
  <2> SUFFICES ASSUME Line[j] = Head(granted) PROVE FALSE
    OBVIOUS
  <2>1. Head(granted) \in In("granted")
    BY <1>1 DEF IInv, QueueConsistent, ToSet
  <2>2. j <= Len(granted) /\ granted[j] = granted[1] /\ j \in Nat /\ i \in Nat
    BY <1>1, <2>1, LineFacts DEF In
  <2>3. j \in DOMAIN granted
    BY <1>1, <2>2, LineFacts
  <2>4. j = 1
    BY <1>1, <2>2, <2>3 DEF IInv, QueueConsistent, NoDuplicates
  <2>5. i >= 1
    BY <1>1, LineFacts
  <2> QED BY <2>2, <2>4, <2>5
<1>3. pc'[Line[j]] = pc[Line[j]]
  BY <1>1, <1>2, LineFacts
<1>4. pc[Line[j]] = "granted" /\ pc[Line[i]] = "granted"
  BY <1>3, LineFacts
<1>5. pc'[Line[i]] \in {"granted", "running"}
  BY <1>1, <1>4, LineFacts
<1> QED BY <1>3, <1>4, <1>5

LEMMA NextInTurn == IInv /\ [Next]_vars => [InTurn]_vars
<1> SUFFICES ASSUME IInv, [Next]_vars PROVE InTurn
  OBVIOUS
<1>1. pc \in [Requests -> Stages]
  BY DEF IInv, TypeOK
<1>2. ASSUME NEW r \in Requests, Call(r) PROVE InTurn
  <2>1. pc[r] = "idle" /\ \E stage : pc' = [pc EXCEPT ![r] = stage]
    BY <1>2 DEF Call, CallAborted, ExecuteNow, Enqueue, Reject, TakeSlot, Move
  <2> QED BY <1>1, <2>1, QuietStep
<1>3. ASSUME NEW r \in Requests, QueueTimeout(r) \/ Abort(r) PROVE InTurn
  <2>1. pc' = [pc EXCEPT ![r] = "timedOut"] \/ pc' = [pc EXCEPT ![r] = "aborted"]
    BY <1>3 DEF QueueTimeout, Abort, Move
  <2> QED BY <1>1, <2>1, QuietStep
<1>4. CASE pc' = pc
  BY <1>4, QuietStep
<1> QED BY <1>2, <1>3, <1>4, SettleInTurn, ResumeInTurn
        DEF Next, Work, AllAnswered, vars

\* bulkhead-policy.ts:274-352: push, shift, splice and the order of microtasks
\* make the line first come, first served, for every limit and every line.
THEOREM ServedInTurn == Spec => NoOvertaking
BY InitIInv, NextIInv, NextInTurn, PTL DEF Spec, NoOvertaking
=============================================================================
