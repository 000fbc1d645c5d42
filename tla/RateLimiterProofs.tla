-------------------------- MODULE RateLimiterProofs --------------------------
(***************************************************************************)
(* What RateLimiter guarantees for every bucket, every number of callers   *)
(* and every window.                                                       *)
(*                                                                         *)
(* The bound on the permits of a window is not inductive: it forgets what  *)
(* the bucket still holds, what a lazy refill still owes, and how much of  *)
(* the current interval is over.  Credit adds them.  Permits and tokens,   *)
(* owed ones included, together stay within the burst plus what count      *)
(* intervals add; count is bounded by the time of the window and the part  *)
(* of an interval that was over when it opened.                            *)
(*                                                                         *)
(* That refills are not lost for long is not inductive either: Paid says   *)
(* how the time of a window, the refills in it and the age are related.    *)
(***************************************************************************)
EXTENDS RateLimiter, TLAPS

\* How much of the current interval is over.
Phase == age % RefillInterval

Credit ==
    \E count \in Nat :
        /\ observed.permits + Refilled <= observed.burst + RefillRate * count
        /\ RefillInterval * count <= observed.time + RefillInterval - 1 - Phase

Inv == TypeOK /\ Credit
-----------------------------------------------------------------------------
LEMMA QuotientRemainder ==
    ASSUME NEW d \in Nat \ {0}, NEW n \in Nat
    PROVE  /\ n \div d \in Nat /\ n % d \in 0..(d - 1)
           /\ n = d * (n \div d) + (n % d)
<1>1. n = d * (n \div d) + (n % d)  BY Z3
<1>2. n \div d \in Nat  OBVIOUS
<1>3. n % d \in 0..(d - 1)  OBVIOUS
<1> QED  BY <1>1, <1>2, <1>3

\* Quotient and remainder are determined by what they add up to.
LEMMA Unique ==
    ASSUME NEW d \in Nat \ {0}, NEW p \in Nat, NEW q \in Nat,
           NEW r \in 0..(d - 1), NEW s \in 0..(d - 1), d * p + r = d * q + s
    PROVE  p = q /\ r = s
<1>1. CASE p > q
    <2>1. PICK k \in Nat : p = q + 1 + k
        <3>1. p - q - 1 \in Nat /\ p = q + 1 + (p - q - 1)  BY <1>1
        <3> QED  BY <3>1
    <2>2. d * p = d * q + d + d * k  BY <2>1
    <2>3. d * k \in Nat /\ d * q \in Nat  BY <2>1
    <2> QED  BY <2>2, <2>3
<1>2. CASE q > p
    <2>1. PICK k \in Nat : q = p + 1 + k
        <3>1. q - p - 1 \in Nat /\ q = p + 1 + (q - p - 1)  BY <1>2
        <3> QED  BY <3>1
    <2>2. d * q = d * p + d + d * k  BY <2>1
    <2>3. d * k \in Nat /\ d * p \in Nat  BY <2>1
    <2> QED  BY <2>2, <2>3
<1> QED  BY <1>1, <1>2

\* One more unit of time either lengthens the phase or ends the interval.
LEMMA NextUnit ==
    ASSUME NEW d \in Nat \ {0}, NEW n \in Nat
    PROVE  \/ (n + 1) \div d = n \div d /\ (n + 1) % d = (n % d) + 1
           \/ (n + 1) \div d = n \div d + 1 /\ (n + 1) % d = 0 /\ n % d = d - 1
<1>1. /\ n \div d \in Nat /\ n % d \in 0..(d - 1) /\ n = d * (n \div d) + (n % d)
      /\ (n + 1) \div d \in Nat /\ (n + 1) % d \in 0..(d - 1)
      /\ n + 1 = d * ((n + 1) \div d) + ((n + 1) % d)
    <2>1. n \div d \in Nat /\ n % d \in 0..(d - 1) /\ n = d * (n \div d) + (n % d)
        BY QuotientRemainder
    <2>2. PICK m \in Nat : m = n + 1  OBVIOUS
    <2>3. m \div d \in Nat /\ m % d \in 0..(d - 1) /\ m = d * (m \div d) + (m % d)
        BY QuotientRemainder
    <2> QED  BY <2>1, <2>2, <2>3
<1>2. PICK q \in Nat, r \in 0..(d - 1), p \in Nat, s \in 0..(d - 1) :
          q = n \div d /\ r = n % d /\ p = (n + 1) \div d /\ s = (n + 1) % d
    BY <1>1
<1>3. d * p + s = d * q + r + 1
    <2>1. n = d * q + r /\ n + 1 = d * p + s  BY <1>1, <1>2
    <2> QED  BY <2>1
<1>4. CASE r = d - 1
    <2>1. d * (q + 1) = d * q + d  OBVIOUS
    <2>2. d * p + s = d * (q + 1) + 0  BY <1>3, <1>4, <2>1
    <2>3. p = q + 1 /\ s = 0  BY <2>2, Unique
    <2> QED  BY <1>2, <1>4, <2>3
<1>5. CASE r # d - 1
    <2>1. r + 1 \in 0..(d - 1)  BY <1>5
    <2>2. d * p + s = d * q + (r + 1)  BY <1>3
    <2>3. p = q /\ s = r + 1  BY <2>1, <2>2, Unique
    <2> QED  BY <1>2, <2>3
<1> QED  BY <1>4, <1>5
-----------------------------------------------------------------------------
Most == Greater(Capacity, InitialTokens)

LEMMA Params ==
    /\ Capacity \in Nat \ {0} /\ RefillRate \in Nat \ {0} /\ RefillInterval \in Nat \ {0}
    /\ PollCap \in Nat \ {0} /\ MaxWait \in Nat /\ Horizon \in Nat
    /\ Most \in Nat /\ Capacity <= Most /\ InitialTokens <= Most
    /\ LongIdle \in Nat
BY RateAssumption DEF Most, Greater, LongIdle

LEMMA BucketNumbers ==
    ASSUME TypeOK
    PROVE  /\ tokens \in 0..Most /\ age \in Nat /\ Refills \in Nat
           /\ Phase \in 0..(RefillInterval - 1)
           /\ Refilled \in 0..Most
           /\ age = RefillInterval * Refills + Phase
<1>1. tokens \in 0..Most /\ age \in Nat  BY Params DEF TypeOK, Most
<1>2. Refills \in Nat /\ Phase \in 0..(RefillInterval - 1)
      /\ age = RefillInterval * Refills + Phase
    BY <1>1, Params, QuotientRemainder DEF Refills, Phase
<1>3. Refills * RefillRate \in Nat  BY <1>2, Params
<1>4. Refilled \in 0..Most  BY <1>1, <1>3, Params DEF Refilled, Lesser
<1> QED  BY <1>1, <1>2, <1>4

LEMMA Zero == 0 \div RefillInterval = 0 /\ 0 % RefillInterval = 0
BY Params

\* A started interval holds no refill.
LEMMA Started ==
    ASSUME NEW n \in Nat, n \div RefillInterval = 0
    PROVE  n \in 0..(RefillInterval - 1)
<1>1. n % RefillInterval \in 0..(RefillInterval - 1)
      /\ n = RefillInterval * (n \div RefillInterval) + (n % RefillInterval)
    BY Params, QuotientRemainder
<1>2. n = n % RefillInterval  BY <1>1, Params
<1> QED  BY <1>1, <1>2

LEMMA Windows ==
    ASSUME TypeOK
    PROVE  /\ observed.time \in 0..Horizon /\ observed.permits \in Nat
           /\ observed.refills \in 0..Horizon /\ observed.burst \in Nat
BY DEF TypeOK

\* What a call that asks the bucket does to the bucket and to the window.
LEMMA BucketStep ==
    ASSUME Inv, NEW n \in {0, 1}, n <= Refilled, UpdateTokens(n), Watch(n)
    PROVE  /\ tokens' \in 0..Most /\ age' \in 0..LongIdle
           /\ age' \in 0..(RefillInterval - 1)
           /\ observed' \in [time : 0..Horizon, permits : Nat, refills : 0..Horizon, burst : Nat]
           /\ Credit'
<1>1. /\ tokens \in 0..Most /\ age \in Nat /\ Refills \in Nat /\ Refilled \in 0..Most
      /\ Phase \in 0..(RefillInterval - 1)
    BY BucketNumbers DEF Inv
<1>2. tokens' = Refilled - n /\ age' = IF Refills > 0 THEN 0 ELSE age
    BY DEF UpdateTokens
<1>3. tokens' \in 0..Most  BY <1>1, <1>2, Params
<1>4. age' \in 0..(RefillInterval - 1) /\ Refills' = 0 /\ Phase' <= Phase /\ Phase' \in Nat
    <2>1. CASE Refills > 0
        BY <1>1, <1>2, <2>1, Zero, Params DEF Refills, Phase
    <2>2. CASE Refills = 0
        BY <1>1, <1>2, <2>2, Started DEF Refills, Phase
    <2> QED  BY <1>1, <2>1, <2>2
<1>5. age' \in 0..LongIdle
    <2>1. RefillInterval <= LongIdle
        <3>1. PICK k \in Nat : Capacity = k + 1
            <4>1. Capacity - 1 \in Nat /\ Capacity = (Capacity - 1) + 1  BY Params
            <4> QED  BY <4>1
        <3>2. RefillInterval * (k + 1) = RefillInterval * k + RefillInterval /\ RefillInterval * k \in Nat
            BY Params
        <3> QED  BY <3>1, <3>2, Params DEF LongIdle, Greater
    <2> QED  BY <1>4, <2>1, Params
<1>6. /\ observed'.time = observed.time /\ observed'.permits = observed.permits + n
      /\ observed'.refills = Lesser(observed.refills + Refills, Horizon)
      /\ observed'.burst = observed.burst
      /\ observed' = [time |-> observed'.time, permits |-> observed'.permits,
                       refills |-> observed'.refills, burst |-> observed'.burst]
    BY DEF Watch
<1>7. observed' \in [time : 0..Horizon, permits : Nat, refills : 0..Horizon, burst : Nat]
    <2>1. Lesser(observed.refills + Refills, Horizon) \in 0..Horizon
        BY <1>1, Windows, Params DEF Lesser, Inv
    <2>2. observed.permits + n \in Nat  BY Windows DEF Inv
    <2> QED  BY <1>6, <2>1, <2>2, Windows DEF Inv
<1>8. Credit'
    <2>1. PICK count \in Nat :
            /\ observed.permits + Refilled <= observed.burst + RefillRate * count
            /\ RefillInterval * count <= observed.time + RefillInterval - 1 - Phase
        BY DEF Inv, Credit
    <2>2. Refilled' = Refilled - n  BY <1>2, <1>4 DEF Refilled
    <2>3. observed'.permits + Refilled' = observed.permits + Refilled
        BY <1>1, <1>6, <2>2, Windows DEF Inv
    <2>4. RefillRate' = RefillRate /\ RefillInterval' = RefillInterval  OBVIOUS
    <2>5. RefillInterval * count <= observed'.time + RefillInterval - 1 - Phase'
        <3>1. RefillInterval * count \in Nat  BY Params
        <3> QED  BY <1>1, <1>4, <1>6, <2>1, <3>1, Windows, Params DEF Inv
    <2> QED  BY <1>6, <2>1, <2>3, <2>5 DEF Credit
<1> QED  BY <1>3, <1>4, <1>5, <1>7, <1>8
-----------------------------------------------------------------------------
CallsType ==
    /\ pc \in [Callers -> {"idle", "polling", "permitted", "running"}]
    /\ timer \in [Callers -> 0..Lesser(PollCap, RefillInterval)]
    /\ waited \in [Callers -> 0..(MaxWait + 1)]
    /\ aborted \subseteq Callers

LEMMA TypeParts ==
    TypeOK <=> /\ tokens \in 0..Most /\ age \in 0..LongIdle /\ CallsType
               /\ observed \in [time : 0..Horizon, permits : Nat, refills : 0..Horizon, burst : Nat]
BY DEF TypeOK, CallsType, Most

LEMMA InvInit == ASSUME Init PROVE Inv
<1>1. tokens \in 0..Most /\ age = 0 /\ observed = NewWindow
    <2>1. tokens \in 0..InitialTokens /\ age = 0 /\ observed = NewWindow  BY DEF Init
    <2>2. InitialTokens \in Nat  BY RateAssumption
    <2> QED  BY <2>1, <2>2, Params
<1>2. 0 \in 0..LongIdle /\ 0 \in 0..Lesser(PollCap, RefillInterval) /\ 0 \in 0..(MaxWait + 1)
      /\ 0 \in 0..Horizon /\ Greater(Capacity, tokens) \in Nat
    BY <1>1, Params DEF Lesser, Greater
<1>3. CallsType  BY <1>2 DEF Init, CallsType
<1>4. observed \in [time : 0..Horizon, permits : Nat, refills : 0..Horizon, burst : Nat]
    BY <1>1, <1>2 DEF NewWindow
<1>5. TypeOK  BY <1>1, <1>2, <1>3, <1>4, TypeParts
<1>6. Credit
    <2>1. Refilled = tokens /\ Phase = 0  BY <1>1, Zero DEF Refilled, Refills, Phase
    <2>2. observed.permits = 0 /\ observed.time = 0 /\ observed.burst = Greater(Capacity, tokens)
        BY <1>1 DEF NewWindow
    <2>3. tokens <= Greater(Capacity, tokens)  BY <1>1, Params DEF Greater
    <2>4. RefillRate * 0 = 0 /\ RefillInterval * 0 = 0  BY Params
    <2>5. /\ observed.permits + Refilled <= observed.burst + RefillRate * 0
          /\ RefillInterval * 0 <= observed.time + RefillInterval - 1 - Phase
        BY <1>1, <1>2, <2>1, <2>2, <2>3, <2>4, Params
    <2>6. 0 \in Nat  OBVIOUS
    <2> QED  BY <2>5, <2>6 DEF Credit
<1> QED  BY <1>5, <1>6 DEF Inv

\* No poll is set past the next refill.
LEMMA TimerLength ==
    ASSUME NEW n \in 0..(RefillInterval - 1)
    PROVE  Lesser(RefillInterval - n, PollCap) \in 0..Lesser(PollCap, RefillInterval)
<1>1. RefillInterval - n \in 1..RefillInterval  BY Params
<1> QED  BY <1>1, Params DEF Lesser

LEMMA AcquireStep ==
    ASSUME Inv, NEW c \in Callers, NEW elapsed \in 0..(MaxWait + 1), Acquire(c, elapsed)
    PROVE  Inv'
<1>1. PICK n \in {0, 1} : n <= Refilled /\ UpdateTokens(n) /\ Watch(n)
    <2>1. Refilled \in Nat  BY BucketNumbers, Params DEF Inv
    <2>2. CASE Permit(c)
        <3>1. 1 <= Refilled /\ UpdateTokens(1) /\ Watch(1)  BY <2>1, <2>2 DEF Permit
        <3> QED  BY <3>1
    <2>3. CASE Refuse(c, elapsed) \/ Pause(c, elapsed)
        <3>1. UpdateTokens(0) /\ Watch(0)  BY <2>3 DEF Refuse, Pause
        <3>2. 0 <= Refilled  BY <2>1
        <3> QED  BY <3>1, <3>2
    <2> QED  BY <2>2, <2>3 DEF Acquire
<1>2. /\ tokens' \in 0..Most /\ age' \in 0..LongIdle
      /\ age' \in 0..(RefillInterval - 1)
      /\ observed' \in [time : 0..Horizon, permits : Nat, refills : 0..Horizon, burst : Nat]
      /\ Credit'
    BY <1>1, BucketStep
<1>3. 0 \in 0..Lesser(PollCap, RefillInterval) /\ 0 \in 0..(MaxWait + 1)
      /\ Lesser(RefillInterval - age', PollCap) \in 0..Lesser(PollCap, RefillInterval)
    <2>1. age' \in 0..(RefillInterval - 1)  BY <1>2
    <2>2. Lesser(RefillInterval - age', PollCap) \in 0..Lesser(PollCap, RefillInterval)
        BY <2>1, TimerLength
    <2>3. 0 \in 0..Lesser(PollCap, RefillInterval) /\ 0 \in 0..(MaxWait + 1)  BY Params DEF Lesser
    <2> QED  BY <2>1, <2>2, <2>3
<1>4. CallsType'
    <2>1. PICK pause \in 0..Lesser(PollCap, RefillInterval), wait \in 0..(MaxWait + 1),
               place \in {"idle", "polling", "permitted"} :
              Pausing(c, pause, wait) /\ Goto(c, place)
        <3>1. CASE Permit(c)  BY <1>3, <3>1 DEF Permit
        <3>2. CASE Refuse(c, elapsed)  BY <1>3, <3>2 DEF Refuse
        <3>3. CASE Pause(c, elapsed)  BY <1>3, <3>3 DEF Pause
        <3> QED  BY <3>1, <3>2, <3>3 DEF Acquire
    <2>2. aborted' \subseteq aborted
        BY DEF Acquire, Permit, Refuse, Pause
    <2> QED  BY <2>1, <2>2, TypeParts DEF Inv, CallsType, Pausing, Goto
<1> QED  BY <1>2, <1>4 DEF Inv, TypeOK, CallsType, Most

\* A new window: nothing was given yet, and the bucket owes what it holds.
LEMMA Opens ==
    ASSUME Inv, NEW held \in Nat, held <= Greater(Capacity, tokens),
           NEW phase \in 0..(RefillInterval - 1)
    PROVE  \E count \in Nat :
               /\ NewWindow.permits + held <= NewWindow.burst + RefillRate * count
               /\ RefillInterval * count <= NewWindow.time + RefillInterval - 1 - phase
<1>1. RefillRate * 0 = 0 /\ RefillInterval * 0 = 0  BY Params
<1>2. NewWindow.permits = 0 /\ NewWindow.time = 0 /\ NewWindow.burst = Greater(Capacity, tokens)
    BY DEF NewWindow
<1>3. Greater(Capacity, tokens) \in Nat
    BY BucketNumbers, Params DEF Inv, Greater
<1>4. /\ NewWindow.permits + held <= NewWindow.burst + RefillRate * 0
      /\ RefillInterval * 0 <= NewWindow.time + RefillInterval - 1 - phase
    BY <1>1, <1>2, <1>3, Params
<1> QED  BY <1>4

LEMMA NewWindowType ==
    ASSUME Inv
    PROVE  NewWindow \in [time : 0..Horizon, permits : Nat, refills : 0..Horizon, burst : Nat]
<1>1. Greater(Capacity, tokens) \in Nat
    BY BucketNumbers, Params DEF Inv, Greater
<1>2. 0 \in 0..Horizon  BY Params
<1> QED  BY <1>1, <1>2 DEF NewWindow

LEMMA ObserveStep == ASSUME Inv, Observe PROVE Inv'
<1>1. tokens' = tokens /\ age' = age /\ observed' = NewWindow
      /\ UNCHANGED <<pc, timer, waited, aborted>>
    BY DEF Observe
<1>2. TypeOK'  BY <1>1, NewWindowType DEF Inv, TypeOK
<1>3. Refilled' = Refilled /\ Phase' = Phase  BY <1>1 DEF Refilled, Refills, Phase
<1>4. Refilled \in Nat /\ Refilled <= Greater(Capacity, tokens) /\ Phase \in 0..(RefillInterval - 1)
    BY BucketNumbers, Params DEF Inv, Refilled, Lesser, Greater
<1>5. Credit'  BY <1>1, <1>3, <1>4, Opens DEF Credit
<1> QED  BY <1>2, <1>5 DEF Inv

\* The bucket when time passes: at most one more refill is owed, and then the
\* phase starts again.
LEMMA TimeStep ==
    ASSUME Inv, age' = Lesser(age + 1, LongIdle), tokens' = tokens
    PROVE  /\ age' \in 0..LongIdle /\ Refilled' \in Nat
           /\ Phase' \in 0..(RefillInterval - 1)
           /\ Refilled' <= Greater(Capacity, tokens)
           /\ \/ Refilled' <= Refilled /\ Phase' <= Phase + 1
              \/ Refilled' <= Refilled + RefillRate /\ Phase' = 0 /\ Phase = RefillInterval - 1
<1>1. /\ tokens \in 0..Most /\ age \in Nat /\ Refills \in Nat /\ Refilled \in 0..Most
      /\ Phase \in 0..(RefillInterval - 1)
    BY BucketNumbers DEF Inv
<1>2. age \in 0..LongIdle  BY DEF Inv, TypeOK
<1>3. age' \in 0..LongIdle  BY <1>2, Params DEF Lesser
<1>4. /\ Refills' \in Nat /\ Phase' \in 0..(RefillInterval - 1)
    <2>1. PICK n \in Nat : n = age'  BY <1>3, Params
    <2>2. n \div RefillInterval \in Nat /\ n % RefillInterval \in 0..(RefillInterval - 1)
        BY Params, QuotientRemainder
    <2> QED  BY <2>1, <2>2 DEF Refills, Phase
<1>5. PICK add \in Nat : add = Refills * RefillRate  BY <1>1, Params
<1>6. Refilled' \in Nat /\ Refilled' <= Greater(Capacity, tokens)
    <2>1. PICK n \in Nat : n = Refills'  BY <1>4
    <2>2. PICK more \in Nat : more = n * RefillRate  BY Params
    <2>3. Refilled' = IF n > 0 THEN Lesser(Capacity, tokens + more) ELSE tokens
        BY <2>1, <2>2 DEF Refilled
    <2>4. tokens \in Nat  BY <1>1, Params
    <2>5. Lesser(Capacity, tokens + more) \in Nat /\ Lesser(Capacity, tokens + more) <= Capacity
        BY <2>4, Params DEF Lesser
    <2>6. Capacity <= Greater(Capacity, tokens) /\ tokens <= Greater(Capacity, tokens)
          /\ Greater(Capacity, tokens) \in Nat
        BY <2>4, Params DEF Greater
    <2> QED  BY <2>3, <2>4, <2>5, <2>6, Params
<1>7. CASE age' = age
    <2>1. Refilled' = Refilled /\ Phase' = Phase  BY <1>7 DEF Refilled, Refills, Phase
    <2> QED  BY <1>1, <1>3, <1>4, <1>6, <2>1, Params
<1>8. CASE age' = age + 1 /\ Refills' = Refills /\ Phase' = Phase + 1
    <2>1. Refilled' = Refilled  BY <1>8 DEF Refilled
    <2> QED  BY <1>1, <1>3, <1>4, <1>6, <1>8, <2>1
<1>9. CASE age' = age + 1 /\ Refills' = Refills + 1 /\ Phase' = 0 /\ Phase = RefillInterval - 1
    <2>1. Refills' * RefillRate = Refills * RefillRate + RefillRate  BY <1>1, <1>9, Params
    <2>2. Refilled' = Lesser(Capacity, tokens + (add + RefillRate))
        BY <1>1, <1>5, <1>9, <2>1 DEF Refilled
    <2>3. Refilled = IF Refills > 0 THEN Lesser(Capacity, tokens + add) ELSE tokens
        BY <1>5 DEF Refilled
    <2>4. Refills = 0 => add = 0  BY <1>5, Params
    <2>5. Refilled' <= Refilled + RefillRate
        BY <1>1, <1>5, <2>2, <2>3, <2>4, Params DEF Lesser
    <2> QED  BY <1>3, <1>4, <1>6, <1>9, <2>5
<1>10. age' = age \/ age' = age + 1
    BY <1>1, <1>2, Params DEF Lesser
<1>11. age' = age + 1 =>
           \/ Refills' = Refills /\ Phase' = Phase + 1
           \/ Refills' = Refills + 1 /\ Phase' = 0 /\ Phase = RefillInterval - 1
    <2>1. \/ /\ (age + 1) \div RefillInterval = age \div RefillInterval
             /\ (age + 1) % RefillInterval = (age % RefillInterval) + 1
          \/ /\ (age + 1) \div RefillInterval = age \div RefillInterval + 1
             /\ (age + 1) % RefillInterval = 0 /\ age % RefillInterval = RefillInterval - 1
        BY <1>1, Params, NextUnit
    <2> QED  BY <2>1 DEF Refills, Phase
<1> QED  BY <1>3, <1>4, <1>6, <1>7, <1>8, <1>9, <1>10, <1>11

LEMMA TimePassesStep == ASSUME Inv, TimePasses PROVE Inv'
<1>1. age' = Lesser(age + 1, LongIdle) /\ tokens' = tokens  BY DEF TimePasses
<1>2. /\ age' \in 0..LongIdle /\ Refilled' \in Nat
      /\ Phase' \in 0..(RefillInterval - 1)
      /\ Refilled' <= Greater(Capacity, tokens)
      /\ \/ Refilled' <= Refilled /\ Phase' <= Phase + 1
         \/ Refilled' <= Refilled + RefillRate /\ Phase' = 0 /\ Phase = RefillInterval - 1
    BY <1>1, TimeStep
<1>3. CallsType'
    <2>1. CallsType  BY TypeParts DEF Inv
    <2>2. ASSUME NEW n \in 0..Lesser(PollCap, RefillInterval), n > 0
          PROVE  n - 1 \in 0..Lesser(PollCap, RefillInterval)
        BY <2>2, Params DEF Lesser
    <2>3. ASSUME NEW n \in 0..(MaxWait + 1)
          PROVE  Lesser(n + 1, MaxWait + 1) \in 0..(MaxWait + 1)
        BY Params DEF Lesser
    <2>4. 0 \in 0..Lesser(PollCap, RefillInterval) /\ 0 \in 0..(MaxWait + 1)
        BY Params DEF Lesser
    <2> QED  BY <2>1, <2>2, <2>3, <2>4 DEF TimePasses, CallsType
<1>4. CASE observed.time < Horizon /\ observed' = [observed EXCEPT !.time = @ + 1]
    <2>1. observed.time + 1 \in 0..Horizon  BY <1>4, Windows, Params DEF Inv
    <2>2. observed' \in [time : 0..Horizon, permits : Nat, refills : 0..Horizon, burst : Nat]
        BY <1>4, <2>1 DEF Inv, TypeOK
    <2>3. observed'.time = observed.time + 1 /\ observed'.permits = observed.permits
          /\ observed'.burst = observed.burst
        BY <1>4 DEF Inv, TypeOK
    <2>4. TypeOK'  BY <1>1, <1>2, <1>3, <2>2 DEF Inv, TypeOK, CallsType
    <2> SUFFICES Credit'  BY <2>4 DEF Inv
    <2>5. PICK count \in Nat :
              /\ observed.permits + Refilled <= observed.burst + RefillRate * count
              /\ RefillInterval * count <= observed.time + RefillInterval - 1 - Phase
        BY DEF Inv, Credit
    <2>6. Refilled \in Nat /\ Phase \in 0..(RefillInterval - 1)  BY BucketNumbers, Params DEF Inv
    <2>7. RefillInterval * count \in Nat /\ RefillRate * count \in Nat  BY Params
    <2>8. CASE Refilled' <= Refilled /\ Phase' <= Phase + 1
        <3>1. /\ observed'.permits + Refilled' <= observed'.burst + RefillRate * count
              /\ RefillInterval * count <= observed'.time + RefillInterval - 1 - Phase'
            BY <1>2, <2>3, <2>5, <2>6, <2>7, <2>8, Windows, Params DEF Inv
        <3> QED  BY <3>1 DEF Credit
    <2>9. CASE Refilled' <= Refilled + RefillRate /\ Phase' = 0 /\ Phase = RefillInterval - 1
        <3>1. RefillInterval * (count + 1) = RefillInterval * count + RefillInterval
              /\ RefillRate * (count + 1) = RefillRate * count + RefillRate
            BY Params
        <3>2. /\ observed'.permits + Refilled' <= observed'.burst + RefillRate * (count + 1)
              /\ RefillInterval * (count + 1) <= observed'.time + RefillInterval - 1 - Phase'
            BY <1>2, <2>3, <2>5, <2>6, <2>7, <2>9, <3>1, Windows, Params DEF Inv
        <3>3. count + 1 \in Nat  OBVIOUS
        <3> QED  BY <3>2, <3>3 DEF Credit
    <2> QED  BY <1>2, <2>8, <2>9
<1>5. CASE observed' = NewWindow
    <2>1. TypeOK'  BY <1>1, <1>2, <1>3, <1>5, NewWindowType DEF Inv, TypeOK, CallsType
    <2>2. Credit'  BY <1>2, <1>5, Opens DEF Credit
    <2> QED  BY <2>1, <2>2 DEF Inv
<1> QED  BY <1>4, <1>5 DEF TimePasses

LEMMA InvNext == ASSUME Inv, [Next]_vars PROVE Inv'
<1>1. ASSUME NEW c \in Callers, Begin(c) \/ Poll(c)
      PROVE  Inv'
    <2>1. 0 \in 0..(MaxWait + 1) /\ waited[c] \in 0..(MaxWait + 1)
        BY Params DEF Inv, TypeOK
    <2> QED  BY <1>1, <2>1, AcquireStep DEF Begin, Poll
<1>2. ASSUME UNCHANGED <<tokens, age, timer, waited, observed>>,
             pc' \in [Callers -> {"idle", "polling", "permitted", "running"}],
             aborted' \subseteq Callers
      PROVE  Inv'
    <2>1. TypeOK'  BY <1>2 DEF Inv, TypeOK
    <2>2. Credit'  BY <1>2 DEF Inv, Credit, Refilled, Refills, Phase
    <2> QED  BY <2>1, <2>2 DEF Inv
<1>3. pc \in [Callers -> {"idle", "polling", "permitted", "running"}] /\ aborted \subseteq Callers
    BY DEF Inv, TypeOK
<1>4. ASSUME NEW c \in Callers, Abort(c) \/ Start(c) \/ Finish(c)
      PROVE  Inv'
    BY <1>2, <1>3, <1>4 DEF Abort, Start, Finish, Goto
<1>5. CASE UNCHANGED vars  BY <1>2, <1>3, <1>5 DEF vars
<1> QED
    BY <1>1, <1>4, <1>5, TimePassesStep, ObserveStep DEF Next, Call

LEMMA InvBound == ASSUME Inv PROVE RateBound
<1>1. PICK count \in Nat :
          /\ observed.permits + Refilled <= observed.burst + RefillRate * count
          /\ RefillInterval * count <= observed.time + RefillInterval - 1 - Phase
    BY DEF Inv, Credit
<1>2. Refilled \in Nat /\ Phase \in 0..(RefillInterval - 1)  BY BucketNumbers, Params DEF Inv
<1>3. PICK q \in Nat, r \in 0..(RefillInterval - 1) :
          q = observed.time \div RefillInterval /\ observed.time = RefillInterval * q + r
    <2>1. observed.time \in Nat  BY Windows, Params DEF Inv
    <2>2. PICK n \in Nat : n = observed.time  BY <2>1
    <2>3. n \div RefillInterval \in Nat /\ n % RefillInterval \in 0..(RefillInterval - 1)
          /\ n = RefillInterval * (n \div RefillInterval) + (n % RefillInterval)
        BY Params, QuotientRemainder
    <2> QED  BY <2>2, <2>3
<1>4. count <= 1 + q
    <2> SUFFICES ASSUME count > 1 + q PROVE FALSE  OBVIOUS
    <2>1. PICK k \in Nat : count = q + 2 + k
        <3>1. count - q - 2 \in Nat /\ count = q + 2 + (count - q - 2)  OBVIOUS
        <3> QED  BY <3>1
    <2>2. RefillInterval * count = RefillInterval * q + 2 * RefillInterval + RefillInterval * k
        BY <2>1, Params
    <2>3. RefillInterval * k \in Nat /\ RefillInterval * q \in Nat  BY Params
    <2> QED  BY <1>1, <1>2, <1>3, <2>2, <2>3, Params
<1>5. RefillRate * count <= RefillRate * (1 + q)
    <2>1. PICK k \in Nat : 1 + q = count + k
        <3>1. 1 + q - count \in Nat /\ 1 + q = count + (1 + q - count)  BY <1>4
        <3> QED  BY <3>1
    <2>2. RefillRate * (1 + q) = RefillRate * count + RefillRate * k /\ RefillRate * k \in Nat
          /\ RefillRate * count \in Nat
        BY <2>1, Params
    <2> QED  BY <2>2
<1>6. RefillRate * count \in Nat /\ RefillRate * (1 + q) \in Nat  BY Params
<1>7. observed.permits <= observed.burst + RefillRate * (1 + q)
    BY <1>1, <1>2, <1>5, <1>6, Windows DEF Inv
<1> QED  BY <1>3, <1>7 DEF RateBound

\* token-bucket.ts:140-173: in any window of any length the bucket gives no more
\* permits than it holds at the start or can hold, and the refills of the window.
THEOREM PermitsBounded == Spec => []RateBound
<1>1. Init => Inv  BY InvInit
<1>2. Inv /\ [Next]_vars => Inv'  BY InvNext
<1>3. Inv => RateBound  BY InvBound
<1> QED  BY <1>1, <1>2, <1>3, PTL DEF Spec
-----------------------------------------------------------------------------
\* What a window has seen paid: of two intervals one, but for the time since
\* the last refill.  A refill that is computed late pays the whole intervals
\* of age and forgets less than one more.
Paid == observed.time <= 2 * RefillInterval * observed.refills + age

LEMMA IdleBounds == LongIdle \in Nat /\ Horizon <= LongIdle
<1>1. RefillInterval * Capacity \in Nat  BY Params
<1> QED  BY <1>1, Params DEF LongIdle, Greater

\* Twice the intervals that are over are longer than the age.
LEMMA AgeBound ==
    ASSUME TypeOK
    PROVE  age < 2 * RefillInterval * Refills + RefillInterval
<1>1. PICK a \in Nat : a = RefillInterval * Refills  BY BucketNumbers, Params
<1>2. age = a + Phase /\ Phase \in 0..(RefillInterval - 1)  BY <1>1, BucketNumbers
<1>3. 2 * RefillInterval * Refills = a + a  BY <1>1, BucketNumbers, Params
<1> QED  BY <1>1, <1>2, <1>3, Params

\* A refill of at least one interval pays what the age has run up.
LEMMA RefillPays ==
    ASSUME TypeOK, Refills > 0
    PROVE  age <= 2 * RefillInterval * Refills
<1>1. PICK k \in Nat : Refills = k + 1
    <2>1. Refills - 1 \in Nat /\ Refills = (Refills - 1) + 1  BY BucketNumbers
    <2> QED  BY <2>1
<1>2. PICK a \in Nat : a = RefillInterval * k  BY Params
<1>3. RefillInterval * Refills = a + RefillInterval  BY <1>1, <1>2, Params
<1>4. 2 * RefillInterval * Refills = a + a + RefillInterval + RefillInterval
    BY <1>1, <1>2, Params
<1>5. age = a + RefillInterval + Phase /\ Phase \in 0..(RefillInterval - 1)
    BY <1>3, BucketNumbers
<1> QED  BY <1>2, <1>4, <1>5, Params

LEMMA PaidInit == Init => Paid
<1> SUFFICES ASSUME Init PROVE Paid  OBVIOUS
<1>1. observed.time = 0 /\ observed.refills = 0 /\ age = 0  BY DEF Init, NewWindow
<1> QED  BY <1>1, Params DEF Paid

LEMMA PaidNewWindow ==
    ASSUME observed' = NewWindow, age' \in Nat
    PROVE  Paid'
<1>1. observed'.time = 0 /\ observed'.refills = 0  BY DEF NewWindow
<1>2. 2 * RefillInterval * 0 = 0  BY Params
<1> QED  BY <1>1, <1>2 DEF Paid

\* A call that asks the bucket.
LEMMA PaidBucket ==
    ASSUME TypeOK, Paid, NEW n \in {0, 1}, UpdateTokens(n), Watch(n)
    PROVE  Paid'
<1>1. /\ observed.time \in 0..Horizon /\ observed.refills \in 0..Horizon
      /\ Refills \in Nat /\ age \in Nat
    BY Windows, BucketNumbers
<1>2. /\ observed'.time = observed.time
      /\ observed'.refills = Lesser(observed.refills + Refills, Horizon)
      /\ age' = IF Refills > 0 THEN 0 ELSE age
    BY DEF Watch, UpdateTokens
<1>3. CASE Refills = 0
    <2>1. observed'.refills = observed.refills /\ age' = age  BY <1>1, <1>2, <1>3, Params DEF Lesser
    <2> QED  BY <1>2, <2>1 DEF Paid
<1>4. CASE Refills > 0 /\ observed.refills + Refills < Horizon
    <2>1. observed'.refills = observed.refills + Refills /\ age' = 0
        BY <1>1, <1>2, <1>4, Params DEF Lesser
    <2>2. PICK a \in Nat, b \in Nat :
              a = 2 * RefillInterval * observed.refills /\ b = 2 * RefillInterval * Refills
        BY <1>1, Params
    <2>3. 2 * RefillInterval * (observed.refills + Refills) = a + b  BY <1>1, <2>2, Params
    <2>4. age <= b  BY <1>4, <2>2, RefillPays
    <2>5. observed.time <= a + age  BY <2>2 DEF Paid
    <2> QED  BY <1>1, <1>2, <2>1, <2>2, <2>3, <2>4, <2>5 DEF Paid
<1>5. CASE Refills > 0 /\ ~(observed.refills + Refills < Horizon)
    <2>1. observed'.refills = Horizon /\ age' = 0  BY <1>1, <1>2, <1>5, Params DEF Lesser
    <2>2. PICK k \in Nat : 2 * RefillInterval = k + 1
        <3>1. 2 * RefillInterval - 1 \in Nat /\ 2 * RefillInterval = (2 * RefillInterval - 1) + 1
            BY Params
        <3> QED  BY <3>1
    <2>3. 2 * RefillInterval * Horizon = Horizon + k * Horizon /\ k * Horizon \in Nat
        BY <2>2, Params
    <2>4. PICK t \in Nat : t = 2 * RefillInterval * Horizon  BY Params
    <2>5. observed'.time <= t + age'  BY <1>1, <1>2, <2>1, <2>3, <2>4, Params
    <2> QED  BY <2>1, <2>4, <2>5 DEF Paid
<1> QED  BY <1>1, <1>3, <1>4, <1>5

LEMMA PaidTimePasses ==
    ASSUME TypeOK, Paid, TimePasses
    PROVE  Paid'
<1>1. /\ observed.time \in 0..Horizon /\ observed.refills \in 0..Horizon /\ age \in 0..LongIdle
      /\ age' = Lesser(age + 1, LongIdle)
    BY Windows DEF TimePasses, TypeOK
<1>2. age' \in Nat /\ (age' = age + 1 \/ age' = LongIdle)  BY <1>1, IdleBounds DEF Lesser
<1>3. CASE observed.time < Horizon /\ observed' = [observed EXCEPT !.time = @ + 1]
    <2>1. observed'.time = observed.time + 1 /\ observed'.refills = observed.refills
        BY <1>3 DEF TypeOK
    <2>2. PICK a \in Nat : a = 2 * RefillInterval * observed.refills  BY <1>1, Params
    <2>3. observed.time <= a + age  BY <2>2 DEF Paid
    <2>4. observed.time + 1 <= a + age'
        BY <1>1, <1>2, <1>3, <2>2, <2>3, IdleBounds, Params
    <2> QED  BY <2>1, <2>2, <2>4 DEF Paid
<1>4. CASE observed' = NewWindow  BY <1>2, <1>4, PaidNewWindow
<1> QED  BY <1>3, <1>4 DEF TimePasses

LEMMA PaidNext == ASSUME TypeOK, Paid, [Next]_vars PROVE Paid'
<1>1. ASSUME NEW c \in Callers, NEW elapsed, Acquire(c, elapsed)
      PROVE  Paid'
    <2>1. CASE UpdateTokens(1) /\ Watch(1)  BY <2>1, PaidBucket
    <2>2. CASE UpdateTokens(0) /\ Watch(0)  BY <2>2, PaidBucket
    <2> QED  BY <1>1, <2>1, <2>2 DEF Acquire, Permit, Refuse, Pause
<1>2. CASE UNCHANGED <<age, observed>>  BY <1>2 DEF Paid
<1>3. CASE Observe
    <2>1. observed' = NewWindow /\ age' = age /\ age \in Nat
        BY <1>3, BucketNumbers DEF Observe
    <2> QED  BY <2>1, PaidNewWindow
<1>4. CASE TimePasses  BY <1>4, PaidTimePasses
<1> QED
    BY <1>1, <1>2, <1>3, <1>4
       DEF Next, Call, Begin, Poll, Abort, Start, Finish, vars

LEMMA PaidBound == ASSUME TypeOK, Paid PROVE RefillsAtHalfRate
<1>1. /\ observed.time \in Nat /\ observed.refills \in Nat /\ Refills \in Nat /\ age \in Nat
    BY Windows, BucketNumbers, Params
<1>2. PICK a \in Nat, b \in Nat :
          a = 2 * RefillInterval * observed.refills /\ b = 2 * RefillInterval * Refills
    BY <1>1, Params
<1>3. 2 * RefillInterval * (observed.refills + Refills + 1)
          = a + b + RefillInterval + RefillInterval
    BY <1>1, <1>2, Params
<1>4. observed.time <= a + age  BY <1>2 DEF Paid
<1>5. age < b + RefillInterval  BY <1>2, AgeBound
<1> QED  BY <1>1, <1>2, <1>3, <1>4, <1>5, Params DEF RefillsAtHalfRate

\* token-bucket.ts:140-150: an interval that a late refill forgets is never a
\* whole one, so that in every window of every length half of the intervals
\* that pass are paid or still owed.
THEOREM HalfRatePaid == Spec => []RefillsAtHalfRate
<1>1. Init => Inv /\ Paid  BY InvInit, PaidInit
<1>2. Inv /\ Paid /\ [Next]_vars => Inv' /\ Paid'  BY InvNext, PaidNext DEF Inv
<1>3. Inv /\ Paid => RefillsAtHalfRate  BY PaidBound DEF Inv
<1> QED  BY <1>1, <1>2, <1>3, PTL DEF Spec
=============================================================================
