---------------------------- MODULE RedisProofs ----------------------------
(***************************************************************************)
(* Proofs about RedisBreaker, for any number of clients, administrators,   *)
(* thresholds and delays, over a network that may lose requests and whose  *)
(* processes may crash.                                                    *)
(***************************************************************************)
EXTENDS RedisBreaker, TLAPS

\* The request a call may have under way at each of its awaits.
Fits(place, commands) ==
    /\ place \in {"idle", "running"} => commands = <<>>
    /\ place \in {"checking", "failing", "announcing", "deciding"} =>
          commands \in {<<>>, <<"getState">>}
    /\ place = "succeeding" => commands \in {<<>>, <<"recordSuccess">>}
    /\ place = "failed" => commands \in {<<>>, <<"recordFailure">>}
    /\ place = "setting" =>
          commands \notin {<<"getState">>, <<"recordSuccess">>, <<"recordFailure">>}

\* Failures that a call may record: the one of its operation and, once the
\* catch block has it, the one of its own store call.
Budget(p) == (IF p \in failed THEN 1 ELSE 0) + (IF p \in misled /\ p \notin inTry THEN 1 ELSE 0)

ProcOK(p) ==
    /\ Fits(at[p], request[p])
    /\ p \in Admins => at[p] \in {"idle", "deciding", "setting"}
    /\ at[p] \in {"deciding", "setting"} => p \in Admins
    /\ at[p] \in {"idle", "checking", "running", "succeeding", "deciding", "setting"} =>
          counted[p] = 0 /\ p \notin inTry /\ p \notin failed
    /\ at[p] \in {"idle", "checking", "running", "deciding", "setting"} => p \notin misled
    /\ p \in inTry => p \in failed
    /\ reply[p] = "error" /\ InsideTry(p) => p \in misled
    /\ at[p] = "failing" => counted[p] < Budget(p)
    /\ at[p] = "failed" =>
          counted[p] < Budget(p) \/ (counted[p] = Budget(p) /\ request[p] = <<>>)
    /\ at[p] = "announcing" => counted[p] <= Budget(p)

ProcsOK == \A p \in Procs : ProcOK(p)

\* A closed circuit at its threshold, or with successes, is about to be zeroed
\* by a pipeline that has begun, or was torn from it.
Pending(command) ==
    \E a \in Admins : \/ request[a] = <<"zero failures", "zero successes">>
                      \/ request[a] = <<"zero successes">> /\ command = "zero successes"

ClosedIsZeroed ==
    hash.state = "closed" =>
        /\ hash.failures < FailThreshold \/ Pending("zero failures") \/ "failures" \in torn
        /\ hash.successes = 0 \/ Pending("zero successes") \/ "successes" \in torn

\* The inductive invariant.
IInv == TypeOK /\ ProcsOK /\ ClosedIsZeroed
-----------------------------------------------------------------------------
LEMMA Params ==
    /\ FailThreshold \in Nat /\ FailThreshold > 0
    /\ SuccessThreshold \in Nat /\ SuccessThreshold > 0
    /\ BreakDuration \in Nat /\ MaxDelay \in Nat
BY RedisAssumption

LEMMA OneCommand == ASSUME NEW c PROVE Head(<<c>>) = c /\ Tail(<<c>>) = <<>>
OBVIOUS
LEMMA TwoCommands == ASSUME NEW c, NEW d PROVE Head(<<c, d>>) = c /\ Tail(<<c, d>>) = <<d>>
OBVIOUS
LEMMA ThreeCommands ==
    ASSUME NEW c, NEW d, NEW e PROVE Head(<<c, d, e>>) = c /\ Tail(<<c, d, e>>) = <<d, e>>
OBVIOUS

LEMMA OneApart == ASSUME NEW c, NEW d, c # d PROVE <<c>> # <<d>> /\ <<c>> # <<>>
BY OneCommand
LEMMA TwoApart == ASSUME NEW c, NEW d, NEW e PROVE <<c, d>> # <<e>> /\ <<c, d>> # <<>>
<1>1. <<e>> # <<c, d>>
  <2>1. Len(<<e>>) = 1 /\ Len(<<c, d>>) = 2
    OBVIOUS
  <2> QED BY <2>1
<1>2. Len(<<c, d>>) = 2 /\ Len(<<>>) = 0
  OBVIOUS
<1> QED BY <1>1, <1>2

\* The first command of a request, and what is left after it.
LEMMA RequestSplit ==
    ASSUME NEW r, r \in Requests, r # <<>>
    PROVE  /\ Tail(r) \in Requests
           /\ Head(r) \in {"getState", "recordSuccess", "recordFailure", "set isolated"} =>
                 r = <<Head(r)>> /\ Tail(r) = <<>>
           /\ Head(r) = "set closed" =>
                 /\ r = <<"set closed", "zero failures", "zero successes">>
                 /\ Tail(r) = <<"zero failures", "zero successes">>
           /\ Head(r) = "zero failures" =>
                 r = <<"zero failures", "zero successes">> /\ Tail(r) = <<"zero successes">>
           /\ Head(r) = "zero successes" => r = <<"zero successes">> /\ Tail(r) = <<>>
           /\ Head(r) \in {"getState", "recordSuccess", "recordFailure", "set isolated",
                            "set closed", "zero failures", "zero successes"}
<1>1. CASE r \in {<<"getState">>, <<"recordSuccess">>, <<"recordFailure">>,
                  <<"set isolated">>, <<"zero successes">>}
  <2>1. PICK command : r = <<command>> /\ command \in {"getState", "recordSuccess",
                          "recordFailure", "set isolated", "zero successes"}
    BY <1>1
  <2>2. Head(r) = command /\ Tail(r) = <<>>
    BY <2>1, OneCommand
  <2> QED BY <2>1, <2>2 DEF Requests
<1>2. CASE r = <<"zero failures", "zero successes">>
  <2>1. Head(r) = "zero failures" /\ Tail(r) = <<"zero successes">>
    BY <1>2, TwoCommands
  <2> QED BY <1>2, <2>1 DEF Requests
<1>3. CASE r = <<"set closed", "zero failures", "zero successes">>
  <2>1. Head(r) = "set closed" /\ Tail(r) = <<"zero failures", "zero successes">>
    BY <1>3, ThreeCommands
  <2> QED BY <1>3, <2>1 DEF Requests
<1> QED BY <1>1, <1>2, <1>3 DEF Requests

LEMMA InitOK == Init => IInv
<1> SUFFICES ASSUME Init PROVE IInv
  OBVIOUS
<1>1. hash = [state |-> "closed", failures |-> 0, successes |-> 0, age |-> 0]
  BY DEF Init
<1>2. TypeOK
  <2>1. hash \in [state : States, failures : 0..FailThreshold,
                  successes : 0..(SuccessThreshold - 1), age : 0..(BreakDuration + MaxDelay)]
    BY <1>1, RedisAssumption DEF States
  <2>2. /\ at \in [Procs -> Places] /\ request \in [Procs -> Requests]
        /\ reply \in [Procs -> Replies] /\ target \in [Procs -> {"isolated", "closed", None}]
        /\ inTry = {} /\ failed = {} /\ misled = {} /\ torn = {}
    BY DEF Init, Places, Requests, Replies
  <2>3. lag \in [Procs -> 0..MaxDelay] /\ counted \in [Procs -> 0..2] /\ probes \in 0..SuccessThreshold
    BY RedisAssumption DEF Init
  <2> QED BY <2>1, <2>2, <2>3 DEF TypeOK
<1>3. ProcsOK
  BY DEF Init, ProcsOK, ProcOK, Fits, None
<1>4. ClosedIsZeroed
  <2>1. hash.failures = 0 /\ hash.successes = 0
    BY <1>1
  <2>2. hash.failures < FailThreshold
    BY <2>1, Params
  <2> QED BY <2>1, <2>2 DEF ClosedIsZeroed
<1> QED BY <1>2, <1>3, <1>4 DEF IInv

\* A call whose variables a step leaves alone stays as it is.
Same(q) ==
    /\ at'[q] = at[q] /\ request'[q] = request[q] /\ reply'[q] = reply[q]
    /\ counted'[q] = counted[q]
    /\ (q \in inTry') <=> (q \in inTry)
    /\ (q \in failed') <=> (q \in failed)
    /\ (q \in misled') <=> (q \in misled)

LEMMA OthersOK ==
    ASSUME IInv, NEW q \in Procs, Same(q)
    PROVE  ProcOK(q)'
<1>1. ProcOK(q)
  BY DEF IInv, ProcsOK
<1> QED BY <1>1 DEF Same, ProcOK, Budget, Fits, InsideTry

\* A step of the policy: one call, whose request has been answered, goes on.
LEMMA Moves ==
    ASSUME IInv, NEW p \in Procs, request[p] = <<>>,
           UNCHANGED <<hash, lag, probes, torn>>,
           NEW place \in Places, at' = [at EXCEPT ![p] = place],
           NEW r \in Requests, request' = [request EXCEPT ![p] = r],
           reply' = [reply EXCEPT ![p] = None],
           inTry' \in SUBSET Clients, failed' \in SUBSET Clients, misled' \in SUBSET Clients,
           target' \in [Procs -> {"isolated", "closed", None}],
           counted' \in [Procs -> 0..2],
           \A q \in Procs \ {p} :
              /\ counted'[q] = counted[q]
              /\ (q \in inTry') <=> (q \in inTry)
              /\ (q \in failed') <=> (q \in failed)
              /\ (q \in misled') <=> (q \in misled),
           ProcOK(p)'
    PROVE  IInv'
<1>1. TypeOK'
  BY DEF IInv, TypeOK, Replies
<1>2. \A q \in Procs \ {p} : Same(q)
  BY DEF IInv, TypeOK, Same
<1>3. ProcsOK'
  <2>1. \A q \in Procs : ProcOK(q)'
    BY <1>2, OthersOK
  <2> QED BY <2>1 DEF ProcsOK, Procs
<1>4. ClosedIsZeroed'
  <2>1. \A a \in Admins : request[a] # <<>> => request'[a] = request[a]
    BY DEF IInv, TypeOK, Procs
  <2>2. <<"zero failures", "zero successes">> # <<>> /\ <<"zero successes">> # <<>>
    OBVIOUS
  <2>3. \A command : Pending(command) => Pending(command)'
    BY <2>1, <2>2 DEF Pending
  <2> QED BY <2>3 DEF ClosedIsZeroed, IInv
<1> QED BY <1>1, <1>3, <1>4 DEF IInv

\* What the invariant says of a client whose request has been answered.
LEMMA Standing ==
    ASSUME IInv, NEW p \in Procs
    PROVE  /\ at[p] \in Places /\ reply[p] \in Replies /\ counted[p] \in 0..2
           /\ at[p] \in {"idle", "running"} => request[p] = <<>>
           /\ ProcOK(p)
BY DEF IInv, TypeOK, ProcsOK, ProcOK, Fits

LEMMA ReturnStep ==
    ASSUME IInv, NEW p \in Procs, request[p] = <<>>, Return(p)
    PROVE  IInv'
<1>1. /\ UNCHANGED <<hash, lag, probes, torn>>
      /\ at' = [at EXCEPT ![p] = "idle"] /\ "idle" \in Places
      /\ request' = [request EXCEPT ![p] = <<>>] /\ <<>> \in Requests
      /\ reply' = [reply EXCEPT ![p] = None]
  BY DEF Return, Goto, IInv, TypeOK, Places, Requests
<1>2. /\ inTry' = inTry \ {p} /\ failed' = failed \ {p} /\ misled' = misled \ {p}
      /\ inTry' \in SUBSET Clients /\ failed' \in SUBSET Clients /\ misled' \in SUBSET Clients
  BY DEF Return, IInv, TypeOK
<1>3. /\ target' \in [Procs -> {"isolated", "closed", None}]
      /\ counted' = [counted EXCEPT ![p] = 0] /\ counted' \in [Procs -> 0..2]
  BY DEF Return, IInv, TypeOK
<1>4. at'[p] = "idle" /\ request'[p] = <<>> /\ reply'[p] = None /\ counted'[p] = 0
  BY <1>1, <1>3 DEF IInv, TypeOK
<1>5. ProcOK(p)'
  BY <1>2, <1>4 DEF ProcOK, Fits, InsideTry
<1>6. \A q \in Procs \ {p} :
          /\ counted'[q] = counted[q]
          /\ (q \in inTry') <=> (q \in inTry)
          /\ (q \in failed') <=> (q \in failed)
          /\ (q \in misled') <=> (q \in misled)
  BY <1>2, <1>3 DEF IInv, TypeOK
<1> QED BY <1>1, <1>2, <1>3, <1>5, <1>6, Moves

\* A store method is called.
LEMMA SendStep ==
    ASSUME IInv, NEW p \in Procs, request[p] = <<>>,
           NEW r \in Requests, NEW place \in Places, Send(p, r, place),
           inTry' \in SUBSET Clients, failed' \in SUBSET Clients, misled' = misled,
           \A q \in Procs \ {p} :
              (q \in inTry' <=> q \in inTry) /\ (q \in failed' <=> q \in failed),
           target' \in [Procs -> {"isolated", "closed", None}], counted' = counted,
           at'[p] = place /\ request'[p] = r /\ reply'[p] = None /\ counted'[p] = counted[p]
             => ProcOK(p)'
    PROVE  IInv'
<1>1. /\ UNCHANGED <<hash, lag, probes, torn>>
      /\ at' = [at EXCEPT ![p] = place]
      /\ request' = [request EXCEPT ![p] = r]
      /\ reply' = [reply EXCEPT ![p] = None]
  BY DEF Send, Goto
<1>2. at'[p] = place /\ request'[p] = r /\ reply'[p] = None /\ counted'[p] = counted[p]
  BY <1>1 DEF IInv, TypeOK
<1>3. counted' \in [Procs -> 0..2] /\ misled' \in SUBSET Clients
      /\ \A q \in Procs \ {p} : counted'[q] = counted[q]
  BY DEF IInv, TypeOK
<1> QED BY <1>1, <1>2, <1>3, Moves

LEMMA BeginStep == ASSUME IInv, NEW c \in Clients, Begin(c) PROVE IInv'
<1>1. c \in Procs /\ at[c] = "idle" /\ request[c] = <<>> /\ ProcOK(c)
      /\ <<"getState">> \in Requests /\ "checking" \in Places
  BY Standing DEF Begin, Procs, Requests, Places
<1>2. /\ Send(c, <<"getState">>, "checking")
      /\ UNCHANGED <<inTry, target, failed, misled, counted>>
  BY DEF Begin, ofCall
<1>3. /\ inTry' \in SUBSET Clients /\ failed' \in SUBSET Clients
      /\ target' \in [Procs -> {"isolated", "closed", None}]
  BY <1>2 DEF IInv, TypeOK
<1>4. ASSUME at'[c] = "checking", request'[c] = <<"getState">>, reply'[c] = None,
             counted'[c] = counted[c]
      PROVE  ProcOK(c)'
  <2>1. c \notin Admins
    BY RedisAssumption
  <2> QED BY <1>1, <1>2, <1>4, <2>1 DEF ProcOK, Fits, Budget, InsideTry, None
<1> QED BY <1>1, <1>2, <1>3, <1>4, SendStep

LEMMA SucceedStep == ASSUME IInv, NEW c \in Clients, Succeed(c) PROVE IInv'
<1>1. /\ c \in Procs /\ c \notin Admins /\ request[c] = <<>> /\ ProcOK(c)
      /\ <<"recordSuccess">> \in Requests /\ "succeeding" \in Places
  BY Standing, RedisAssumption DEF Succeed, Procs, Requests, Places
<1>2. /\ at[c] = "running" /\ Send(c, <<"recordSuccess">>, "succeeding")
      /\ UNCHANGED <<inTry, target, failed, misled, counted>>
  BY DEF Succeed, ofCall
<1>3. /\ inTry' \in SUBSET Clients /\ failed' \in SUBSET Clients
      /\ target' \in [Procs -> {"isolated", "closed", None}] /\ counted' = counted
      /\ \A q \in Procs \ {c} :
            (q \in inTry' <=> q \in inTry) /\ (q \in failed' <=> q \in failed)
  BY <1>2 DEF IInv, TypeOK
<1>4. ASSUME at'[c] = "succeeding", request'[c] = <<"recordSuccess">>, reply'[c] = None,
             counted'[c] = counted[c]
      PROVE  ProcOK(c)'
  BY <1>1, <1>2, <1>4 DEF ProcOK, Fits, Budget, InsideTry, None
<1> QED BY <1>1, <1>2, <1>3, <1>4, SendStep

LEMMA FailStep == ASSUME IInv, NEW c \in Clients, Fail(c) PROVE IInv'
<1>1. /\ c \in Procs /\ c \notin Admins /\ request[c] = <<>> /\ ProcOK(c)
      /\ <<"getState">> \in Requests /\ "failing" \in Places
  BY Standing, RedisAssumption DEF Fail, Procs, Requests, Places
<1>2. /\ at[c] = "running" /\ Send(c, <<"getState">>, "failing")
      /\ failed' = failed \cup {c} /\ inTry' \in {inTry, inTry \cup {c}}
      /\ UNCHANGED <<target, misled, counted>>
  BY DEF Fail, HandleFailure
<1>3. /\ inTry' \in SUBSET Clients /\ failed' \in SUBSET Clients
      /\ target' \in [Procs -> {"isolated", "closed", None}] /\ counted' = counted
      /\ \A q \in Procs \ {c} :
            (q \in inTry' <=> q \in inTry) /\ (q \in failed' <=> q \in failed)
  BY <1>2 DEF IInv, TypeOK
<1>4. ASSUME at'[c] = "failing", request'[c] = <<"getState">>, reply'[c] = None,
             counted'[c] = counted[c]
      PROVE  ProcOK(c)'
  BY <1>1, <1>2, <1>4 DEF ProcOK, Fits, Budget, InsideTry, None
<1> QED BY <1>1, <1>2, <1>3, <1>4, SendStep

LEMMA RecordStep == ASSUME IInv, NEW c \in Clients, Record(c) PROVE IInv'
<1>1. /\ c \in Procs /\ c \notin Admins /\ request[c] = <<>> /\ ProcOK(c)
      /\ <<"recordFailure">> \in Requests /\ "failed" \in Places
  BY Standing, RedisAssumption DEF Record, Answered, Procs, Requests, Places
<1>2. /\ at[c] = "failing" /\ Send(c, <<"recordFailure">>, "failed")
      /\ UNCHANGED <<inTry, target, failed, misled, counted>>
  BY DEF Record, Answered, ofCall
<1>3. /\ inTry' \in SUBSET Clients /\ failed' \in SUBSET Clients
      /\ target' \in [Procs -> {"isolated", "closed", None}] /\ counted' = counted
      /\ \A q \in Procs \ {c} :
            (q \in inTry' <=> q \in inTry) /\ (q \in failed' <=> q \in failed)
  BY <1>2 DEF IInv, TypeOK
<1>4. ASSUME at'[c] = "failed", request'[c] = <<"recordFailure">>, reply'[c] = None,
             counted'[c] = counted[c]
      PROVE  ProcOK(c)'
  BY <1>1, <1>2, <1>4 DEF ProcOK, Fits, Budget, InsideTry, None
<1> QED BY <1>1, <1>2, <1>3, <1>4, SendStep

LEMMA StartStep == ASSUME IInv, NEW c \in Clients, Start(c) PROVE IInv'
<1>1. /\ c \in Procs /\ c \notin Admins /\ at[c] = "checking" /\ request[c] = <<>>
      /\ ProcOK(c) /\ <<>> \in Requests /\ "running" \in Places
  BY Standing, RedisAssumption DEF Start, Answered, Procs, Requests, Places
<1>2. /\ UNCHANGED <<hash, lag, inTry, target, failed, misled, counted, probes, torn>>
      /\ at' = [at EXCEPT ![c] = "running"] /\ reply' = [reply EXCEPT ![c] = None]
      /\ request' = [request EXCEPT ![c] = <<>>]
  BY <1>1 DEF Start, Goto, ofCall, IInv, TypeOK
<1>3. at'[c] = "running" /\ request'[c] = <<>> /\ reply'[c] = None
  BY <1>1, <1>2 DEF IInv, TypeOK
<1>4. ProcOK(c)'
  BY <1>1, <1>2, <1>3 DEF ProcOK, Fits, Budget, InsideTry, None
<1>5. /\ inTry' \in SUBSET Clients /\ failed' \in SUBSET Clients /\ misled' \in SUBSET Clients
      /\ target' \in [Procs -> {"isolated", "closed", None}] /\ counted' \in [Procs -> 0..2]
      /\ \A q \in Procs \ {c} :
            /\ counted'[q] = counted[q] /\ (q \in misled' <=> q \in misled)
            /\ (q \in inTry' <=> q \in inTry) /\ (q \in failed' <=> q \in failed)
  BY <1>2 DEF IInv, TypeOK
<1> QED BY <1>1, <1>2, <1>4, <1>5, Moves

LEMMA StoreFailedStep == ASSUME IInv, NEW c \in Clients, StoreFailed(c) PROVE IInv'
<1>1. /\ c \in Procs /\ c \notin Admins /\ request[c] = <<>> /\ ProcOK(c)
      /\ at[c] \in {"succeeding", "failing", "failed", "announcing"} /\ reply[c] = "error"
      /\ <<"getState">> \in Requests /\ "failing" \in Places
  BY Standing, RedisAssumption DEF StoreFailed, Answered, Procs, Requests, Places
<1>2. CASE Return(c)
  BY <1>1, <1>2, ReturnStep
<1>3. CASE /\ InsideTry(c)
           /\ HandleFailure(c)
           /\ inTry' = inTry \ {c}
           /\ UNCHANGED <<target, failed, misled, counted>>
  <2>1. /\ inTry' \in SUBSET Clients /\ failed' \in SUBSET Clients
        /\ target' \in [Procs -> {"isolated", "closed", None}] /\ counted' = counted
        /\ \A q \in Procs \ {c} :
              (q \in inTry' <=> q \in inTry) /\ (q \in failed' <=> q \in failed)
    BY <1>3 DEF IInv, TypeOK
  <2>2. ASSUME at'[c] = "failing", request'[c] = <<"getState">>, reply'[c] = None,
               counted'[c] = counted[c]
        PROVE  ProcOK(c)'
    <3>1. c \notin inTry' /\ c \in misled' /\ (c \in failed' <=> c \in failed)
      BY <1>1, <1>3 DEF ProcOK
    <3>2. CASE at[c] = "succeeding"
      BY <1>1, <2>2, <3>1, <3>2 DEF ProcOK, Fits, Budget, InsideTry, None
    <3>3. CASE at[c] # "succeeding"
      <4>1. c \in failed /\ counted[c] \in {0, 1}
        BY <1>1, <1>3, <3>3, Standing DEF ProcOK, Budget, InsideTry
      <4> QED BY <1>1, <2>2, <3>1, <4>1 DEF ProcOK, Fits, Budget, InsideTry, None
    <3> QED BY <3>2, <3>3
  <2>3. Send(c, <<"getState">>, "failing")
    BY <1>3 DEF HandleFailure
  <2> QED BY <1>1, <1>3, <2>1, <2>2, <2>3, SendStep
<1> QED BY <1>2, <1>3 DEF StoreFailed

LEMMA RecordedStep == ASSUME IInv, NEW c \in Clients, Recorded(c) PROVE IInv'
<1>1. /\ c \in Procs /\ c \notin Admins /\ request[c] = <<>> /\ ProcOK(c)
      /\ at[c] = "failed"
      /\ <<"getState">> \in Requests /\ "announcing" \in Places
  BY Standing, RedisAssumption DEF Recorded, Answered, Procs, Requests, Places
<1>2. CASE Return(c)
  BY <1>1, <1>2, ReturnStep
<1>3. CASE /\ Send(c, <<"getState">>, "announcing")
           /\ UNCHANGED <<inTry, target, failed, misled, counted>>
  <2>1. /\ inTry' \in SUBSET Clients /\ failed' \in SUBSET Clients
        /\ target' \in [Procs -> {"isolated", "closed", None}] /\ counted' = counted
        /\ \A q \in Procs \ {c} :
              (q \in inTry' <=> q \in inTry) /\ (q \in failed' <=> q \in failed)
    BY <1>3 DEF IInv, TypeOK
  <2>2. ASSUME at'[c] = "announcing", request'[c] = <<"getState">>, reply'[c] = None,
               counted'[c] = counted[c]
        PROVE  ProcOK(c)'
    <3>1. counted[c] <= Budget(c)
      BY <1>1, Standing DEF ProcOK, Budget
    <3> QED BY <1>1, <1>3, <2>2, <3>1 DEF ProcOK, Fits, Budget, InsideTry, None
  <2> QED BY <1>1, <1>3, <2>1, <2>2, SendStep
<1> QED BY <1>2, <1>3 DEF Recorded, ofCall

\* Segments that end a call.
LEMMA EndStep ==
    ASSUME IInv, NEW c \in Clients,
           Refuse(c) \/ Succeeded(c) \/ Announced(c) \/ FinishUncounted(c)
    PROVE  IInv'
<1>1. c \in Procs /\ Return(c)
  BY DEF Refuse, Succeeded, Announced, FinishUncounted, Procs
<1>2. request[c] = <<>>
  BY <1>1, Standing DEF Refuse, Succeeded, Announced, FinishUncounted, Answered
<1> QED BY <1>1, <1>2, ReturnStep

LEMMA CommandStep ==
    ASSUME IInv, NEW a \in Admins, NEW new \in {"isolated", "closed"}, Command(a, new)
    PROVE  IInv'
<1>1. /\ a \in Procs /\ at[a] = "idle" /\ request[a] = <<>> /\ ProcOK(a)
      /\ <<"getState">> \in Requests /\ "deciding" \in Places
  BY Standing DEF Command, Procs, Requests, Places
<1>2. /\ Send(a, <<"getState">>, "deciding") /\ target' = [target EXCEPT ![a] = new]
      /\ UNCHANGED <<inTry, failed, misled, counted>>
  BY DEF Command
<1>3. /\ inTry' \in SUBSET Clients /\ failed' \in SUBSET Clients
      /\ target' \in [Procs -> {"isolated", "closed", None}]
  BY <1>1, <1>2 DEF IInv, TypeOK
<1>4. ASSUME at'[a] = "deciding", request'[a] = <<"getState">>, reply'[a] = None,
             counted'[a] = counted[a]
      PROVE  ProcOK(a)'
  BY <1>1, <1>2, <1>4 DEF ProcOK, Fits, Budget, InsideTry, None
<1> QED BY <1>1, <1>2, <1>3, <1>4, SendStep

LEMMA ApplyStep == ASSUME IInv, NEW a \in Admins, Apply(a) PROVE IInv'
<1>1. /\ a \in Procs /\ at[a] = "deciding" /\ request[a] = <<>> /\ ProcOK(a)
      /\ Pipeline(target[a]) \in Requests /\ "setting" \in Places
  BY Standing DEF Apply, Answered, Procs, Requests, Places, Pipeline
<1>2. /\ Send(a, Pipeline(target[a]), "setting")
      /\ UNCHANGED <<inTry, target, failed, misled, counted>>
  BY DEF Apply, ofCall
<1>3. /\ inTry' \in SUBSET Clients /\ failed' \in SUBSET Clients
      /\ target' \in [Procs -> {"isolated", "closed", None}]
  BY <1>2 DEF IInv, TypeOK
<1>4. Pipeline(target[a]) \notin {<<"getState">>, <<"recordSuccess">>, <<"recordFailure">>}
  BY DEF Pipeline
<1>5. ASSUME at'[a] = "setting", request'[a] = Pipeline(target[a]), reply'[a] = None,
             counted'[a] = counted[a]
      PROVE  ProcOK(a)'
  BY <1>1, <1>2, <1>4, <1>5 DEF ProcOK, Fits, Budget, InsideTry, None
<1> QED BY <1>1, <1>2, <1>3, <1>5, SendStep

LEMMA CommandedStep == ASSUME IInv, NEW a \in Admins, Commanded(a) PROVE IInv'
BY ReturnStep DEF Commanded, Answered, Procs

\* A fault that cuts off a reset leaves its counters torn.
LEMMA TearCovers ==
    ASSUME IInv, NEW p \in Procs, Tear(p), hash' = hash,
           request' = [request EXCEPT ![p] = <<>>]
    PROVE  torn' \subseteq {"failures", "successes"} /\ ClosedIsZeroed'
<1>1. torn' = torn \cup {n \in Unzeroed(p) : hash[n] # 0} /\ torn \subseteq {"failures", "successes"}
  BY DEF Tear, IInv, TypeOK
<1>2. Unzeroed(p) \subseteq {"failures", "successes"}
  BY DEF Unzeroed
<1>3. ASSUME request[p] = <<"zero failures", "zero successes">>
      PROVE  Unzeroed(p) = {"failures", "successes"}
  <2>1. Head(request[p]) = "zero failures" /\ request[p] # <<>> /\ Len(request[p]) = 2
    BY <1>3, TwoCommands, TwoApart
  <2> QED BY <2>1 DEF Unzeroed
<1>4. ASSUME request[p] = <<"zero successes">>
      PROVE  "successes" \in Unzeroed(p)
  <2>1. Head(<<"zero successes">>) = "zero successes" /\ <<"zero successes">> # <<>>
    BY OneCommand
  <2>2. Head(request[p]) = "zero successes" /\ request[p] # <<>>
    BY <1>4, <2>1
  <2> QED BY <2>2 DEF Unzeroed
<1>5. \A a \in Admins \ {p} : request'[a] = request[a]
  BY DEF IInv, TypeOK, Procs
<1>6. ASSUME Pending("zero failures")
      PROVE  Pending("zero failures")' \/ hash.failures = 0 \/ "failures" \in torn'
  <2>1. PICK a \in Admins : request[a] = <<"zero failures", "zero successes">>
    BY <1>6 DEF Pending
  <2>2. CASE a # p
    <3>1. request'[a] = <<"zero failures", "zero successes">>
      BY <1>5, <2>1, <2>2
    <3> QED BY <3>1 DEF Pending
  <2>3. CASE a = p
    <3>1. Unzeroed(p) = {"failures", "successes"}
      BY <1>3, <2>1, <2>3
    <3> QED BY <1>1, <3>1
  <2> QED BY <2>2, <2>3
<1>7. ASSUME Pending("zero successes")
      PROVE  Pending("zero successes")' \/ hash.successes = 0 \/ "successes" \in torn'
  <2>1. PICK a \in Admins : \/ request[a] = <<"zero failures", "zero successes">>
                            \/ request[a] = <<"zero successes">>
    BY <1>7 DEF Pending
  <2>2. CASE a # p
    <3>1. request'[a] = request[a]
      BY <1>5, <2>2
    <3> QED BY <2>1, <3>1 DEF Pending
  <2>3. CASE a = p
    <3>1. "successes" \in Unzeroed(p)
      BY <1>3, <1>4, <2>1, <2>3
    <3> QED BY <1>1, <3>1
  <2> QED BY <2>2, <2>3
<1>8. ClosedIsZeroed'
  <2> SUFFICES ASSUME hash'.state = "closed"
               PROVE  /\ hash'.failures < FailThreshold \/ Pending("zero failures")' \/ "failures" \in torn'
                      /\ hash'.successes = 0 \/ Pending("zero successes")' \/ "successes" \in torn'
    BY DEF ClosedIsZeroed
  <2>1. /\ hash.failures < FailThreshold \/ Pending("zero failures") \/ "failures" \in torn
        /\ hash.successes = 0 \/ Pending("zero successes") \/ "successes" \in torn
    BY DEF IInv, ClosedIsZeroed
  <2>2. torn \subseteq torn'
    BY <1>1
  <2>3. hash.failures = 0 => hash.failures < FailThreshold
    BY Params
  <2> QED BY <1>6, <1>7, <2>1, <2>2, <2>3
<1> QED BY <1>1, <1>2, <1>8

\* A request or its reply is lost, or a process crashes.
LEMMA FaultStep == ASSUME IInv, NEW p \in Procs, Lose(p) \/ Crash(p) PROVE IInv'
<1>1. torn' \subseteq {"failures", "successes"} /\ ClosedIsZeroed'
  BY TearCovers DEF Lose, Crash
<1>2. /\ hash' = hash /\ probes' = probes
      /\ at' \in [Procs -> Places] /\ at'[p] \in {at[p], "idle"}
      /\ request' = [request EXCEPT ![p] = <<>>] /\ <<>> \in Requests
      /\ lag' = [lag EXCEPT ![p] = 0] /\ 0 \in 0..MaxDelay
      /\ reply' \in [Procs -> Replies]
      /\ target' \in [Procs -> {"isolated", "closed", None}]
      /\ counted' \in [Procs -> 0..2]
      /\ inTry' \in SUBSET Clients /\ failed' \in SUBSET Clients
  <2>1. <<>> \in Requests /\ "error" \in Replies /\ None \in Replies /\ "idle" \in Places
    BY DEF Requests, Replies, Places
  <2>2. 0 \in 0..MaxDelay
    BY Params
  <2>3. 0 \in 0..2
    OBVIOUS
  <2>4. CASE Lose(p)
    BY <2>1, <2>2, <2>4 DEF Lose, IInv, TypeOK
  <2>5. CASE Crash(p)
    BY <2>1, <2>2, <2>3, <2>5 DEF Crash, Goto, IInv, TypeOK
  <2> QED BY <2>4, <2>5
<1>3. misled' \subseteq Clients
  <2>1. CASE Lose(p)
    <3>1. InsideTry(p) => p \in Clients
      BY Standing DEF InsideTry, ProcOK, Procs, IInv, TypeOK
    <3> QED BY <2>1, <3>1 DEF Lose, IInv, TypeOK
  <2>2. CASE Crash(p)
    BY <2>2 DEF Crash, IInv, TypeOK
  <2> QED BY <2>1, <2>2
<1>4. TypeOK'
  BY <1>1, <1>2, <1>3 DEF IInv, TypeOK
<1>5. \A q \in Procs \ {p} : Same(q)
  <2>1. CASE Lose(p)
    BY <2>1 DEF Lose, IInv, TypeOK, Same
  <2>2. CASE Crash(p)
    BY <2>2 DEF Crash, Goto, IInv, TypeOK, Same
  <2> QED BY <2>1, <2>2
<1>6. ProcOK(p)'
  <2>1. CASE Lose(p)
    <3>1. at'[p] = at[p] /\ request'[p] = <<>> /\ UNCHANGED <<inTry, failed, counted>>
      BY <1>2, <2>1 DEF Lose, IInv, TypeOK
    <3>2. /\ InsideTry(p) => p \in misled'
          /\ ~InsideTry(p) => misled' = misled
          /\ p \in misled => p \in misled'
      BY <2>1 DEF Lose
    <3>3. ProcOK(p) /\ counted[p] \in 0..2
      BY Standing
    <3> QED BY <3>1, <3>2, <3>3 DEF ProcOK, Fits, Budget, InsideTry
  <2>2. CASE Crash(p)
    <3>1. at'[p] = "idle" /\ request'[p] = <<>> /\ p \notin inTry' /\ p \notin failed'
          /\ p \notin misled' /\ counted'[p] = 0
      BY <1>2, <2>2 DEF Crash, Goto, IInv, TypeOK
    <3> QED BY <3>1 DEF ProcOK, Fits, InsideTry
  <2> QED BY <2>1, <2>2
<1>7. \A q \in Procs : ProcOK(q)'
  BY <1>5, <1>6, OthersOK
<1>8. ProcsOK'
  BY <1>7 DEF ProcsOK, Procs
<1> QED BY <1>1, <1>4, <1>8 DEF IInv

\* Nothing of a call changes, and a closed circuit keeps its counters.
LEMMA QuietStep ==
    ASSUME IInv, TypeOK', UNCHANGED <<at, request, reply, inTry, failed, misled, counted, torn>>,
           hash'.state = hash.state, hash'.failures = hash.failures,
           hash'.successes = hash.successes
    PROVE  IInv'
<1>1. \A q \in Procs : Same(q)
  BY DEF Same
<1>2. ProcsOK'
  <2>1. \A q \in Procs : ProcOK(q)'
    BY <1>1, OthersOK
  <2> QED BY <2>1 DEF ProcsOK, Procs
<1>3. ClosedIsZeroed'
  BY DEF IInv, ClosedIsZeroed, Pending
<1> QED BY <1>2, <1>3 DEF IInv

LEMMA TimeStep == ASSUME IInv, TimePasses PROVE IInv'
<1>1. /\ hash.age \in 0..(BreakDuration + MaxDelay)
      /\ hash \in [state : States, failures : 0..FailThreshold,
                   successes : 0..(SuccessThreshold - 1), age : 0..(BreakDuration + MaxDelay)]
  BY DEF IInv, TypeOK
<1> DEFINE new == IF hash.state = "open" THEN Lesser(hash.age + 1, BreakDuration + MaxDelay) ELSE 0
<1>2. new \in 0..(BreakDuration + MaxDelay)
  BY <1>1, Params DEF Lesser
<1>3. hash' = [hash EXCEPT !.age = new]
  BY DEF TimePasses
<1> HIDE DEF new
<1>4. /\ hash' \in [state : States, failures : 0..FailThreshold,
                    successes : 0..(SuccessThreshold - 1), age : 0..(BreakDuration + MaxDelay)]
      /\ hash'.state = hash.state /\ hash'.failures = hash.failures
      /\ hash'.successes = hash.successes
  BY <1>1, <1>2, <1>3
<1>5. lag' \in [Procs -> 0..MaxDelay]
  <2>1. lag' = [p \in Procs |-> IF request[p] = <<>> THEN 0 ELSE lag[p] + 1]
    BY DEF TimePasses
  <2>2. ASSUME NEW p \in Procs PROVE (IF request[p] = <<>> THEN 0 ELSE lag[p] + 1) \in 0..MaxDelay
    <3>1. lag[p] \in 0..MaxDelay /\ (request[p] # <<>> => lag[p] < MaxDelay)
      BY DEF TimePasses, IInv, TypeOK
    <3> QED BY <3>1, Params
  <2> QED BY <2>1, <2>2
<1>6. TypeOK'
  BY <1>4, <1>5 DEF TimePasses, ofCall, IInv, TypeOK
<1> QED BY <1>4, <1>6, QuietStep DEF TimePasses, ofCall
-----------------------------------------------------------------------------
(* The server. *)

Hashes == [state : States, failures : 0..FailThreshold,
           successes : 0..(SuccessThreshold - 1), age : 0..(BreakDuration + MaxDelay)]

\* What one command may do to the hash: only "set closed" ends an isolation, and
\* a closed circuit gets no new failures beyond its room and no new successes.
Effect(command) ==
    /\ hash' \in Hashes
    /\ hash.state = "isolated" /\ hash'.state # "isolated" => command = "set closed"
    /\ hash'.state = "closed" /\ command # "set closed" =>
          /\ \/ hash'.failures < FailThreshold
             \/ hash.state = "closed" /\ hash'.failures = hash.failures /\ command # "zero failures"
          /\ \/ hash'.successes = 0
             \/ hash.state = "closed" /\ hash'.successes = hash.successes /\ command # "zero successes"

LEMMA HashFields ==
    ASSUME TypeOK
    PROVE  /\ hash \in Hashes /\ hash.state \in States
           /\ hash.failures \in 0..FailThreshold
           /\ hash.successes \in 0..(SuccessThreshold - 1)
           /\ hash.age \in 0..(BreakDuration + MaxDelay)
BY DEF TypeOK, Hashes

LEMMA EnterFields ==
    ASSUME TypeOK, NEW new, new \in States, NEW sent, sent \in 0..MaxDelay, Enter(new, sent)
    PROVE  /\ hash' \in Hashes /\ hash'.state = new
           /\ hash'.failures = hash.failures /\ hash'.successes = hash.successes
<1>1. (IF new = "open" THEN sent ELSE 0) \in 0..(BreakDuration + MaxDelay)
  BY Params
<1>2. PICK a \in 0..(BreakDuration + MaxDelay) : hash' = [hash EXCEPT !.state = new, !.age = a]
  BY <1>1 DEF Enter
<1> QED BY <1>2, HashFields DEF Hashes

LEMMA GetStateEffect ==
    ASSUME TypeOK, NEW sent, sent \in 0..MaxDelay, GetStateScript(sent)
    PROVE  Effect("getState")
<1>1. CASE hash' = hash
  BY <1>1, HashFields DEF Effect
<1>2. CASE hash.state = "open" /\ Enter("halfOpen", sent)
  <2>1. "halfOpen" \in States
    BY DEF States
  <2> QED BY <1>2, <2>1, EnterFields DEF Effect
<1> QED BY <1>1, <1>2 DEF GetStateScript, Elapsed

LEMMA SuccessEffect ==
    ASSUME TypeOK, RecordSuccessScript
    PROVE  Effect("recordSuccess")
<1>1. CASE hash' = hash
  BY <1>1, HashFields DEF Effect
<1>2. CASE hash' = [state |-> "closed", failures |-> 0, successes |-> 0, age |-> 0]
           /\ hash.state = "halfOpen"
  <2>1. hash' \in Hashes
    BY <1>2, Params DEF Hashes, States
  <2>2. hash'.state = "closed" /\ hash'.failures = 0 /\ hash'.successes = 0
    BY <1>2
  <2>3. hash'.failures < FailThreshold
    BY <2>2, Params
  <2> QED BY <1>2, <2>1, <2>2, <2>3 DEF Effect
<1>3. CASE /\ hash.state = "halfOpen" /\ hash.successes + 1 < SuccessThreshold
           /\ hash' = [hash EXCEPT !.successes = hash.successes + 1]
  <2>1. hash.successes + 1 \in 0..(SuccessThreshold - 1)
    BY <1>3, HashFields, Params
  <2>2. hash' \in Hashes /\ hash'.state = "halfOpen"
    BY <1>3, <2>1, HashFields DEF Hashes
  <2> QED BY <1>3, <2>2 DEF Effect
<1>4. CASE hash.state = "closed" /\ hash' = [hash EXCEPT !.failures = 0]
  <2>1. 0 \in 0..FailThreshold /\ 0 < FailThreshold
    BY Params
  <2>2. /\ hash' \in Hashes /\ hash'.failures = 0 /\ hash'.state = hash.state
        /\ hash'.successes = hash.successes
    BY <1>4, <2>1, HashFields DEF Hashes
  <2> QED BY <1>4, <2>1, <2>2 DEF Effect
<1>5. \/ hash' = hash
      \/ hash' = [state |-> "closed", failures |-> 0, successes |-> 0, age |-> 0]
         /\ hash.state = "halfOpen"
      \/ /\ hash.state = "halfOpen" /\ hash.successes + 1 < SuccessThreshold
         /\ hash' = [hash EXCEPT !.successes = hash.successes + 1]
      \/ hash.state = "closed" /\ hash' = [hash EXCEPT !.failures = 0]
  BY HashFields, Params DEF RecordSuccessScript
<1> QED BY <1>1, <1>2, <1>3, <1>4, <1>5

LEMMA FailureEffect ==
    ASSUME TypeOK, NEW sent, sent \in 0..MaxDelay, RecordFailureScript(sent)
    PROVE  Effect("recordFailure")
<1>1. CASE hash' = hash
  BY <1>1, HashFields DEF Effect
<1>2. CASE /\ hash.state = "closed"
           /\ hash' = [hash EXCEPT !.state = "open", !.failures = FailThreshold, !.age = sent]
  <2>1. FailThreshold \in 0..FailThreshold /\ sent \in 0..(BreakDuration + MaxDelay)
    BY Params
  <2>2. hash' \in Hashes /\ hash'.state = "open"
    BY <1>2, <2>1, HashFields DEF Hashes, States
  <2> QED BY <1>2, <2>2 DEF Effect
<1>3. CASE /\ hash.state = "closed" /\ hash.failures + 1 < FailThreshold
           /\ hash' = [hash EXCEPT !.failures = hash.failures + 1]
  <2>1. hash.failures + 1 \in 0..FailThreshold
    BY <1>3, HashFields, Params
  <2>2. /\ hash' \in Hashes /\ hash'.failures = hash.failures + 1
        /\ hash'.state = hash.state /\ hash'.successes = hash.successes
    BY <1>3, <2>1, HashFields DEF Hashes
  <2> QED BY <1>3, <2>2 DEF Effect
<1>4. CASE hash.state = "halfOpen" /\ Enter("open", sent)
  <2>1. "open" \in States
    BY DEF States
  <2> QED BY <1>4, <2>1, EnterFields DEF Effect
<1>5. \/ hash' = hash
      \/ /\ hash.state = "closed"
         /\ hash' = [hash EXCEPT !.state = "open", !.failures = FailThreshold, !.age = sent]
      \/ /\ hash.state = "closed" /\ hash.failures + 1 < FailThreshold
         /\ hash' = [hash EXCEPT !.failures = hash.failures + 1]
      \/ hash.state = "halfOpen" /\ Enter("open", sent)
  BY HashFields, Params DEF RecordFailureScript
<1> QED BY <1>1, <1>2, <1>3, <1>4, <1>5

LEMMA SetEffect ==
    ASSUME TypeOK, NEW sent, sent \in 0..MaxDelay
    PROVE  /\ Enter("closed", sent) => Effect("set closed")
           /\ Enter("isolated", sent) => Effect("set isolated")
<1>1. "closed" \in States /\ "isolated" \in States
  BY DEF States
<1>2. ASSUME Enter("closed", sent) PROVE Effect("set closed")
  BY <1>1, <1>2, EnterFields DEF Effect
<1>3. ASSUME Enter("isolated", sent) PROVE Effect("set isolated")
  <2>1. hash' \in Hashes /\ hash'.state = "isolated"
    BY <1>1, <1>3, EnterFields
  <2> QED BY <2>1 DEF Effect
<1> QED BY <1>2, <1>3

LEMMA ZeroEffect ==
    ASSUME TypeOK
    PROVE  /\ hash' = [hash EXCEPT !.failures = 0] => Effect("zero failures")
           /\ hash' = [hash EXCEPT !.successes = 0] => Effect("zero successes")
<1>1. 0 \in 0..FailThreshold /\ 0 < FailThreshold /\ 0 \in 0..(SuccessThreshold - 1)
  BY Params
<1>2. ASSUME hash' = [hash EXCEPT !.failures = 0] PROVE Effect("zero failures")
  <2>1. /\ hash' \in Hashes /\ hash'.failures = 0 /\ hash'.state = hash.state
        /\ hash'.successes = hash.successes
    BY <1>1, <1>2, HashFields DEF Hashes
  <2> QED BY <1>1, <2>1 DEF Effect
<1>3. ASSUME hash' = [hash EXCEPT !.successes = 0] PROVE Effect("zero successes")
  <2>1. /\ hash' \in Hashes /\ hash'.failures = hash.failures /\ hash'.state = hash.state
        /\ hash'.successes = 0
    BY <1>1, <1>3, HashFields DEF Hashes
  <2> QED BY <2>1 DEF Effect
<1> QED BY <1>2, <1>3

LEMMA RunEffect ==
    ASSUME TypeOK, NEW sent, sent \in 0..MaxDelay, NEW command, Run(command, sent),
           command \in {"getState", "recordSuccess", "recordFailure", "set isolated",
                        "set closed", "zero failures", "zero successes"}
    PROVE  Effect(command)
<1>1. CASE command = "getState"
  BY <1>1, GetStateEffect DEF Run
<1>2. CASE command = "recordSuccess"
  BY <1>2, SuccessEffect DEF Run
<1>3. CASE command = "recordFailure"
  BY <1>3, FailureEffect DEF Run
<1>4. CASE command = "set isolated"
  BY <1>4, SetEffect DEF Run
<1>5. CASE command = "set closed"
  BY <1>5, SetEffect DEF Run
<1>6. CASE command = "zero failures"
  BY <1>6, ZeroEffect DEF Run
<1>7. CASE command = "zero successes"
  BY <1>7, ZeroEffect DEF Run
<1> QED BY <1>1, <1>2, <1>3, <1>4, <1>5, <1>6, <1>7

\* The first command of a request and what it does.
LEMMA ServeFacts ==
    ASSUME IInv, NEW p \in Procs, Serve(p)
    PROVE  LET r == request[p] IN
           /\ r \in Requests /\ r # <<>>
           /\ Effect(Head(r))
           /\ request' = [request EXCEPT ![p] = Tail(r)]
           /\ at[p] = "setting" \/ Head(r) \in {"getState", "recordSuccess", "recordFailure"}
           /\ Head(r) = "recordFailure" => at[p] = "failed"
<1>1. request[p] \in Requests /\ request[p] # <<>> /\ lag[p] \in 0..MaxDelay
  BY DEF Serve, IInv, TypeOK
<1>2. Run(Head(request[p]), lag[p]) /\ request' = [request EXCEPT ![p] = Tail(request[p])]
  BY DEF Serve
<1>3. Effect(Head(request[p]))
  <2>1. Head(request[p]) \in {"getState", "recordSuccess", "recordFailure", "set isolated",
                               "set closed", "zero failures", "zero successes"}
    BY <1>1, RequestSplit
  <2> QED BY <1>1, <1>2, <2>1, RunEffect DEF IInv
<1>4. /\ at[p] \in Places /\ Fits(at[p], request[p])
  BY Standing DEF ProcOK
<1>5. /\ at[p] = "setting" \/ Head(request[p]) \in {"getState", "recordSuccess", "recordFailure"}
      /\ Head(request[p]) = "recordFailure" => at[p] = "failed"
  <2>1. \/ request[p] = <<"getState">> /\ at[p] \in {"checking", "failing", "announcing", "deciding"}
        \/ request[p] = <<"recordSuccess">> /\ at[p] = "succeeding"
        \/ request[p] = <<"recordFailure">> /\ at[p] = "failed"
        \/ /\ at[p] = "setting"
           /\ request[p] \notin {<<"getState">>, <<"recordSuccess">>, <<"recordFailure">>}
    BY <1>1, <1>4 DEF Fits, Places
  <2>2. CASE request[p] \in {<<"getState">>, <<"recordSuccess">>, <<"recordFailure">>}
    <3>1. PICK c \in {"getState", "recordSuccess", "recordFailure"} : request[p] = <<c>>
      BY <2>2
    <3>2. Head(request[p]) = c
      BY <3>1, OneCommand
    <3> QED BY <2>1, <3>1, <3>2
  <2>3. CASE request[p] \notin {<<"getState">>, <<"recordSuccess">>, <<"recordFailure">>}
    <3>1. at[p] = "setting"
      BY <2>1, <2>3
    <3>2. Head(request[p]) # "recordFailure"
      BY <1>1, <2>3, RequestSplit
    <3> QED BY <3>1, <3>2
  <2> QED BY <2>2, <2>3
<1> QED BY <1>1, <1>2, <1>3, <1>5

LEMMA ServeTypes == ASSUME IInv, NEW p \in Procs, Serve(p) PROVE TypeOK'
<1>1. request[p] \in Requests /\ request[p] # <<>> /\ Effect(Head(request[p]))
  BY ServeFacts
<1>2. hash' \in Hashes
  BY <1>1 DEF Effect
<1>3. request' \in [Procs -> Requests]
  <2>1. Tail(request[p]) \in Requests
    BY <1>1, RequestSplit
  <2>2. request' = [request EXCEPT ![p] = Tail(request[p])]
    BY ServeFacts
  <2>3. request \in [Procs -> Requests]
    BY DEF IInv, TypeOK
  <2> QED BY <2>1, <2>2, <2>3
<1>4. reply' \in [Procs -> Replies]
  <2>1. hash'.state \in States
    BY <1>2 DEF Hashes
  <2>2. Answer(Head(request[p])) \in Replies
    <3>1. Head(request[p]) \in {"getState", "recordSuccess", "recordFailure", "set isolated",
                                 "set closed", "zero failures", "zero successes"}
      BY <1>1, RequestSplit
    <3> QED BY <2>1, <3>1 DEF Answer, Replies
  <2>3. reply' = [reply EXCEPT ![p] = Answer(Head(request[p]))]
    BY DEF Serve
  <2> QED BY <2>2, <2>3 DEF IInv, TypeOK
<1>5. lag' \in [Procs -> 0..MaxDelay]
  <2>1. 0 \in 0..MaxDelay
    BY Params
  <2> QED BY <2>1 DEF Serve, IInv, TypeOK
<1>6. counted' \in [Procs -> 0..2]
  <2>1. counted' = [counted EXCEPT ![p] =
            IF Head(request[p]) = "recordFailure" THEN counted[p] + 1 ELSE counted[p]]
    BY DEF Serve
  <2>2. Head(request[p]) = "recordFailure" => counted[p] + 1 \in 0..2
    <3> SUFFICES ASSUME Head(request[p]) = "recordFailure" PROVE counted[p] + 1 \in 0..2
      OBVIOUS
    <3>1. at[p] = "failed"
      BY ServeFacts
    <3>2. counted[p] < Budget(p) /\ counted[p] \in 0..2
      BY <1>1, <3>1, Standing DEF ProcOK
    <3> QED BY <3>2 DEF Budget
  <2> QED BY <2>1, <2>2 DEF IInv, TypeOK
<1>7. probes' \in 0..SuccessThreshold
  <2>1. probes \in 0..SuccessThreshold
    BY DEF IInv, TypeOK
  <2>2. Lesser(probes + 1, SuccessThreshold) \in 0..SuccessThreshold /\ 0 \in 0..SuccessThreshold
    BY <2>1, Params DEF Lesser
  <2> QED BY <2>1, <2>2 DEF Serve
<1>8. UNCHANGED <<at, inTry, target, failed, misled>> /\ torn' \subseteq torn
  BY DEF Serve
<1> QED BY <1>2, <1>3, <1>4, <1>5, <1>6, <1>7, <1>8 DEF IInv, TypeOK, Hashes

LEMMA ServeProcs == ASSUME IInv, NEW p \in Procs, Serve(p) PROVE ProcsOK'
<1>1. /\ request[p] \in Requests /\ request[p] # <<>>
      /\ Tail(request[p]) \in Requests
  BY ServeFacts, RequestSplit
<1>2. UNCHANGED <<at, inTry, failed, misled>> /\ request'[p] = Tail(request[p])
  BY ServeFacts DEF Serve, IInv, TypeOK
<1>3. \A q \in Procs \ {p} : Same(q)
  BY <1>2 DEF Serve, IInv, TypeOK, Same
<1>4. counted'[p] = IF Head(request[p]) = "recordFailure" THEN counted[p] + 1 ELSE counted[p]
  BY DEF Serve, IInv, TypeOK
<1>5. ProcOK(p) /\ at[p] \in Places /\ counted[p] \in 0..2
  BY Standing
<1>6. reply'[p] # "error"
  <2>1. hash'.state # "error"
    BY ServeFacts DEF Effect, Hashes, States
  <2>2. reply'[p] = Answer(Head(request[p]))
    BY DEF Serve, IInv, TypeOK
  <2>3. Head(request[p]) \in {"getState", "recordSuccess", "recordFailure", "set isolated",
                               "set closed", "zero failures", "zero successes"}
    BY <1>1, RequestSplit
  <2> QED BY <2>1, <2>2, <2>3 DEF Answer
<1>7. ProcOK(p)'
  <2>1. CASE at[p] = "setting"
    <3>1. Head(request[p]) # "recordFailure"
      BY <2>1, ServeFacts
    <3>2. Tail(request[p]) \in {<<>>, <<"zero failures", "zero successes">>,
                                <<"zero successes">>}
      BY <1>1, RequestSplit
    <3>3. Tail(request[p]) \notin {<<"getState">>, <<"recordSuccess">>, <<"recordFailure">>}
      <4>1. <<"zero successes">> \notin {<<"getState">>, <<"recordSuccess">>, <<"recordFailure">>}
        BY OneApart
      <4>2. <<"zero failures", "zero successes">>
              \notin {<<"getState">>, <<"recordSuccess">>, <<"recordFailure">>}
        BY TwoApart
      <4>3. <<>> \notin {<<"getState">>, <<"recordSuccess">>, <<"recordFailure">>}
        BY OneApart
      <4> QED BY <3>2, <4>1, <4>2, <4>3
    <3> QED BY <1>2, <1>4, <1>5, <2>1, <3>1, <3>3, <1>6 DEF ProcOK, Fits, Budget
  <2>2. CASE at[p] # "setting" /\ Head(request[p]) # "recordFailure"
    <3>1. Tail(request[p]) = <<>>
      BY <1>1, <2>2, ServeFacts, RequestSplit
    <3>2. at[p] # "failed"
      <4>1. at[p] = "failed" => request[p] = <<"recordFailure">>
        BY <1>1, <1>5 DEF ProcOK, Fits
      <4> QED BY <2>2, <4>1, OneCommand
    <3> QED BY <1>2, <1>4, <1>5, <2>2, <3>1, <3>2, <1>6 DEF ProcOK, Fits, Budget
  <2>3. CASE Head(request[p]) = "recordFailure"
    <3>1. at[p] = "failed" /\ Tail(request[p]) = <<>>
      BY <1>1, <2>3, ServeFacts, RequestSplit
    <3>2. counted[p] < Budget(p) /\ Budget(p) \in {0, 1, 2} /\ Budget(p)' = Budget(p)
      BY <1>1, <1>2, <1>5, <3>1 DEF ProcOK, Budget
    <3>3. counted'[p] < Budget(p)' \/ counted'[p] = Budget(p)'
      BY <1>4, <1>5, <2>3, <3>2
    <3> QED BY <1>2, <1>5, <3>1, <3>3, <1>6 DEF ProcOK, Fits
  <2> QED BY <2>1, <2>2, <2>3
<1>8. \A q \in Procs : ProcOK(q)'
  BY <1>3, <1>7, OthersOK
<1> QED BY <1>8 DEF ProcsOK, Procs

LEMMA ServeZeroed == ASSUME IInv, NEW p \in Procs, Serve(p) PROVE ClosedIsZeroed'
<1>1. request[p] \in Requests /\ request[p] # <<>> /\ Effect(Head(request[p]))
  BY ServeFacts
<1>2. ASSUME NEW n \in {"failures", "successes"}, n \in torn, hash'[n] # 0
      PROVE  n \in torn'
  <2>1. torn' = {m \in torn : hash'[m] # 0}
    BY DEF Serve
  <2> QED BY <1>2, <2>1
<1>3. ClosedIsZeroed'
  <2> SUFFICES ASSUME hash'.state = "closed"
               PROVE  /\ hash'.failures < FailThreshold \/ Pending("zero failures")' \/ "failures" \in torn'
                      /\ hash'.successes = 0 \/ Pending("zero successes")' \/ "successes" \in torn'
    BY DEF ClosedIsZeroed
  <2>1. request' = [request EXCEPT ![p] = Tail(request[p])] /\ request \in [Procs -> Requests]
    BY ServeFacts DEF IInv, TypeOK
  <2>2. p \in Admins \/ Head(request[p]) \in {"getState", "recordSuccess", "recordFailure"}
    BY ServeFacts, Standing DEF ProcOK
  <2>3. CASE Head(request[p]) = "set closed"
    <3>1. Tail(request[p]) = <<"zero failures", "zero successes">> /\ p \in Admins
      BY <1>1, <2>2, <2>3, RequestSplit
    <3>2. request'[p] = <<"zero failures", "zero successes">>
      BY <2>1, <3>1
    <3> QED BY <3>1, <3>2 DEF Pending
  <2>4. CASE Head(request[p]) # "set closed"
    <3>1. Head(request[p]) # "zero failures" /\ Pending("zero failures")
            => Pending("zero failures")'
      <4> SUFFICES ASSUME Head(request[p]) # "zero failures", Pending("zero failures")
                   PROVE  Pending("zero failures")'
        OBVIOUS
      <4>1. PICK a \in Admins : request[a] = <<"zero failures", "zero successes">>
        BY DEF Pending
      <4>2. a # p /\ a \in Procs
        BY <4>1, TwoCommands DEF Procs
      <4>3. request'[a] = request[a]
        BY <2>1, <4>2
      <4> QED BY <4>1, <4>3 DEF Pending
    <3>2. Head(request[p]) # "zero successes" /\ Pending("zero successes")
            => Pending("zero successes")'
      <4> SUFFICES ASSUME Head(request[p]) # "zero successes", Pending("zero successes")
                   PROVE  Pending("zero successes")'
        OBVIOUS
      <4>1. PICK a \in Admins : \/ request[a] = <<"zero failures", "zero successes">>
                                \/ request[a] = <<"zero successes">>
        BY DEF Pending
      <4>2. CASE a # p
        <5>1. request'[a] = request[a]
          BY <2>1, <4>2 DEF Procs
        <5> QED BY <4>1, <5>1 DEF Pending
      <4>3. CASE a = p
        <5>1. request[p] = <<"zero failures", "zero successes">>
          BY <4>1, <4>3, OneCommand
        <5>2. request'[p] = <<"zero successes">>
          BY <2>1, <5>1, TwoCommands
        <5> QED BY <4>3, <5>2 DEF Pending
      <4> QED BY <4>2, <4>3
    <3>3. hash.state = "closed" =>
            /\ hash.failures < FailThreshold \/ Pending("zero failures") \/ "failures" \in torn
            /\ hash.successes = 0 \/ Pending("zero successes") \/ "successes" \in torn
      BY DEF IInv, ClosedIsZeroed
    <3>4. /\ \/ hash'.failures < FailThreshold
             \/ hash.state = "closed" /\ hash'.failures = hash.failures /\ Head(request[p]) # "zero failures"
          /\ \/ hash'.successes = 0
             \/ hash.state = "closed" /\ hash'.successes = hash.successes /\ Head(request[p]) # "zero successes"
      BY <1>1, <2>4 DEF Effect
    <3>5. /\ hash'.failures = hash'["failures"] /\ hash'.successes = hash'["successes"]
          /\ hash'.failures = 0 => hash'.failures < FailThreshold
      BY Params
    <3>6. /\ "failures" \in torn => "failures" \in torn' \/ hash'.failures < FailThreshold
          /\ "successes" \in torn => "successes" \in torn' \/ hash'.successes = 0
      BY <1>2, <3>5
    <3> QED BY <3>1, <3>2, <3>3, <3>4, <3>6
  <2> QED BY <2>3, <2>4
<1> QED BY <1>3

LEMMA ServeStep == ASSUME IInv, NEW p \in Procs, Serve(p) PROVE IInv'
BY ServeTypes, ServeProcs, ServeZeroed DEF IInv
LEMMA CallStep == ASSUME IInv, NEW c \in Clients, Call(c) PROVE IInv'
BY EndStep, StartStep, StoreFailedStep, RecordStep, RecordedStep DEF Call

LEMMA ContinueStep == ASSUME IInv, NEW p \in Procs, Continue(p) PROVE IInv'
<1>1. CASE Serve(p)
  BY <1>1, ServeStep
<1>2. CASE p \in Clients /\ Call(p)
  BY <1>2, CallStep
<1>3. CASE p \in Admins /\ (Apply(p) \/ Commanded(p))
  BY <1>3, ApplyStep, CommandedStep
<1> QED BY <1>1, <1>2, <1>3 DEF Continue

LEMMA SettleStep == ASSUME IInv, NEW c \in Clients, Settle(c) PROVE IInv'
BY SucceedStep, FailStep, EndStep DEF Settle

LEMMA StutterStep == ASSUME IInv, UNCHANGED vars PROVE IInv'
<1>1. TypeOK'
  BY DEF vars, ofCall, IInv, TypeOK, Procs
<1> QED BY <1>1, QuietStep DEF vars, ofCall

LEMMA NextStep == IInv /\ [Next]_vars => IInv'
<1> SUFFICES ASSUME IInv, [Next]_vars PROVE IInv'
  OBVIOUS
<1>1. CASE \E c \in Clients : Begin(c) \/ Settle(c)
  BY <1>1, BeginStep, SettleStep
<1>2. CASE \E a \in Admins, new \in {"isolated", "closed"} : Command(a, new)
  BY <1>2, CommandStep
<1>3. CASE \E p \in Procs : Continue(p) \/ Lose(p) \/ Crash(p)
  BY <1>3, ContinueStep, FaultStep
<1>4. CASE TimePasses
  BY <1>4, TimeStep
<1>5. CASE UNCHANGED vars
  BY <1>5, StutterStep
<1> QED BY <1>1, <1>2, <1>3, <1>4, <1>5 DEF Next

\* The invariant holds in every state of every run.
THEOREM Invariance == Spec => []IInv
<1>1. Init => IInv
  BY InitOK
<1>2. IInv /\ [Next]_vars => IInv'
  BY NextStep
<1> QED BY <1>1, <1>2, PTL DEF Spec
-----------------------------------------------------------------------------
\* Every variable keeps its type: no reply of the server, loss or crash leaves
\* a call at a place its code cannot be in.
THEOREM TypeCorrect == Spec => []TypeOK
<1>1. IInv => TypeOK
  BY DEF IInv
<1> QED BY <1>1, Invariance, PTL

\* Only the scripts change the circuit; the policy and the faults do not.
LEMMA OnlyServe ==
    ASSUME [Next]_vars, hash'.state # hash.state, IInv
    PROVE  \E p \in Procs : Serve(p)
<1>1. CASE \E c \in Clients : Begin(c) \/ Settle(c)
  BY <1>1 DEF Begin, Settle, Succeed, Fail, FinishUncounted, HandleFailure, Send, Return
<1>2. CASE \E a \in Admins, new \in {"isolated", "closed"} : Command(a, new)
  BY <1>2 DEF Command, Send
<1>3. CASE \E p \in Procs : Continue(p) \/ Lose(p) \/ Crash(p)
  <2>1. PICK p \in Procs : Continue(p) \/ Lose(p) \/ Crash(p)
    BY <1>3
  <2>2. CASE Lose(p) \/ Crash(p)
    BY <2>2 DEF Lose, Crash
  <2>3. CASE p \in Clients /\ Call(p)
    BY <2>3 DEF Call, Refuse, Start, StoreFailed, Succeeded, Record, Recorded, Announced,
                HandleFailure, Send, Return
  <2>4. CASE p \in Admins /\ (Apply(p) \/ Commanded(p))
    BY <2>4 DEF Apply, Commanded, Send, Return
  <2> QED BY <2>1, <2>2, <2>3, <2>4 DEF Continue
<1>4. CASE TimePasses
  <2>1. hash'.state = hash.state
    BY <1>4, HashFields DEF TimePasses, IInv, TypeOK, Hashes
  <2> QED BY <2>1
<1>5. CASE UNCHANGED vars
  BY <1>5 DEF vars
<1> QED BY <1>1, <1>2, <1>3, <1>4, <1>5 DEF Next

\* Whatever was sent before, lost or delayed, only the pipeline of a reset ends
\* an isolation.
THEOREM IsolationTheorem == Spec => IsolationHolds
<1>1. ASSUME IInv, [Next]_vars
      PROVE  [hash.state = "isolated" /\ hash'.state # "isolated"
               => \E a \in Admins : request[a] # <<>> /\ Head(request[a]) = "set closed"]_vars
  <2> SUFFICES ASSUME hash.state = "isolated", hash'.state # "isolated"
               PROVE  \E a \in Admins : request[a] # <<>> /\ Head(request[a]) = "set closed"
    OBVIOUS
  <2>1. PICK p \in Procs : Serve(p)
    BY <1>1, OnlyServe
  <2>2. /\ request[p] \in Requests /\ request[p] # <<>> /\ Effect(Head(request[p]))
        /\ at[p] = "setting" \/ Head(request[p]) \in {"getState", "recordSuccess", "recordFailure"}
    BY <1>1, <2>1, ServeFacts
  <2>3. Head(request[p]) = "set closed"
    BY <2>2 DEF Effect
  <2>4. p \in Admins
    BY <1>1, <2>2, <2>3, Standing DEF ProcOK
  <2> QED BY <2>2, <2>3, <2>4
<1> QED BY <1>1, Invariance, PTL DEF Spec, IsolationHolds

\* A closed circuit is at its threshold, or holds successes, only while some
\* reset stands at its pipeline (redis-state-store.ts:88) or after a fault cut
\* one off from the counter, whatever scripts ran between its commands.
THEOREM ClosedRoom == Spec => []ClosedHasRoom
<1>1. ASSUME IInv PROVE ClosedHasRoom
  <2> SUFFICES ASSUME hash.state = "closed", \A a \in Admins : at[a] # "setting"
               PROVE  /\ hash.failures < FailThreshold \/ "failures" \in torn
                      /\ hash.successes = 0 \/ "successes" \in torn
    BY DEF ClosedHasRoom
  <2>1. ~Pending("zero failures") /\ ~Pending("zero successes")
    <3> SUFFICES ASSUME NEW a \in Admins,
                        \/ request[a] = <<"zero failures", "zero successes">>
                        \/ request[a] = <<"zero successes">>
                 PROVE  FALSE
      BY DEF Pending
    <3>1. /\ at[a] \in {"idle", "deciding", "setting"} /\ Fits(at[a], request[a])
      BY <1>1, Standing DEF ProcOK, Procs
    <3>2. request[a] \notin {<<>>, <<"getState">>}
      BY OneApart, TwoApart
    <3> QED BY <3>1, <3>2 DEF Fits
  <2> QED BY <1>1, <2>1 DEF IInv, ClosedIsZeroed
<1> QED BY <1>1, Invariance, PTL

\* However requests are lost, a call is counted once for an operation that
\* failed and once more only when its own store call failed inside the try
\* block of execute() (circuit-breaker-policy.ts:166).
THEOREM FailuresCounted == Spec => []FailuresAreReal
<1>1. ASSUME IInv PROVE FailuresAreReal
  <2> SUFFICES ASSUME NEW c \in Clients
               PROVE  counted[c] <= (IF c \in failed THEN 1 ELSE 0) + (IF c \in misled THEN 1 ELSE 0)
    BY DEF FailuresAreReal
  <2>1. c \in Procs /\ at[c] \in Places /\ counted[c] \in 0..2 /\ ProcOK(c)
    BY <1>1, Standing DEF Procs
  <2>2. at[c] \in {"failing", "failed", "announcing"} => counted[c] <= Budget(c)
    <3>1. Budget(c) \in 0..2
      BY DEF Budget
    <3> QED BY <2>1, <3>1 DEF ProcOK
  <2>3. at[c] \notin {"failing", "failed", "announcing"} => counted[c] = 0
    BY <2>1 DEF ProcOK, Places
  <2> QED BY <2>1, <2>2, <2>3 DEF Budget
<1> QED BY <1>1, Invariance, PTL
=============================================================================
