--------------------------- MODULE WebGateProofs ---------------------------
(***************************************************************************)
(* For every set of requests and of policies, number of slots and number   *)
(* of calls: the error handler and the route handler share a live response *)
(* only by a call that nobody waits for, the policy is told what became of *)
(* the response, and a response that is over gives its slots back, but for *)
(* the exceptions that OneAnswerer and SlotsComeBack name.                  *)
(***************************************************************************)
EXTENDS WebGate, TLAPS

\* A promise is settled when the listeners are taken off, unless it was
\* Express's catch that took them off.
Listened(r) ==
    /\ r \in listening => promise[r] = "pending"
    /\ r \notin listening => \/ promise[r] # "pending"
                             \/ adapter = "express" /\ answer[r] = "rejected"

\* A settled promise tells what became of the response.
PromiseTells(r) ==
    /\ Over(r) /\ promise[r] = "pending" => r \notin listening
    /\ promise[r] = "rejected" => HeadersSent(r) /\ (status[r] = "error" \/ resp[r] = "broken")
    /\ promise[r] = "resolved" => r \in closed \/ (resp[r] = "finished" /\ status[r] = "ok")
    /\ resp[r] = "broken" => promise[r] = "rejected"
    /\ resp[r] = "finished" => r \notin closed

\* Only calls that have begun are aborted or left.  Express has answered the
\* client of a call that was made before that.
LeftIsAnswered(r) ==
    \A i \in Calls :
        <<r, i>> \in told \cup left =>
            /\ stage[r][i] # "none"
            /\ stage[r][i] = "made" /\ adapter = "express" => HeadersSent(r) \/ r \in closed

\* The policy rejects when it expects nothing of any call.
RejectedIsDone(r) == answer[r] = "rejected" => AllFailed(r)

\* Without a reason to leave a call it leaves none before it has its result.
WaitsForAll(r) ==
    answer[r] # "resolved" /\ traits \cap {"abandon", "fault"} = {} =>
        \A i \in Calls : <<r, i>> \notin left

\* The policy passes on what the promise told it.
AnswerTells(r) ==
    /\ answer[r] = "resolved" /\ "substitute" \notin traits => promise[r] = "resolved"
    /\ answer[r] = "rejected" /\ r \in admitted /\ traits \cap {"abandon", "fault"} = {}
         => promise[r] = "rejected"

\* The policy is finished with a request that the error handler has.
ErredIsRejected(r) == r \in erred => answer[r] = "rejected"

AdmittedIsMade(r) == r \in admitted => \E i \in Calls : Made(r, i)

Separate(r) ==
    r \in erred \cap admitted => r \in closed \/ (adapter = "express" /\ CalledAfterLeaving(r))

\* The policy has decided on the request.  A policy that replaces refusals is
\* left out.
Decided(r) ==
    answer[r] = "rejected" \/ (answer[r] = "resolved" /\ "substitute" \notin traits)

\* A call that was made, a response that has begun, and a decision each mean
\* that a handler has the request.
HasHandler(r) ==
    HeadersSent(r) \/ Decided(r) \/ (\E i \in Calls : Made(r, i)) => r \in admitted \cup erred

RequestInv(r) ==
    /\ Listened(r) /\ PromiseTells(r) /\ LeftIsAnswered(r) /\ RejectedIsDone(r)
    /\ WaitsForAll(r) /\ AnswerTells(r) /\ ErredIsRejected(r) /\ AdmittedIsMade(r)
    /\ Separate(r) /\ HasHandler(r)

GateInv == TypeOK /\ \A r \in Requests : RequestInv(r)

LEMMA GateInvInit == Init => GateInv
<1> SUFFICES ASSUME Init PROVE GateInv
  OBVIOUS
<1>1. TypeOK  BY GateAssumption DEF Init, TypeOK
<1>2. ASSUME NEW r \in Requests PROVE RequestInv(r)
  BY DEF Init, RequestInv, Listened, PromiseTells, Over, HeadersSent, LeftIsAnswered,
     RejectedIsDone, WaitsForAll, AnswerTells, ErredIsRejected, AdmittedIsMade, Separate,
     HasHandler, Decided, Made
<1>3. QED BY <1>1, <1>2 DEF GateInv

\* A step of one request leaves everything of the others as it is.
Same(r) ==
    /\ UNCHANGED <<adapter, traits, stage[r], answer[r], promise[r], resp[r], status[r]>>
    /\ \A i \in Calls : (<<r, i>> \in told' <=> <<r, i>> \in told)
                     /\ (<<r, i>> \in left' <=> <<r, i>> \in left)
    /\ r \in listening' <=> r \in listening
    /\ r \in admitted' <=> r \in admitted
    /\ r \in erred' <=> r \in erred
    /\ r \in closed' <=> r \in closed

LEMMA SameKeeps ==
    ASSUME NEW r, RequestInv(r), Same(r)
    PROVE  RequestInv(r)'
<1> USE DEF Same, RequestInv, HeadersSent, Over, Made
<1>1. Listened(r)' /\ PromiseTells(r)'  BY DEF Listened, PromiseTells
<1>2. LeftIsAnswered(r)' BY DEF LeftIsAnswered
<1>3. RejectedIsDone(r)' BY DEF RejectedIsDone, AllFailed, Begun, Failed
<1>4. WaitsForAll(r)' BY DEF WaitsForAll
<1>5. AnswerTells(r)' /\ ErredIsRejected(r)' BY DEF AnswerTells, ErredIsRejected
<1>6. AdmittedIsMade(r)' BY DEF AdmittedIsMade
<1>7. Separate(r)' BY DEF Separate, CalledAfterLeaving
<1>8. HasHandler(r)' BY DEF HasHandler, Decided
<1>9. QED BY <1>1, <1>2, <1>3, <1>4, <1>5, <1>6, <1>7, <1>8

LEMMA OperationStep ==
    ASSUME TypeOK, NEW r \in Requests, NEW i \in Calls, NEW as \in {"made", "late"},
           Operation(r, i, as)
    PROVE  /\ stage' \in [Requests -> [Calls -> {"none", "waiting", "refused", "made", "late"}]]
           /\ admitted' \subseteq Requests
           /\ stage'[r][i] = as
           /\ \A j \in Calls : j # i => stage'[r][j] = stage[r][j]
           /\ \A q \in Requests : q # r => stage'[q] = stage[q]
           /\ \A q \in Requests : q # r => (q \in admitted' <=> q \in admitted)
           /\ r \in admitted' <=> r \in admitted \/ adapter # "fastify" \/ r \notin erred
BY DEF Operation, TypeOK

LEMMA TypeStep ==
    ASSUME TypeOK, NEW r \in Requests, RequestNext(r)
    PROVE  TypeOK'
<1> USE DEF TypeOK, gate, policy, response
<1>1. ASSUME NEW i \in Calls, Begin(r, i) PROVE TypeOK'
  <2>1. PICK stray \in BOOLEAN :
          /\ left' = IF stray THEN left \cup {<<r, i>>} ELSE left
          /\ IF "wait" \in traits
             THEN stage' = [stage EXCEPT ![r][i] = "waiting"] /\ UNCHANGED admitted
             ELSE Operation(r, i, IF stray THEN "late" ELSE "made")
    BY <1>1, Zenon DEF Begin
  <2>2. left' \subseteq Requests \X Calls  BY <2>1
  <2>3. CASE "wait" \in traits
    <3>1. stage' = [stage EXCEPT ![r][i] = "waiting"] /\ UNCHANGED admitted  BY <2>1, <2>3
    <3>2. QED BY <1>1, <2>2, <3>1 DEF Begin
  <2>4. CASE "wait" \notin traits
    <3>1. PICK as \in {"made", "late"} : Operation(r, i, as)  BY <2>1, <2>4
    <3>2. /\ stage' \in [Requests -> [Calls -> {"none", "waiting", "refused", "made", "late"}]]
          /\ admitted' \subseteq Requests
      BY <3>1, OperationStep
    <3>3. QED BY <1>1, <2>2, <3>2 DEF Begin
  <2>5. QED BY <2>3, <2>4
<1>2. ASSUME NEW i \in Calls, Call(r, i) PROVE TypeOK'  BY <1>2 DEF Call, Operation
<1>3. ASSUME NEW i \in Calls, Refuse(r, i) PROVE TypeOK'  BY <1>3 DEF Refuse
<1>4. ASSUME NEW S \in SUBSET Calls, Abort(r, S) PROVE TypeOK'  BY <1>4 DEF Abort, Tell
<1>5. CASE Resolve(r) \/ Spoil(r)
  <2>1. {r} \X Begun(r) \subseteq Requests \X Calls  BY DEF Begun
  <2>2. told' \subseteq Requests \X Calls /\ left' \subseteq Requests \X Calls
    BY <1>5, <2>1 DEF Resolve, Spoil, Settle, Tell
  <2>3. /\ resp' \in [Requests -> {"quiet", "streaming", "ended", "finished", "broken"}]
        /\ status' \in [Requests -> {"ok", "error"}]
    BY <1>5 DEF Resolve, Spoil, Settle, Tell
  <2>4. answer' \in [Requests -> {"pending", "resolved", "rejected"}]
    BY <1>5 DEF Resolve, Spoil
  <2>5. QED BY <1>5, <2>2, <2>3, <2>4 DEF Resolve, Spoil
<1>7. CASE Reject(r)  BY <1>7 DEF Reject, Catch, Destroy, RejectGate
<1>8. CASE Stream(r)  BY <1>8 DEF Stream
<1>9. CASE End(r)  BY <1>9 DEF End
<1>10. CASE Finish(r)  BY <1>10 DEF Finish, Notify
<1>11. CASE Close(r)  BY <1>11 DEF Close, Notify
<1>12. CASE Break(r)  BY <1>12 DEF Break, Notify
<1> QED
  BY <1>1, <1>2, <1>3, <1>4, <1>5, <1>7, <1>8, <1>9, <1>10, <1>11, <1>12
  DEF RequestNext, Proceed, Decide

LEMMA OthersStep ==
    ASSUME TypeOK, NEW r \in Requests, NEW q \in Requests \ {r}, RequestNext(r)
    PROVE  Same(q)
<1> USE DEF TypeOK, Same, gate, policy, response
<1>1. ASSUME NEW i \in Calls, Begin(r, i) PROVE Same(q)
  BY <1>1 DEF Begin, Operation
<1>2. ASSUME NEW i \in Calls, Call(r, i) PROVE Same(q)  BY <1>2 DEF Call, Operation
<1>3. ASSUME NEW i \in Calls, Refuse(r, i) PROVE Same(q)  BY <1>3 DEF Refuse
<1>4. ASSUME NEW S \in SUBSET Calls, Abort(r, S) PROVE Same(q)  BY <1>4 DEF Abort, Tell
<1>5. CASE Resolve(r)  BY <1>5 DEF Resolve, Settle, Tell
<1>6. CASE Spoil(r)  BY <1>6 DEF Spoil, Settle, Tell
<1>7. CASE Reject(r)  BY <1>7 DEF Reject, Catch, Destroy, RejectGate
<1>8. CASE Stream(r)  BY <1>8 DEF Stream
<1>9. CASE End(r)  BY <1>9 DEF End
<1>10. CASE Finish(r)  BY <1>10 DEF Finish, Notify
<1>11. CASE Close(r)  BY <1>11 DEF Close, Notify
<1>12. CASE Break(r)  BY <1>12 DEF Break, Notify
<1> QED
  BY <1>1, <1>2, <1>3, <1>4, <1>5, <1>6, <1>7, <1>8, <1>9, <1>10, <1>11, <1>12
  DEF RequestNext, Proceed, Decide

LEMMA TellStep ==
    ASSUME TypeOK, NEW r \in Requests, NEW S \in SUBSET Calls, Tell(r, S)
    PROVE  /\ \A i \in Calls : <<r, i>> \in told' <=> <<r, i>> \in told \/ i \in S
           /\ \/ /\ resp[r] = "quiet" /\ (\E i \in S : Made(r, i))
                 /\ resp'[r] = "ended" /\ status'[r] = "error"
              \/ UNCHANGED <<resp[r], status[r]>>
           /\ adapter = "express" /\ (\E i \in S : Made(r, i)) => resp'[r] # "quiet"
BY DEF Tell, TypeOK, HeadersSent

\* Which calls are aborted and left decides what becomes of the response.
LEMMA LeaveStep ==
    ASSUME TypeOK, NEW r \in Requests, RequestInv(r),
           UNCHANGED <<adapter, traits, stage, promise, listening, admitted, erred, closed>>,
           NEW S \in SUBSET Calls, S \subseteq Begun(r),
           NEW L \in SUBSET Begun(r), L \subseteq S \/ promise[r] = "resolved",
           \A i \in Calls : <<r, i>> \in told' <=> <<r, i>> \in told \/ i \in S,
           \A i \in Calls : <<r, i>> \in left' <=> <<r, i>> \in left \/ i \in L,
           \/ /\ resp[r] = "quiet" /\ (\E i \in S : Made(r, i))
              /\ resp'[r] = "ended" /\ status'[r] = "error"
           \/ UNCHANGED <<resp[r], status[r]>>,
           adapter = "express" /\ (\E i \in S : Made(r, i)) => resp'[r] # "quiet",
           \/ UNCHANGED answer[r]
           \/ /\ answer[r] = "pending" /\ answer'[r] = "resolved"
              /\ "substitute" \notin traits
                   => promise[r] = "resolved" /\ \E i \in Calls : Made(r, i),
           L # {} => answer'[r] = "resolved" \/ traits \cap {"abandon", "fault"} # {}
    PROVE  RequestInv(r)'
<1> USE DEF RequestInv, HeadersSent, Over, Made, TypeOK
<1>1. Listened(r)'  BY DEF Listened
<1>2. PromiseTells(r)'  BY DEF PromiseTells
<1>3. LeftIsAnswered(r)'
  <2> SUFFICES ASSUME NEW i \in Calls, <<r, i>> \in told' \/ <<r, i>> \in left'
               PROVE  /\ stage[r][i] # "none"
                      /\ stage[r][i] = "made" /\ adapter = "express"
                           => resp'[r] # "quiet" \/ r \in closed
    BY DEF LeftIsAnswered
  <2>1. CASE <<r, i>> \in told \/ <<r, i>> \in left
    BY <2>1 DEF LeftIsAnswered
  <2>2. CASE i \in S
    BY <2>2 DEF Begun
  <2>3. CASE i \in L
    BY <2>2, <2>3 DEF PromiseTells, Begun
  <2>4. QED BY <2>1, <2>2, <2>3
<1>4. RejectedIsDone(r)'  BY DEF RejectedIsDone, AllFailed, Begun, Failed
<1>5. WaitsForAll(r)'  BY DEF WaitsForAll
<1>6. AnswerTells(r)'  BY DEF AnswerTells
<1>7. ErredIsRejected(r)'  BY DEF ErredIsRejected
<1>8. AdmittedIsMade(r)'  BY DEF AdmittedIsMade
<1>9. Separate(r)'  BY DEF Separate, CalledAfterLeaving
<1>10. HasHandler(r)'  BY DEF HasHandler, Decided
<1>11. QED BY <1>1, <1>2, <1>3, <1>4, <1>5, <1>6, <1>7, <1>8, <1>9, <1>10

\* The operation is called, or what comes before it is begun.
LEMMA BeginStep ==
    ASSUME TypeOK, NEW r \in Requests, RequestInv(r), NEW i \in Calls, Begin(r, i)
    PROVE  RequestInv(r)'
<1>0. ASSUME NEW as \in {"made", "late"}, Operation(r, i, as)
      PROVE  /\ \A j \in Calls : j # i => stage'[r][j] = stage[r][j]
             /\ stage'[r][i] = as
             /\ r \in admitted' <=> r \in admitted \/ adapter # "fastify" \/ r \notin erred
  BY <1>0, OperationStep
<1> USE DEF RequestInv, HeadersSent, Over, Made, TypeOK, gate, response
<1>1. /\ UNCHANGED <<adapter, traits, told, answer, promise, listening, resp, status, closed, erred>>
      /\ stage[r][i] = "none"
      /\ <<r, i>> \notin told \cup left
  BY DEF Begin, LeftIsAnswered
<1>2. PICK stray \in BOOLEAN :
        /\ left' = IF stray THEN left \cup {<<r, i>>} ELSE left
        /\ IF stray THEN \E j \in Calls : <<r, j>> \in left ELSE answer[r] = "pending"
        /\ IF "wait" \in traits
           THEN stage' = [stage EXCEPT ![r][i] = "waiting"] /\ UNCHANGED admitted
           ELSE Operation(r, i, IF stray THEN "late" ELSE "made")
  <2>1. PICK stray \in BOOLEAN :
          /\ IF stray
             THEN "hedge" \in traits /\ \E j \in Calls : <<r, j>> \in left
             ELSE /\ answer[r] = "pending"
                  /\ i = 1 \/ "hedge" \in traits \/ ("retry" \in traits /\ AllFailed(r))
          /\ left' = IF stray THEN left \cup {<<r, i>>} ELSE left
          /\ IF "wait" \in traits
             THEN stage' = [stage EXCEPT ![r][i] = "waiting"] /\ UNCHANGED admitted
             ELSE Operation(r, i, IF stray THEN "late" ELSE "made")
    BY Zenon DEF Begin
  <2>2. IF stray THEN \E j \in Calls : <<r, j>> \in left ELSE answer[r] = "pending"
    BY <2>1, Zenon
  <2>3. QED BY <2>1, <2>2, Zenon
<1>3. /\ \A j \in Calls : j # i => stage'[r][j] = stage[r][j]
      /\ \/ stage'[r][i] = "waiting" /\ admitted' = admitted
         \/ /\ stage'[r][i] = IF stray THEN "late" ELSE "made"
            /\ r \in admitted' <=> r \in admitted \/ adapter # "fastify" \/ r \notin erred
  <2>1. CASE "wait" \in traits  BY <1>2, <2>1
  <2>2. CASE "wait" \notin traits
    <3>1. PICK as \in {"made", "late"} :
            as = (IF stray THEN "late" ELSE "made") /\ Operation(r, i, as)
      BY <1>2, <2>2
    <3>2. /\ \A j \in Calls : j # i => stage'[r][j] = stage[r][j]
          /\ stage'[r][i] = as
          /\ r \in admitted' <=> r \in admitted \/ adapter # "fastify" \/ r \notin erred
      BY <1>0, <3>1
    <3>3. QED BY <3>1, <3>2
  <2>3. QED BY <2>1, <2>2
<1>4. \A j \in Calls : <<r, j>> \in left' <=> <<r, j>> \in left \/ (stray /\ j = i)
  BY <1>2
<1>5. stray \/ answer[r] = "pending"
  BY <1>2
<1>6. Listened(r)'  BY <1>1 DEF Listened
<1>7. PromiseTells(r)'  BY <1>1 DEF PromiseTells
<1>8. LeftIsAnswered(r)'  BY <1>1, <1>3, <1>4 DEF LeftIsAnswered
<1>9. RejectedIsDone(r)'
  BY <1>1, <1>3, <1>4, <1>5 DEF RejectedIsDone, AllFailed, Begun, Failed
<1>10. WaitsForAll(r)'  BY <1>1, <1>2, <1>4 DEF WaitsForAll
<1>11. ErredIsRejected(r)' /\ AdmittedIsMade(r)'
  BY <1>1, <1>3 DEF ErredIsRejected, AdmittedIsMade
<1>12. AnswerTells(r)'
  <2>1. stray => \E j \in Calls : <<r, j>> \in left
    BY <1>2
  <2>2. QED BY <1>1, <1>5, <2>1 DEF AnswerTells, WaitsForAll
<1>13. Separate(r)'
  <2>1. CASE CalledAfterLeaving(r)  BY <2>1, <1>1, <1>3, <1>4 DEF Separate, CalledAfterLeaving
  <2>2. CASE ~CalledAfterLeaving(r)
    BY <2>2, <1>1, <1>3, <1>4, <1>5 DEF Separate, CalledAfterLeaving, ErredIsRejected
  <2>3. QED BY <2>1, <2>2
<1>14. HasHandler(r)'  BY <1>1, <1>3 DEF HasHandler, Decided
<1>15. QED BY <1>6, <1>7, <1>8, <1>9, <1>10, <1>11, <1>12, <1>13, <1>14

\* A wait is over.
LEMMA CallStep ==
    ASSUME TypeOK, NEW r \in Requests, RequestInv(r), NEW i \in Calls, Call(r, i) \/ Refuse(r, i)
    PROVE  RequestInv(r)'
<1>0. ASSUME NEW as \in {"made", "late"}, Operation(r, i, as)
      PROVE  /\ \A j \in Calls : j # i => stage'[r][j] = stage[r][j]
             /\ stage'[r][i] = as
             /\ r \in admitted' <=> r \in admitted \/ adapter # "fastify" \/ r \notin erred
  BY <1>0, OperationStep
<1> USE DEF RequestInv, HeadersSent, Over, Made, TypeOK, gate, response
<1>1. /\ UNCHANGED <<adapter, traits, told, left, answer, promise, listening, resp, status, closed, erred>>
      /\ stage[r][i] = "waiting"
  BY DEF Call, Refuse
<1>2. /\ \A j \in Calls : j # i => stage'[r][j] = stage[r][j]
      /\ \/ stage'[r][i] = "refused" /\ admitted' = admitted
         \/ /\ stage'[r][i] = IF <<r, i>> \in told \cup left THEN "late" ELSE "made"
            /\ r \in admitted' <=> r \in admitted \/ adapter # "fastify" \/ r \notin erred
  <2>1. CASE Refuse(r, i)  BY <2>1 DEF Refuse
  <2>2. CASE Call(r, i)
    <3>1. PICK as \in {"made", "late"} :
            /\ as = IF <<r, i>> \in told \cup left THEN "late" ELSE "made"
            /\ Operation(r, i, as)
      BY <2>2 DEF Call
    <3>2. /\ \A j \in Calls : j # i => stage'[r][j] = stage[r][j]
          /\ stage'[r][i] = as
          /\ r \in admitted' <=> r \in admitted \/ adapter # "fastify" \/ r \notin erred
      BY <1>0, <3>1
    <3>3. QED BY <3>1, <3>2
  <2>3. QED BY <2>1, <2>2
<1>3. answer[r] = "rejected" => <<r, i>> \in left
  BY <1>1 DEF RejectedIsDone, AllFailed, Begun, Failed
<1>4. Listened(r)'  BY <1>1 DEF Listened
<1>5. PromiseTells(r)'  BY <1>1 DEF PromiseTells
<1>6. LeftIsAnswered(r)'
  <2> SUFFICES ASSUME NEW j \in Calls, <<r, j>> \in told \/ <<r, j>> \in left
               PROVE  /\ stage'[r][j] # "none"
                      /\ stage'[r][j] = "made" /\ adapter = "express"
                           => resp[r] # "quiet" \/ r \in closed
    BY <1>1 DEF LeftIsAnswered
  <2>1. CASE j = i  BY <1>2, <2>1
  <2>2. CASE j # i  BY <1>2, <2>2 DEF LeftIsAnswered
  <2>3. QED BY <2>1, <2>2
<1>7. RejectedIsDone(r)'  BY <1>1, <1>2, <1>3 DEF RejectedIsDone, AllFailed, Begun, Failed
<1>8. WaitsForAll(r)'  BY <1>1 DEF WaitsForAll
<1>9. ErredIsRejected(r)' /\ AdmittedIsMade(r)'
  BY <1>1, <1>2 DEF ErredIsRejected, AdmittedIsMade
<1>10. AnswerTells(r)'  BY <1>1, <1>3 DEF AnswerTells, WaitsForAll
<1>11. Separate(r)'
  <2>1. CASE CalledAfterLeaving(r)  BY <2>1, <1>1, <1>2 DEF Separate, CalledAfterLeaving
  <2>2. CASE ~CalledAfterLeaving(r)
    BY <2>2, <1>1, <1>2, <1>3 DEF Separate, CalledAfterLeaving, ErredIsRejected
  <2>3. QED BY <2>1, <2>2
<1>12. HasHandler(r)'  BY <1>1, <1>2 DEF HasHandler, Decided
<1>13. QED BY <1>4, <1>5, <1>6, <1>7, <1>8, <1>9, <1>10, <1>11, <1>12

\* A signal is aborted, a result passed on or lost.
LEMMA LeavingStep ==
    ASSUME TypeOK, NEW r \in Requests, RequestInv(r),
           (\E S \in SUBSET Calls : Abort(r, S)) \/ Resolve(r) \/ Spoil(r)
    PROVE  RequestInv(r)'
<1>1. ASSUME NEW S \in SUBSET Calls, Abort(r, S) PROVE RequestInv(r)'
  <2> DEFINE L == IF "abandon" \in traits THEN S ELSE {}
  <2>1. /\ UNCHANGED <<adapter, traits, stage, answer, promise, listening, closed, admitted, erred>>
        /\ S \subseteq Begun(r) /\ Tell(r, S)
    BY <1>1 DEF Abort, gate
  <2>2. \A i \in Calls : <<r, i>> \in left' <=> <<r, i>> \in left \/ i \in L
    BY <1>1 DEF Abort
  <2>3. L \in SUBSET Begun(r) /\ L \subseteq S
    BY <2>1
  <2>4. L # {} => traits \cap {"abandon", "fault"} # {}
    OBVIOUS
  <2> HIDE DEF L
  <2>5. QED BY <2>1, <2>2, <2>3, <2>4, TellStep, LeaveStep
<1>2. ASSUME Resolve(r) \/ Spoil(r) PROVE RequestInv(r)'
  <2> DEFINE S == IF "hedge" \in traits THEN Begun(r) ELSE {}
             L == IF "hedge" \in traits \/ Spoil(r) THEN Begun(r) ELSE {}
  <2>1. /\ UNCHANGED <<adapter, traits, stage, promise, listening, closed, admitted, erred>>
        /\ answer[r] = "pending" /\ Result(r)
    BY <1>2 DEF Resolve, Spoil, gate
  <2>2. Begun(r) \subseteq Calls
    BY DEF Begun
  <2>3. /\ \A i \in Calls : <<r, i>> \in told' <=> <<r, i>> \in told \/ i \in S
        /\ \/ /\ resp[r] = "quiet" /\ (\E i \in S : Made(r, i))
              /\ resp'[r] = "ended" /\ status'[r] = "error"
           \/ UNCHANGED <<resp[r], status[r]>>
        /\ adapter = "express" /\ (\E i \in S : Made(r, i)) => resp'[r] # "quiet"
    <3>1. CASE "hedge" \in traits
      <4>1. Tell(r, Begun(r))  BY <1>2, <3>1 DEF Resolve, Spoil, Settle
      <4>2. S = Begun(r)  BY <3>1
      <4> HIDE DEF S
      <4>3. QED BY <2>2, <4>1, <4>2, TellStep
    <3>2. CASE "hedge" \notin traits
      BY <1>2, <3>2 DEF Resolve, Spoil, Settle
    <3>3. QED BY <3>1, <3>2
  <2>4. \A i \in Calls : <<r, i>> \in left' <=> <<r, i>> \in left \/ i \in L
    <3>1. CASE Spoil(r)  BY <3>1 DEF Spoil, Settle
    <3>2. CASE ~Spoil(r)  BY <1>2, <3>2 DEF Resolve, Settle
    <3>3. QED BY <3>1, <3>2
  <2>5. S \subseteq Begun(r) /\ L \in SUBSET Begun(r)
    OBVIOUS
  <2>6. L \subseteq S \/ promise[r] = "resolved"
    <3>1. CASE "hedge" \in traits  BY <3>1
    <3>2. CASE "hedge" \notin traits /\ ~Spoil(r)  BY <3>2
    <3>3. CASE "hedge" \notin traits /\ Spoil(r)  BY <3>3 DEF Spoil, Result
    <3>4. QED BY <3>1, <3>2, <3>3
  <2>7. \/ answer'[r] = answer[r] /\ Spoil(r)
        \/ /\ answer'[r] = "resolved"
           /\ "substitute" \notin traits => promise[r] = "resolved" /\ \E i \in Calls : Made(r, i)
    <3>1. CASE Spoil(r)  BY <3>1 DEF Spoil
    <3>2. CASE Resolve(r)  BY <3>2, <2>2 DEF Resolve, Result, TypeOK
    <3>3. QED BY <1>2, <3>1, <3>2
  <2>8. Spoil(r) => traits \cap {"abandon", "fault"} # {}
    BY DEF Spoil
  <2>9. S \in SUBSET Calls
    BY <2>2, <2>5
  <2> HIDE DEF S, L
  <2>10. QED BY <2>1, <2>3, <2>4, <2>5, <2>6, <2>7, <2>8, <2>9, LeaveStep
<1>3. QED BY <1>1, <1>2

\* The adapter catches a rejection.
LEMMA RejectStep ==
    ASSUME TypeOK, NEW r \in Requests, RequestInv(r), Reject(r)
    PROVE  RequestInv(r)'
<1> USE DEF RequestInv, HeadersSent, Over, Made, TypeOK, gate
<1>1. /\ UNCHANGED <<adapter, traits, stage, told, left, promise, admitted, resp, status>>
      /\ answer[r] = "pending" /\ answer'[r] = "rejected"
      /\ AllFailed(r)
  BY DEF Reject
<1>2. /\ r \in listening' => r \in listening
      /\ r \in listening /\ r \notin listening' => adapter = "express"
      /\ r \in closed => r \in closed'
      /\ r \in closed' => r \in closed \/ (adapter = "express" /\ resp[r] # "finished")
  BY DEF Reject, Catch, Destroy, RejectGate
<1>3. /\ adapter = "express" => r \notin listening'
      /\ adapter = "express" /\ resp[r] # "quiet" => (r \in erred' <=> r \in erred)
      /\ adapter = "express" /\ resp[r] = "quiet" => r \in erred'
      /\ adapter # "express" => (r \in erred' <=> r \in erred \/ r \notin admitted)
  BY DEF Reject, Catch, Destroy, RejectGate
<1>4. r \in admitted =>
        \/ promise[r] = "rejected"
        \/ \E i \in Calls : Made(r, i) /\ <<r, i>> \in left
  BY <1>1 DEF AllFailed, Begun, Failed, AdmittedIsMade
<1>5. Listened(r)'  BY <1>1, <1>2 DEF Listened
<1>6. PromiseTells(r)'  BY <1>1, <1>2, <1>3 DEF PromiseTells, Listened
<1>7. LeftIsAnswered(r)'  BY <1>1, <1>2 DEF LeftIsAnswered
<1>8. RejectedIsDone(r)'  BY <1>1 DEF RejectedIsDone, AllFailed, Begun, Failed
<1>9. WaitsForAll(r)'  BY <1>1 DEF WaitsForAll
<1>10. AnswerTells(r)'  BY <1>1, <1>4 DEF AnswerTells, WaitsForAll
<1>11. ErredIsRejected(r)' /\ AdmittedIsMade(r)'
  BY <1>1 DEF ErredIsRejected, AdmittedIsMade
<1>12. Separate(r)'
  <2>1. r \notin erred
    BY <1>1 DEF ErredIsRejected
  <2>2. CASE adapter = "express" /\ resp[r] = "quiet" /\ r \in admitted
    <3>1. PICK i \in Calls : Made(r, i) /\ <<r, i>> \in left
      BY <1>4, <2>2 DEF PromiseTells
    <3>2. stage[r][i] = "late" \/ r \in closed
      BY <2>2, <3>1 DEF LeftIsAnswered
    <3>3. QED BY <1>1, <1>2, <2>2, <3>1, <3>2 DEF Separate, CalledAfterLeaving
  <2>3. CASE ~(adapter = "express" /\ resp[r] = "quiet" /\ r \in admitted)
    BY <1>1, <1>3, <2>1, <2>3 DEF Separate
  <2>4. QED BY <2>2, <2>3
<1>13. HasHandler(r)'  BY <1>1, <1>3 DEF HasHandler, Decided
<1>14. QED BY <1>5, <1>6, <1>7, <1>8, <1>9, <1>10, <1>11, <1>12, <1>13

\* The response goes on.
LEMMA ResponseStep ==
    ASSUME TypeOK, NEW r \in Requests, RequestInv(r),
           Stream(r) \/ End(r) \/ Finish(r) \/ Close(r) \/ Break(r)
    PROVE  RequestInv(r)'
<1> USE DEF RequestInv, HeadersSent, Over, Made, TypeOK, gate, policy
<1>1. UNCHANGED <<adapter, traits, stage, told, left, answer, admitted, erred>>
  BY DEF Stream, End, Finish, Close, Break
<1>2. /\ resp[r] # "quiet" => resp'[r] # "quiet"
      /\ r \in closed => r \in closed'
      /\ promise[r] # "pending" => promise'[r] = promise[r]
      /\ resp[r] = "quiet" /\ resp'[r] # "quiet" => r \in admitted \cup erred
  BY DEF Stream, End, Finish, Close, Break, Notify, Listened, Handled
<1>3. Listened(r)'  BY <1>1 DEF Listened, Stream, End, Finish, Close, Break, Notify
<1>4. PromiseTells(r)'
  <2>1. CASE Stream(r) \/ End(r)  BY <1>1, <2>1 DEF PromiseTells, Stream, End, Handled
  <2>2. CASE Finish(r)  BY <1>1, <2>2 DEF PromiseTells, Listened, Finish, Notify
  <2>3. CASE Close(r)  BY <1>1, <2>3 DEF PromiseTells, Listened, Close, Notify
  <2>4. CASE Break(r)  BY <1>1, <2>4 DEF PromiseTells, Listened, Break, Notify
  <2>5. QED BY <2>1, <2>2, <2>3, <2>4
<1>5. LeftIsAnswered(r)'  BY <1>1, <1>2 DEF LeftIsAnswered
<1>6. RejectedIsDone(r)'  BY <1>1, <1>2 DEF RejectedIsDone, AllFailed, Begun, Failed
<1>7. WaitsForAll(r)'  BY <1>1 DEF WaitsForAll
<1>8. AnswerTells(r)'  BY <1>1, <1>2 DEF AnswerTells
<1>9. ErredIsRejected(r)' /\ AdmittedIsMade(r)'
  BY <1>1 DEF ErredIsRejected, AdmittedIsMade
<1>10. Separate(r)'  BY <1>1, <1>2 DEF Separate, CalledAfterLeaving
<1>11. HasHandler(r)'  BY <1>1, <1>2 DEF HasHandler, Decided
<1>12. QED BY <1>3, <1>4, <1>5, <1>6, <1>7, <1>8, <1>9, <1>10, <1>11

LEMMA OwnStep ==
    ASSUME TypeOK, NEW r \in Requests, RequestInv(r), RequestNext(r)
    PROVE  RequestInv(r)'
<1>1. CASE \E i \in Calls : Begin(r, i)  BY <1>1, BeginStep
<1>2. CASE Proceed(r)  BY <1>2, CallStep DEF Proceed
<1>3. CASE (\E S \in SUBSET Calls : Abort(r, S)) \/ Resolve(r) \/ Spoil(r)  BY <1>3, LeavingStep
<1>4. CASE Reject(r)  BY <1>4, RejectStep
<1>5. CASE Stream(r) \/ End(r) \/ Finish(r) \/ Close(r) \/ Break(r)  BY <1>5, ResponseStep
<1>6. QED BY <1>1, <1>2, <1>3, <1>4, <1>5 DEF RequestNext, Decide

LEMMA GateInvStep == GateInv /\ [Next]_vars => GateInv'
<1> SUFFICES ASSUME GateInv, [Next]_vars PROVE GateInv'
  OBVIOUS
<1>1. CASE Next
  <2>1. PICK r \in Requests : RequestNext(r)
    BY <1>1 DEF Next
  <2>2. TypeOK'
    BY <2>1, TypeStep DEF GateInv
  <2>3. ASSUME NEW q \in Requests PROVE RequestInv(q)'
    <3>1. CASE q = r BY <2>1, <3>1, OwnStep DEF GateInv
    <3>2. CASE q # r BY <2>1, <3>2, OthersStep, SameKeeps DEF GateInv
    <3>3. QED BY <3>1, <3>2
  <2>4. QED BY <2>2, <2>3 DEF GateInv
<1>2. CASE UNCHANGED vars
  <2>1. TypeOK'
    BY <1>2 DEF vars, gate, policy, response, GateInv, TypeOK
  <2>2. ASSUME NEW r \in Requests PROVE Same(r)
    BY <1>2 DEF vars, gate, policy, response, Same
  <2>3. QED BY <2>1, <2>2, SameKeeps DEF GateInv
<1>3. QED BY <1>1, <1>2

\* Once the policy has decided on a request, its handler or the error handler
\* has it.
DecidedIsHandled == \A r \in Requests : Decided(r) => r \in admitted \cup erred

LEMMA GateInvImplies ==
    GateInv => TypeOK /\ OneAnswerer /\ VerdictOfResponse /\ SlotsComeBack /\ DecidedIsHandled
<1> SUFFICES ASSUME GateInv
             PROVE  TypeOK /\ OneAnswerer /\ VerdictOfResponse /\ SlotsComeBack /\ DecidedIsHandled
  OBVIOUS
<1>1. OneAnswerer
  BY DEF GateInv, RequestInv, Separate, OneAnswerer
<1>2. VerdictOfResponse
  BY DEF GateInv, RequestInv, AnswerTells, PromiseTells, VerdictOfResponse
<1>3. SlotsComeBack
  <2> SUFFICES ASSUME NEW r \in Requests, NEW i \in Calls, Over(r), Made(r, i),
                      promise[r] = "pending"
               PROVE  adapter = "express" /\ answer[r] = "rejected" /\ <<r, i>> \in left
    BY DEF SlotsComeBack, HoldsSlot
  <2>1. RequestInv(r)
    BY DEF GateInv
  <2>2. adapter = "express" /\ answer[r] = "rejected"
    BY <2>1 DEF RequestInv, PromiseTells, Listened
  <2>3. Failed(r, i)
    BY <2>1, <2>2 DEF RequestInv, RejectedIsDone, AllFailed, Begun, Made
  <2>4. QED BY <2>2, <2>3 DEF Failed, Made
<1>4. DecidedIsHandled
  BY DEF GateInv, RequestInv, HasHandler, DecidedIsHandled
<1>5. QED BY <1>1, <1>2, <1>3, <1>4 DEF GateInv

\* polly-middleware.ts:65-76, polly-plugin.ts:70-82: for every policy, hedged,
\* abandoned and late calls included, a verdict that fits the response, and no
\* slot kept by a response that is over but for the exception.
THEOREM GateSafety == Spec => [](TypeOK /\ VerdictOfResponse /\ SlotsComeBack)
<1>1. QED BY GateInvInit, GateInvStep, GateInvImplies, PTL DEF Spec

\* polly-middleware.ts:69-74: the error handler meets a route handler on a live
\* response only when a policy in Express called after it had left the call.
THEOREM AnswererIsUnique == Spec => []OneAnswerer
<1>1. QED BY GateInvInit, GateInvStep, GateInvImplies, PTL DEF Spec

\* polly-plugin.ts:35-50: the policy is told of a request what its response says.
COROLLARY VerdictFits == Spec => []VerdictOfResponse
BY GateSafety, PTL

\* polly-middleware.ts:65-76, polly-plugin.ts:70-79: the decision of the policy
\* reaches a handler, whatever the client and the handlers do meanwhile.
THEOREM DecisionsReachHandlers == Spec => []DecidedIsHandled
<1>1. QED BY GateInvInit, GateInvStep, GateInvImplies, PTL DEF Spec
=============================================================================
