----------------------- MODULE ToolInvocationProofs -----------------------
(***************************************************************************)
(* Proofs about ToolInvocation for any number of calls, any policy, either    *)
(* audit backend and any drain limit: what reaches the gateway, what the       *)
(* audit log says, and what callers are told.                                  *)
(***************************************************************************)
EXTENDS ToolInvocation, TLAPS

Entitled(c) ==
  \E b \in DOMAIN Claims :
    OwnToken(c, b) /\ Allowed(Claims[b].scopes, request[c].tool, Policy)

Early(c) == answer[c] \in EarlyAnswers

\* The calls whose outcome is decided: their event says how.
Concluded(c) == pc[c] \in {"append", "answer"} \/ (pc[c] = "done" /\ ~Early(c))

\* What the event of call c asserts about the gateway and the caller.
TrueEvent(c) ==
  /\ event[c] \in Events /\ event[c].call = c
  /\ event[c].result = "allow" => CarriedOut(c)
  /\ event[c].result = "deny" => sent[c] = 0
  /\ event[c].actor # NoActor =>
       \E b \in DOMAIN Claims : OwnToken(c, b) /\ Claims[b].subject = event[c].actor

\* The gateway carries out each request once, and knows only entitled calls.
GatewayInv(c) ==
  /\ applied[c] <= sent[c]
  /\ c \in inflight => applied[c] < sent[c]
  /\ sent[c] > 0 => /\ Entitled(c) /\ ~Early(c)
                    /\ pc[c] \in {"invoke", "sent", "append", "answer", "done", "dead"}

\* Where a call stands determines its answer and what its event asserts.
CallInv(c) ==
  /\ pc[c] # "new" => request[c] \in Requests
  /\ pc[c] \in {"invoke", "sent"} => Entitled(c)
  /\ answer[c] # "none" <=> pc[c] = "done"
  /\ Concluded(c) => TrueEvent(c)
  /\ pc[c] = "done" /\ ~Early(c) => answer[c] = AnswerTo(c)

\* An entry of the log is the event of a call that is past the append.
EntryInv(i) ==
  LET c == log[i].call IN
  /\ pc[c] \in {"answer", "done", "dead"}
  /\ ~Early(c)
  /\ log[i] = event[c]
  /\ TrueEvent(c)

NoDuplicates == \A i, j \in DOMAIN log : log[i].call = log[j].call => i = j

\* The conditions under which an append cannot have failed so far.
Unexcused(c) ==
  /\ SqlBackend => c \notin cancelled /\ ~outage /\ store # "closed"
  /\ SqlBackend \/ Alive

RecordInv(c) ==
  pc[c] = "answer" \/ (pc[c] = "done" /\ ~Early(c)) =>
    (Unexcused(c) => Recorded(c))

StoreInv == store = "down" => outage

IInv ==
  /\ TypeOK
  /\ StoreInv
  /\ NoDuplicates
  /\ \A c \in Calls : GatewayInv(c) /\ CallInv(c) /\ RecordInv(c)
  /\ \A i \in DOMAIN log : EntryInv(i)
  /\ DrainBeforeClose

USE RequestsAssumption, BackendAssumption

\* No call has arrived, nothing is applied or recorded.
LEMMA InitInvariant == Init => IInv
<1> SUFFICES ASSUME Init PROVE IInv
  OBVIOUS
<1>1. TypeOK
  <2>1. log \in Seq(Events)
    BY DEF Init
  <2>2. event \in [Calls -> Events \union {<<>>}]
    BY DEF Init
  <2>3. answer \in [Calls -> EarlyAnswers \union Decided \union {"none"}]
    BY DEF Init
  <2>4. drainAge \in 0..DrainLimit
    BY DEF Init, BackendAssumption
  <2>5. outage \in BOOLEAN /\ cancelled \subseteq Calls
        /\ sent \in [Calls -> Nat] /\ inflight \subseteq Calls /\ applied \in [Calls -> Nat]
    BY DEF Init
  <2>6. request \in [Calls -> Requests \union {NoRequest}]
    BY DEF Init
  <2> QED
    BY <2>1, <2>2, <2>3, <2>4, <2>5, <2>6 DEF Init, TypeOK
<1>2. StoreInv /\ NoDuplicates /\ DrainBeforeClose /\ (\A i \in DOMAIN log : EntryInv(i))
  BY DEF Init, StoreInv, NoDuplicates, DrainBeforeClose
<1>3. ASSUME NEW c \in Calls PROVE GatewayInv(c) /\ CallInv(c) /\ RecordInv(c)
  BY DEF Init, GatewayInv, CallInv, RecordInv, Concluded
<1> QED
  BY <1>1, <1>2, <1>3 DEF IInv

-----------------------------------------------------------------------------
\* Concluding a call stores a well-typed event.
LEMMA ConcludeType ==
  ASSUME TypeOK, NEW c \in Calls, request[c] \in Requests,
         NEW a \in {Claims[b].subject : b \in DOMAIN Claims} \union {NoActor},
         NEW r \in {"allow", "deny", "error"}, Conclude(c, a, r)
  PROVE  /\ pc' = [pc EXCEPT ![c] = "append"]
         /\ event' = [event EXCEPT ![c] = Event(c, a, r)]
         /\ Event(c, a, r) \in Events
         /\ UNCHANGED <<request, answer, cancelled, log, store, outage, server,
                        cause, drainAge>>
<1>1. Event(c, a, r) \in Events
  BY DEF Event, Events
<1> QED
  BY <1>1 DEF Conclude, auditStore, lifecycle

\* Every action keeps the types.
LEMMA StepType == IInv /\ [Next]_vars => TypeOK'
<1> SUFFICES ASSUME TypeOK, \A c \in Calls : CallInv(c), [Next]_vars PROVE TypeOK'
  BY DEF IInv
<1>0. ASSUME NEW c \in Calls, pc[c] # "new" PROVE request[c] \in Requests
  BY <1>0 DEF CallInv
<1>a. ASSUME NEW c \in Calls, pc[c] \in {"invoke", "sent"}
      PROVE  Bearer(c) \in DOMAIN Claims
  BY <1>a DEF CallInv, Entitled, OwnToken, Bearer, ExtractBearer
<1>b. ASSUME NEW c \in Calls, Bearer(c) \in DOMAIN Claims
      PROVE  Subject(c) \in {Claims[b].subject : b \in DOMAIN Claims}
  BY <1>b DEF Subject
<1>c. ASSUME NEW c \in Calls, pc[c] # "new",
             NEW a \in {Claims[b].subject : b \in DOMAIN Claims} \union {NoActor},
             NEW r \in {"allow", "deny", "error"}, Conclude(c, a, r),
             inflight' \subseteq Calls, UNCHANGED <<sent, applied>>
      PROVE  TypeOK'
  <2>1. /\ pc' = [pc EXCEPT ![c] = "append"]
        /\ event' = [event EXCEPT ![c] = Event(c, a, r)]
        /\ Event(c, a, r) \in Events
        /\ UNCHANGED <<request, answer, cancelled, log, store, outage, server,
                       cause, drainAge>>
    BY <1>c, <1>0, ConcludeType
  <2> QED
    BY <1>c, <2>1 DEF TypeOK
<1> USE DEF TypeOK
<1>1. ASSUME NEW c \in Calls, NEW r \in Requests, Arrive(c, r) PROVE TypeOK'
  <2>1. EarlyAnswer(r) \in EarlyAnswers \union {"none"}
    BY DEF EarlyAnswer, EarlyAnswers
  <2> QED
    BY <1>1, <2>1 DEF Arrive, gateway, auditStore, lifecycle
<1>2. ASSUME NEW c \in Calls, Cancel(c) PROVE TypeOK'
  BY <1>2 DEF Cancel, callVars, gateway, auditStore, lifecycle
<1>3. ASSUME NEW c \in Calls, RefuseToken(c) PROVE TypeOK'
  BY <1>3, <1>c DEF RefuseToken, gateway
<1>4. ASSUME NEW c \in Calls, AcceptToken(c) PROVE TypeOK'
  <2>1. CASE Conclude(c, Subject(c), "deny")
    BY <1>4, <2>1, <1>b, <1>c DEF AcceptToken, gateway
  <2>2. CASE pc' = [pc EXCEPT ![c] = "invoke"]
    BY <1>4, <2>2, <2>1 DEF AcceptToken, gateway, auditStore, lifecycle
  <2> QED
    BY <1>4, <2>1, <2>2 DEF AcceptToken
<1>5. ASSUME NEW c \in Calls, InvokeFails(c) PROVE TypeOK'
  BY <1>5, <1>a, <1>b, <1>c DEF InvokeFails, gateway
<1>6. ASSUME NEW c \in Calls, SendToGateway(c) PROVE TypeOK'
  BY <1>6 DEF SendToGateway, auditStore, lifecycle
<1>7. ASSUME NEW c \in Calls, GatewayReplies(c) \/ GatewayRefuses(c) \/ CallFails(c)
      PROVE  TypeOK'
  <2>1. CASE pc' = [pc EXCEPT ![c] = "invoke"] /\ GatewayReplies(c)
             /\ UNCHANGED <<request, event, answer, cancelled, auditStore, lifecycle>>
    BY <2>1 DEF GatewayReplies, gateway, auditStore, lifecycle
  <2>2. CASE \E res \in {"allow", "error"} : Conclude(c, Subject(c), res)
    <3>1. pc[c] = "sent" /\ inflight' \subseteq Calls /\ UNCHANGED <<sent, applied>>
      BY <1>7 DEF GatewayReplies, GatewayRefuses, CallFails, gateway
    <3> QED
      BY <2>2, <3>1, <1>a, <1>b, <1>c
  <2> QED
    BY <1>7, <2>1, <2>2 DEF GatewayReplies, GatewayRefuses, CallFails
<1>8. ASSUME NEW c \in Calls, AppendAudit(c) PROVE TypeOK'
  <2>1. event[c] \in Events
    BY <1>8 DEF AppendAudit, CallInv, Concluded, TrueEvent
  <2>2. log' \in Seq(Events)
    BY <1>8, <2>1 DEF AppendAudit
  <2> QED
    BY <1>8, <2>2 DEF AppendAudit, gateway, lifecycle
<1>9. ASSUME NEW c \in Calls, Answer(c) PROVE TypeOK'
  <2>1. event[c] \in Events
    BY <1>9 DEF Answer, CallInv, Concluded, TrueEvent
  <2>2. AnswerTo(c) \in Decided
    BY <2>1 DEF AnswerTo, Refusal, Decided, Events
  <2> QED
    BY <1>9, <2>2 DEF Answer, gateway, auditStore, lifecycle
<1>10. ASSUME NEW c \in Calls, GatewayApplies(c) PROVE TypeOK'
  BY <1>10 DEF GatewayApplies, callVars, auditStore, lifecycle
<1>11. CASE Outage \/ Recovery
  BY <1>11 DEF Outage, Recovery, callVars, gateway, lifecycle
<1>12. CASE Signal \/ ServeError \/ DrainTick \/ ShutdownReturns \/ CloseAudit
  BY <1>12 DEF Signal, ServeError, DrainTick, ShutdownReturns, CloseAudit,
               callVars, gateway, auditStore
<1>13. CASE Kill \/ Exit
  <2>1. ProcessEnds
    BY <1>13 DEF Kill, Exit
  <2>2. log' \in Seq(Events)
    BY <2>1 DEF ProcessEnds
  <2>3. pc' \in [Calls -> {"new", "verify", "invoke", "sent", "append", "answer",
                           "done", "dead"}]
    BY <2>1 DEF ProcessEnds
  <2> QED
    BY <2>1, <2>2, <2>3 DEF ProcessEnds, gateway
<1>14. CASE UNCHANGED vars
  BY <1>14 DEF vars
<1> QED
  BY <1>1, <1>2, <1>3, <1>4, <1>5, <1>6, <1>7, <1>8, <1>9, <1>10, <1>11, <1>12,
     <1>13, <1>14 DEF Next, CallStep, GatewayAnswers, LifecycleStep

-----------------------------------------------------------------------------
\* What an event says stays true while its call and the gateway stand still.
LEMMA TrueEventFrame ==
  ASSUME NEW c \in Calls, TrueEvent(c), UNCHANGED <<request[c], event[c]>>,
         UNCHANGED <<sent[c], applied[c]>>
  PROVE  TrueEvent(c)'
BY DEF TrueEvent, CarriedOut, OwnToken

\* A step leaves alone every call whose own state it does not touch.
LEMMA CallFrame ==
  ASSUME NEW c \in Calls, GatewayInv(c), CallInv(c), RecordInv(c),
         UNCHANGED <<request[c], pc[c], event[c], answer[c], sent[c], applied[c]>>,
         c \in inflight <=> c \in inflight',
         Unexcused(c)' => Unexcused(c),
         Unexcused(c)' /\ Recorded(c) => Recorded(c)'
  PROVE  GatewayInv(c)' /\ CallInv(c)' /\ RecordInv(c)'
<1>1. Concluded(c)' => TrueEvent(c)'
  BY TrueEventFrame DEF Concluded, Early, CallInv
<1>3. Entitled(c)' <=> Entitled(c)
  BY DEF Entitled, OwnToken
<1>4. CallInv(c)'
  BY <1>1, <1>3 DEF CallInv, Early, AnswerTo, Writable
<1>5. GatewayInv(c)'
  BY <1>3 DEF GatewayInv, Early
<1>6. RecordInv(c)'
  BY DEF RecordInv, Early
<1> QED
  BY <1>4, <1>5, <1>6

\* An entry of the log stays as it is while its call stands still.
LEMMA EntryFrame ==
  ASSUME NEW i \in DOMAIN log, EntryInv(i), log'[i] = log[i],
         UNCHANGED <<request[log[i].call], pc[log[i].call], event[log[i].call],
                     answer[log[i].call], sent[log[i].call], applied[log[i].call]>>
  PROVE  EntryInv(i)'
<1> DEFINE c == log[i].call
<1>1. c \in Calls /\ TrueEvent(c)
  BY DEF EntryInv, TrueEvent, Events
<1>2. TrueEvent(c)'
  BY <1>1, TrueEventFrame
<1> QED
  BY <1>2 DEF EntryInv, Early

\* Steps that change no call, no log entry and nothing at the gateway.
LEMMA StillStep ==
  ASSUME IInv, TypeOK', UNCHANGED <<callVars, gateway, log>>,
         \A c \in Calls : Unexcused(c)' => Unexcused(c),
         StoreInv', DrainBeforeClose'
  PROVE  IInv'
<1> USE DEF IInv, callVars, gateway
<1>1. ASSUME NEW c \in Calls PROVE GatewayInv(c)' /\ CallInv(c)' /\ RecordInv(c)'
  BY <1>1, CallFrame DEF Recorded
<1>2. ASSUME NEW i \in DOMAIN log' PROVE EntryInv(i)'
  BY <1>2, EntryFrame
<1> QED
  BY <1>1, <1>2 DEF NoDuplicates

\* Steps of one call that is not in the log: what they must show is about that
\* call only.
LEMMA OneCallStep ==
  ASSUME IInv, TypeOK', NEW c \in Calls,
         pc[c] \notin {"answer", "done", "dead"},
         \A d \in Calls \ {c} :
           /\ UNCHANGED <<request[d], pc[d], event[d], answer[d], sent[d], applied[d]>>
           /\ d \in inflight <=> d \in inflight',
         UNCHANGED <<log, cancelled, store, outage, server, cause, drainAge>>,
         server = "serving" \/ Active(c),
         GatewayInv(c)' /\ CallInv(c)' /\ RecordInv(c)'
  PROVE  IInv'
<1> USE DEF IInv
<1>1. ASSUME NEW d \in Calls \ {c} PROVE GatewayInv(d)' /\ CallInv(d)' /\ RecordInv(d)'
  BY <1>1, CallFrame DEF Recorded, Unexcused, Alive
<1>2. ASSUME NEW i \in DOMAIN log' PROVE EntryInv(i)'
  <2>1. log[i].call \in Calls \ {c}
    BY <1>2 DEF EntryInv, TrueEvent, Events
  <2> QED
    BY <1>2, <2>1, EntryFrame
<1>3. StoreInv' /\ NoDuplicates'
  BY DEF StoreInv, NoDuplicates
<1>4. DrainBeforeClose'
  BY DEF DrainBeforeClose, Active
<1> QED
  BY <1>1, <1>2, <1>3, <1>4

\* Concluding a call with a true event.
LEMMA ConcludeStep ==
  ASSUME IInv, TypeOK', NEW c \in Calls, Active(c), pc[c] \notin {"append", "answer"},
         NEW a \in {Claims[b].subject : b \in DOMAIN Claims} \union {NoActor},
         NEW r \in {"allow", "deny", "error"}, Conclude(c, a, r),
         UNCHANGED <<sent, applied>>, inflight' \in {inflight, inflight \ {c}},
         r = "allow" => CarriedOut(c),
         r = "deny" => pc[c] = "verify",
         a # NoActor => Bearer(c) \in DOMAIN Claims /\ a = Subject(c)
  PROVE  IInv'
<1> USE DEF IInv, TypeOK
<1>0. request[c] \in Requests
  BY DEF CallInv, Active
<1>1. /\ pc' = [pc EXCEPT ![c] = "append"]
      /\ event' = [event EXCEPT ![c] = Event(c, a, r)]
      /\ Event(c, a, r) \in Events
      /\ UNCHANGED <<request, answer, cancelled, log, store, outage, server,
                     cause, drainAge>>
  BY <1>0, ConcludeType
<1>2. answer[c] = "none"
  BY DEF CallInv, Active
<1>3. /\ pc'[c] = "append" /\ answer'[c] = "none" /\ event'[c] \in Events
      /\ event'[c].call = c /\ event'[c].actor = a /\ event'[c].result = r
  BY <1>1, <1>2 DEF Event
<1>4. r = "deny" => sent'[c] = 0
  <2>1. GatewayInv(c) /\ sent[c] \in Nat
    OBVIOUS
  <2> QED
    BY <2>1 DEF GatewayInv
<1>5. a # NoActor =>
        \E b \in DOMAIN Claims : OwnToken(c, b)' /\ Claims[b].subject = a
  <2> SUFFICES ASSUME a # NoActor
               PROVE  OwnToken(c, Bearer(c)) /\ Claims[Bearer(c)].subject = a
    BY <1>1 DEF OwnToken
  <2> QED
    BY <1>0 DEF OwnToken, Bearer, ExtractBearer, Subject
<1>6. TrueEvent(c)'
  BY <1>1, <1>3, <1>4, <1>5 DEF TrueEvent, CarriedOut
<1>7. CallInv(c)'
  BY <1>0, <1>1, <1>3, <1>6 DEF CallInv, Concluded
<1>8. GatewayInv(c)'
  BY <1>1, <1>3 DEF GatewayInv, Early, EarlyAnswers, Entitled, OwnToken
<1>9. RecordInv(c)'
  BY <1>3 DEF RecordInv
<1> QED
  BY <1>1, <1>7, <1>8, <1>9, OneCallStep DEF Active

-----------------------------------------------------------------------------
\* A call that arrives has touched nothing, whether or not it is answered at once.
LEMMA ArriveStep ==
  ASSUME IInv, TypeOK', NEW c \in Calls, NEW r \in Requests, Arrive(c, r)
  PROVE  IInv'
<1> USE DEF IInv, TypeOK
<1>1. EarlyAnswer(r) \in EarlyAnswers \union {"none"} /\ "none" \notin EarlyAnswers
  BY DEF EarlyAnswer, EarlyAnswers
<1>2. sent'[c] = 0 /\ applied'[c] = 0 /\ c \notin inflight'
  <2>1. GatewayInv(c) /\ pc[c] = "new" /\ UNCHANGED <<sent, applied, inflight>>
    BY DEF Arrive, gateway
  <2>2. sent[c] \in Nat /\ applied[c] \in Nat
    OBVIOUS
  <2> QED
    BY <2>1, <2>2 DEF GatewayInv
<1>3. /\ pc'[c] = IF answer'[c] = "none" THEN "verify" ELSE "done"
      /\ answer'[c] = EarlyAnswer(r) /\ request'[c] = r
  BY DEF Arrive
<1>4. GatewayInv(c)' /\ CallInv(c)' /\ RecordInv(c)'
  BY <1>1, <1>2, <1>3 DEF GatewayInv, CallInv, RecordInv, Concluded, Early
<1> QED
  BY <1>4, OneCallStep DEF Arrive, gateway, auditStore, lifecycle

\* Only a call whose token carries the scopes goes on to the gateway.
LEMMA AcceptStep ==
  ASSUME IInv, TypeOK', NEW c \in Calls, AcceptToken(c)
  PROVE  IInv'
<1> USE DEF IInv, TypeOK
<1>1. CASE Conclude(c, Subject(c), "deny")
  BY <1>1, ConcludeStep DEF AcceptToken, Active, gateway, Subject
<1>2. CASE /\ Allowed(Claims[Bearer(c)].scopes, request[c].tool, Policy)
           /\ pc' = [pc EXCEPT ![c] = "invoke"]
           /\ UNCHANGED <<request, event, answer, cancelled, auditStore, lifecycle>>
  <2>1. request[c] \in Requests /\ answer[c] = "none" /\ sent[c] = 0
    BY DEF AcceptToken, CallInv, GatewayInv
  <2>2. OwnToken(c, Bearer(c))
    BY <2>1 DEF OwnToken, Bearer, ExtractBearer
  <2>3. Entitled(c)'
    BY <1>2, <2>2 DEF AcceptToken, Entitled, OwnToken
  <2>4. GatewayInv(c)' /\ CallInv(c)' /\ RecordInv(c)'
    BY <1>2, <2>1, <2>3 DEF AcceptToken, GatewayInv, CallInv, RecordInv, Concluded,
                           gateway
  <2> QED
    BY <1>2, <2>4, OneCallStep DEF AcceptToken, Active, gateway, auditStore, lifecycle
<1> QED
  BY <1>1, <1>2 DEF AcceptToken

\* What is sent is entitled.
LEMMA SendStep ==
  ASSUME IInv, TypeOK', NEW c \in Calls, SendToGateway(c)
  PROVE  IInv'
<1> USE DEF IInv, TypeOK
<1>1. Entitled(c) /\ answer[c] = "none" /\ request[c] \in Requests
  BY DEF SendToGateway, CallInv
<1>2. Entitled(c)'
  BY <1>1 DEF SendToGateway, Entitled, OwnToken
<1>3. GatewayInv(c)' /\ CallInv(c)' /\ RecordInv(c)'
  BY <1>1, <1>2 DEF SendToGateway, GatewayInv, CallInv, RecordInv, Concluded, Early,
                    EarlyAnswers
<1> QED
  BY <1>3, OneCallStep DEF SendToGateway, Active, auditStore, lifecycle

\* A reply to a request that is not the last: the call goes on as it is.
Continues(c) ==
  /\ GatewayReplies(c)
  /\ pc' = [pc EXCEPT ![c] = "invoke"]
  /\ UNCHANGED <<request, event, answer, cancelled, auditStore, lifecycle>>

LEMMA ContinueStep ==
  ASSUME IInv, TypeOK', NEW c \in Calls, Continues(c)
  PROVE  IInv'
<1> USE DEF IInv, TypeOK
<1>1. Entitled(c) /\ answer[c] = "none" /\ request[c] \in Requests /\ pc[c] = "sent"
  BY DEF Continues, GatewayReplies, CallInv
<1>2. Entitled(c)'
  BY <1>1 DEF Continues, Entitled, OwnToken
<1>3. GatewayInv(c)' /\ CallInv(c)' /\ RecordInv(c)'
  BY <1>1, <1>2 DEF Continues, GatewayReplies, GatewayInv, CallInv, RecordInv, Concluded,
                    Early, EarlyAnswers, gateway
<1> QED
  BY <1>1, <1>3, OneCallStep DEF Continues, GatewayReplies, Active, gateway, auditStore,
                                 lifecycle

\* The gateway may act when its call is long answered and recorded: only the
\* event of that call has to be looked at.
LEMMA ApplyStep ==
  ASSUME IInv, TypeOK', NEW c \in Calls, GatewayApplies(c)
  PROVE  IInv'
<1> USE DEF IInv, TypeOK
<1>1. ASSUME NEW d \in Calls, TrueEvent(d) PROVE TrueEvent(d)'
  <2>1. d # c \/ applied[d] < sent[d]
    BY DEF GatewayApplies, GatewayInv
  <2>2. CarriedOut(d) => CarriedOut(d)'
    BY <2>1 DEF CarriedOut, GatewayApplies, callVars
  <2> QED
    BY <1>1, <2>2 DEF GatewayApplies, TrueEvent, OwnToken, callVars
<1>2. ASSUME NEW d \in Calls PROVE GatewayInv(d)' /\ CallInv(d)' /\ RecordInv(d)'
  <2>1. Entitled(d)' <=> Entitled(d)
    BY DEF GatewayApplies, Entitled, OwnToken, callVars
  <2>2. Concluded(d)' => TrueEvent(d)'
    BY <1>1 DEF CallInv, Concluded, Early, GatewayApplies, callVars
  <2>3. GatewayInv(d)'
    BY <2>1 DEF GatewayApplies, GatewayInv, Early, callVars
  <2>4. CallInv(d)'
    BY <2>1, <2>2 DEF GatewayApplies, CallInv, Early, AnswerTo, Writable, callVars
  <2>5. RecordInv(d)'
    BY DEF GatewayApplies, RecordInv, Early, Unexcused, Recorded, Alive, callVars,
           auditStore, lifecycle
  <2> QED
    BY <2>3, <2>4, <2>5
<1>3. ASSUME NEW i \in DOMAIN log' PROVE EntryInv(i)'
  <2>1. log' = log /\ UNCHANGED callVars /\ EntryInv(i)
    BY <1>3 DEF GatewayApplies, auditStore
  <2>2. log[i].call \in Calls /\ TrueEvent(log[i].call)
    BY <1>3, <2>1 DEF EntryInv, TrueEvent, Events
  <2> QED
    BY <1>1, <2>1, <2>2 DEF EntryInv, Early, callVars
<1>4. NoDuplicates' /\ StoreInv' /\ DrainBeforeClose'
  BY DEF GatewayApplies, NoDuplicates, StoreInv, DrainBeforeClose, Active, callVars,
         auditStore, lifecycle
<1> QED
  BY <1>2, <1>3, <1>4

\* An append adds at most the event of its call, which was not in the log.
LEMMA AppendStep ==
  ASSUME IInv, TypeOK', NEW c \in Calls, AppendAudit(c)
  PROVE  IInv'
<1> USE DEF IInv, TypeOK
<1>1. /\ pc[c] = "append" /\ pc' = [pc EXCEPT ![c] = "answer"] /\ Alive
      /\ UNCHANGED <<request, event, answer, cancelled, sent, inflight, applied, store,
                     outage, server, cause, drainAge>>
  BY DEF AppendAudit, gateway, lifecycle
<1>2. \A d \in Calls : TrueEvent(d)' <=> TrueEvent(d)
  BY <1>1 DEF TrueEvent, CarriedOut, OwnToken
<1>3. TrueEvent(c) /\ answer[c] = "none"
  BY <1>1 DEF CallInv, Concluded
<1>4. \A i \in DOMAIN log : log[i].call # c /\ log[i].call \in Calls
  BY <1>1 DEF EntryInv, TrueEvent, Events
<1>5. /\ DOMAIN log \subseteq DOMAIN log'
      /\ \A i \in DOMAIN log : log'[i] = log[i]
      /\ \A i \in DOMAIN log' \ DOMAIN log : log'[i] = event[c] /\ i = Len(log) + 1
  <2>1. CASE log' = log
    BY <2>1
  <2>2. CASE log' = Append(log, event[c])
    BY <2>2, <1>3 DEF TrueEvent
  <2> QED
    BY <2>1, <2>2 DEF AppendAudit
<1>6. \A d \in Calls : Recorded(d) => Recorded(d)'
  BY <1>5 DEF Recorded
<1>7. ASSUME NEW d \in Calls \ {c} PROVE GatewayInv(d)' /\ CallInv(d)' /\ RecordInv(d)'
  BY <1>1, <1>6, <1>7, CallFrame DEF Unexcused, Alive
<1>8. GatewayInv(c)' /\ CallInv(c)'
  <2>1. Entitled(c)' <=> Entitled(c)
    BY <1>1 DEF Entitled, OwnToken
  <2> QED
    BY <1>1, <1>2, <1>3, <2>1 DEF GatewayInv, CallInv, Concluded, Early, EarlyAnswers
<1>9. RecordInv(c)'
  <2>1. CASE CanAppend(c)
    <3>1. log' = Append(log, event[c])
      BY <2>1 DEF AppendAudit
    <3>2. Len(log) + 1 \in DOMAIN log' /\ log'[Len(log) + 1].call = c
      BY <1>3, <3>1 DEF TrueEvent
    <3> QED
      BY <3>2 DEF RecordInv, Recorded
  <2>2. CASE ~CanAppend(c)
    BY <1>1, <2>2 DEF CanAppend, RecordInv, Unexcused, StoreInv
  <2> QED
    BY <2>1, <2>2
<1>10. ASSUME NEW i \in DOMAIN log' PROVE EntryInv(i)'
  <2>1. CASE i \in DOMAIN log
    BY <1>1, <1>4, <1>5, <2>1, EntryFrame
  <2>2. CASE i \notin DOMAIN log
    <3>1. log'[i] = event[c] /\ log'[i].call = c
      BY <1>3, <1>5, <1>10, <2>2 DEF TrueEvent
    <3> QED
      BY <1>1, <1>2, <1>3, <3>1 DEF EntryInv, Early, EarlyAnswers
  <2> QED
    BY <2>1, <2>2
<1>11. NoDuplicates'
  <2>1. event[c].call = c
    BY <1>3 DEF TrueEvent
  <2>2. \A i, j \in DOMAIN log : log[i].call = log[j].call => i = j
    BY DEF NoDuplicates
  <2> SUFFICES ASSUME NEW i \in DOMAIN log', NEW j \in DOMAIN log',
                      log'[i].call = log'[j].call
               PROVE  i = j
    BY DEF NoDuplicates
  <2>3. CASE i \in DOMAIN log /\ j \in DOMAIN log
    BY <1>5, <2>2, <2>3
  <2> QED
    BY <1>4, <1>5, <2>1, <2>3
<1>12. StoreInv' /\ DrainBeforeClose'
  BY <1>1 DEF StoreInv, DrainBeforeClose, Active
<1> QED
  BY <1>7, <1>8, <1>9, <1>10, <1>11, <1>12

\* The answer is the one the appended event stands for.
LEMMA AnswerStep ==
  ASSUME IInv, TypeOK', NEW c \in Calls, Answer(c)
  PROVE  IInv'
<1> USE DEF IInv, TypeOK
<1>1. /\ pc[c] = "answer" /\ pc' = [pc EXCEPT ![c] = "done"]
      /\ answer' = [answer EXCEPT ![c] = AnswerTo(c)]
      /\ UNCHANGED <<request, event, cancelled, sent, inflight, applied, log, store,
                     outage, server, cause, drainAge>>
  BY DEF Answer, gateway, auditStore, lifecycle
<1>2. \A d \in Calls : TrueEvent(d)' <=> TrueEvent(d)
  BY <1>1 DEF TrueEvent, CarriedOut, OwnToken
<1>3. TrueEvent(c) /\ request[c] \in Requests
  BY <1>1 DEF CallInv, Concluded
<1>4. AnswerTo(c) \in Decided /\ AnswerTo(c)' = AnswerTo(c)
  BY <1>1, <1>3 DEF TrueEvent, Events, AnswerTo, Writable, Refusal, Decided
<1>5. answer'[c] = AnswerTo(c)' /\ ~Early(c)' /\ answer'[c] # "none"
  BY <1>1, <1>4 DEF Early, EarlyAnswers, Decided
<1>6. ASSUME NEW d \in Calls \ {c} PROVE GatewayInv(d)' /\ CallInv(d)' /\ RecordInv(d)'
  BY <1>1, <1>6, CallFrame DEF Unexcused, Alive, Recorded
<1>7. GatewayInv(c)' /\ CallInv(c)' /\ RecordInv(c)'
  <2>1. Entitled(c)' <=> Entitled(c)
    BY <1>1 DEF Entitled, OwnToken
  <2> QED
    BY <1>1, <1>2, <1>3, <1>5, <2>1 DEF GatewayInv, CallInv, RecordInv, Concluded,
       Unexcused, Alive, Recorded
<1>8. ASSUME NEW i \in DOMAIN log' PROVE EntryInv(i)'
  <2>1. log[i].call \in Calls
    BY <1>1, <1>8 DEF EntryInv, TrueEvent, Events
  <2> QED
    BY <1>1, <1>2, <1>5, <1>8, <2>1 DEF EntryInv, Early
<1>9. StoreInv' /\ NoDuplicates' /\ DrainBeforeClose'
  BY <1>1 DEF StoreInv, NoDuplicates, DrainBeforeClose, Active
<1> QED
  BY <1>6, <1>7, <1>8, <1>9

\* The process ends: no call goes on, a memory log is gone.
LEMMA EndStep ==
  ASSUME IInv, TypeOK', Alive, ProcessEnds
  PROVE  IInv'
<1> USE DEF IInv, TypeOK
<1>1. /\ server' = "exited"
      /\ \A d \in Calls : pc'[d] = IF Active(d) THEN "dead" ELSE pc[d]
      /\ log' = IF SqlBackend THEN log ELSE <<>>
      /\ UNCHANGED <<request, event, answer, cancelled, sent, inflight, applied, store,
                     outage, cause, drainAge>>
  BY DEF ProcessEnds, gateway
<1>2. ASSUME NEW d \in Calls PROVE GatewayInv(d)' /\ CallInv(d)' /\ RecordInv(d)'
  <2>1. Entitled(d)' <=> Entitled(d)
    BY <1>1 DEF Entitled, OwnToken
  <2>2. TrueEvent(d)' <=> TrueEvent(d)
    BY <1>1 DEF TrueEvent, CarriedOut, OwnToken
  <2>3. GatewayInv(d)'
    BY <1>1, <2>1 DEF GatewayInv, Early
  <2>4. CallInv(d)'
    BY <1>1, <2>1, <2>2 DEF CallInv, Concluded, Early, Active, AnswerTo, Writable
  <2>5. RecordInv(d)'
    BY <1>1 DEF RecordInv, Unexcused, Alive, Early, Active, Recorded
  <2> QED
    BY <2>3, <2>4, <2>5
<1>3. ASSUME NEW i \in DOMAIN log' PROVE EntryInv(i)'
  <2>1. log' = log /\ EntryInv(i)
    BY <1>1, <1>3
  <2>2. log[i].call \in Calls
    BY <2>1 DEF EntryInv, TrueEvent, Events
  <2>3. TrueEvent(log[i].call)' <=> TrueEvent(log[i].call)
    BY <1>1, <2>1 DEF TrueEvent, CarriedOut, OwnToken
  <2> QED
    BY <1>1, <2>1, <2>2, <2>3 DEF EntryInv, Early, Active
<1>4. NoDuplicates' /\ StoreInv' /\ DrainBeforeClose'
  BY <1>1 DEF NoDuplicates, StoreInv, DrainBeforeClose
<1> QED
  BY <1>2, <1>3, <1>4

\* Cancelled requests, outages and the steps of a shutdown.
LEMMA EnvironmentStep ==
  ASSUME IInv, TypeOK',
         \/ \E c \in Calls : Cancel(c)
         \/ Outage \/ Recovery \/ Signal \/ ServeError
         \/ DrainTick \/ ShutdownReturns \/ CloseAudit
  PROVE  IInv'
<1> USE DEF IInv, TypeOK
<1>1. UNCHANGED <<callVars, gateway, log>>
  BY DEF Cancel, Outage, Recovery, Signal, ServeError, DrainTick, ShutdownReturns,
         CloseAudit, auditStore
<1>2. StoreInv'
  BY DEF Cancel, Outage, Recovery, Signal, ServeError, DrainTick, ShutdownReturns,
         CloseAudit, auditStore, StoreInv
<1>3. ASSUME NEW c \in Calls, Unexcused(c)' PROVE Unexcused(c)
  BY <1>3 DEF Unexcused, Alive, Cancel, Outage, Recovery, Signal, ServeError,
     DrainTick, ShutdownReturns, CloseAudit, auditStore, lifecycle
<1>4. DrainBeforeClose'
  <2>1. \A c \in Calls : Active(c)' <=> Active(c)
    BY <1>1 DEF Active, callVars
  <2>2. CASE ShutdownReturns
    BY <2>1, <2>2 DEF ShutdownReturns, DrainBeforeClose
  <2>3. CASE ServeError \/ Signal \/ DrainTick
    BY <2>3 DEF ServeError, Signal, DrainTick, DrainBeforeClose
  <2>4. CASE CloseAudit
    BY <2>1, <2>4 DEF CloseAudit, DrainBeforeClose
  <2>5. CASE UNCHANGED lifecycle
    BY <2>1, <2>5 DEF DrainBeforeClose, lifecycle
  <2> QED
    BY <2>2, <2>3, <2>4, <2>5 DEF Cancel, Outage, Recovery
<1> QED
  BY <1>1, <1>2, <1>3, <1>4, StillStep

\* The inductive step: one case per action of Next.
LEMMA StepInvariant == IInv /\ [Next]_vars => IInv'
<1> SUFFICES ASSUME IInv, [Next]_vars PROVE IInv'
  OBVIOUS
<1>0. TypeOK'
  BY StepType
<1>a. TypeOK /\ \A c \in Calls : CallInv(c)
  BY DEF IInv
<1>b. ASSUME NEW c \in Calls, pc[c] \in {"invoke", "sent"}
      PROVE  Bearer(c) \in DOMAIN Claims
  BY <1>a, <1>b DEF CallInv, Entitled, OwnToken, Bearer, ExtractBearer
<1>1. ASSUME NEW c \in Calls, NEW r \in Requests, Arrive(c, r) PROVE IInv'
  BY <1>0, <1>1, ArriveStep
<1>2. ASSUME NEW c \in Calls, RefuseToken(c) PROVE IInv'
  BY <1>0, <1>2, ConcludeStep DEF RefuseToken, Active, gateway
<1>3. ASSUME NEW c \in Calls, AcceptToken(c) PROVE IInv'
  BY <1>0, <1>3, AcceptStep
<1>4. ASSUME NEW c \in Calls,
             InvokeFails(c) \/ GatewayReplies(c) \/ GatewayRefuses(c) \/ CallFails(c)
      PROVE  IInv'
  <2>2. /\ Active(c) /\ pc[c] \in {"invoke", "sent"}
        /\ UNCHANGED <<sent, applied>> /\ inflight' \in {inflight, inflight \ {c}}
    BY <1>4 DEF InvokeFails, GatewayReplies, GatewayRefuses, CallFails, Active, gateway
  <2>3. Bearer(c) \in DOMAIN Claims /\ Subject(c) \in {Claims[b].subject : b \in DOMAIN Claims}
    BY <1>b, <2>2 DEF Subject
  <2>4. CASE Continues(c)
    BY <1>0, <2>4, ContinueStep
  <2>5. CASE ~Continues(c)
    <3>1. PICK res \in {"allow", "error"} :
            Conclude(c, Subject(c), res) /\ (res = "allow" => CarriedOut(c))
      BY <1>4, <2>5 DEF InvokeFails, GatewayReplies, GatewayRefuses, CallFails, Continues,
                        CarriedOut
    <3> QED
      BY <1>0, <3>1, <2>2, <2>3, ConcludeStep
  <2> QED
    BY <2>4, <2>5
<1>5. ASSUME NEW c \in Calls, SendToGateway(c) PROVE IInv'
  BY <1>0, <1>5, SendStep
<1>6. ASSUME NEW c \in Calls, AppendAudit(c) PROVE IInv'
  BY <1>0, <1>6, AppendStep
<1>7. ASSUME NEW c \in Calls, Answer(c) PROVE IInv'
  BY <1>0, <1>7, AnswerStep
<1>8. ASSUME NEW c \in Calls, GatewayApplies(c) PROVE IInv'
  BY <1>0, <1>8, ApplyStep
<1>9. CASE Kill \/ Exit
  BY <1>0, <1>9, EndStep DEF Kill, Exit, Alive
<1>10. CASE \/ \E c \in Calls : Cancel(c)
            \/ Outage \/ Recovery \/ Signal \/ ServeError
            \/ DrainTick \/ ShutdownReturns \/ CloseAudit
  BY <1>0, <1>10, EnvironmentStep
<1>11. CASE UNCHANGED vars
  <2>1. UNCHANGED <<callVars, gateway, log, cancelled, store, outage, server, cause,
                    drainAge>>
    BY <1>11 DEF vars, callVars, gateway
  <2>2. StoreInv' /\ DrainBeforeClose'
    BY <2>1 DEF IInv, StoreInv, DrainBeforeClose, Active, callVars
  <2> QED
    BY <1>0, <2>1, <2>2, StillStep DEF Unexcused, Alive
<1> QED
  BY <1>1, <1>2, <1>3, <1>4, <1>5, <1>6, <1>7, <1>8, <1>9, <1>10, <1>11
     DEF Next, CallStep, GatewayAnswers, LifecycleStep

-----------------------------------------------------------------------------
\* Every reachable state satisfies the inductive invariant.
THEOREM Invariance == Spec => []IInv
BY InitInvariant, StepInvariant, PTL DEF Spec

\* Every variable has its type.
THEOREM TypeCorrect == Spec => []TypeOK
<1>1. IInv => TypeOK
  BY DEF IInv
<1> QED
  BY Invariance, <1>1, PTL

\* Only calls whose own token carries the scopes reach the gateway.
THEOREM Entitlement == Spec => []OnlyEntitledCallsReachGateway
<1>1. IInv => OnlyEntitledCallsReachGateway
  BY DEF IInv, GatewayInv, Entitled, OnlyEntitledCallsReachGateway
<1> QED
  BY Invariance, <1>1, PTL

\* The audit log agrees with what the gateway did.
THEOREM TruthfulLog == Spec => []AuditMatchesGateway
<1>1. IInv => AuditMatchesGateway
  BY DEF IInv, EntryInv, TrueEvent, AuditMatchesGateway
<1> QED
  BY Invariance, <1>1, PTL

\* So do the answers.
THEOREM TruthfulAnswers == Spec => []AnswerMatchesGateway
<1>1. ASSUME IInv PROVE AnswerMatchesGateway
  <2> SUFFICES ASSUME NEW c \in Calls
               PROVE  /\ answer[c] \in {"ok", "empty"} => CarriedOut(c)
                      /\ answer[c] \in EarlyAnswers \union {"unauthorized", "forbidden"}
                           => sent[c] = 0
    BY DEF AnswerMatchesGateway
  <2>1. GatewayInv(c) /\ CallInv(c)
    BY <1>1 DEF IInv
  <2>2. CASE Early(c)
    BY <1>1, <2>1, <2>2 DEF GatewayInv, Early, EarlyAnswers, IInv, TypeOK
  <2>3. CASE ~Early(c) /\ pc[c] = "done"
    <3>1. TrueEvent(c) /\ answer[c] = AnswerTo(c)
      BY <2>1, <2>3 DEF CallInv, Concluded
    <3> QED
      BY <2>3, <3>1 DEF TrueEvent, Events, AnswerTo, Refusal, Early
  <2>4. CASE ~Early(c) /\ pc[c] # "done"
    BY <2>1, <2>4 DEF CallInv, Early
  <2> QED
    BY <2>2, <2>3, <2>4
<1> QED
  BY Invariance, <1>1, PTL

\* No call is recorded twice, and its record is what its caller was told, but for
\* the MCP caller whose result cannot be written.
THEOREM FaithfulRecords == Spec => []OneTrueEventPerCall
<1>1. ASSUME IInv PROVE OneTrueEventPerCall
  <2>1. \A i, j \in DOMAIN log : log[i].call = log[j].call => i = j
    BY <1>1 DEF IInv, NoDuplicates
  <2>2. ASSUME NEW i \in DOMAIN log
        PROVE  /\ answer[log[i].call] \notin EarlyAnswers
               /\ answer[log[i].call] # "none" =>
                    log[i].result \in ResultsOf(log[i].call)
    <3>1. EntryInv(i)
      BY <1>1, <2>2 DEF IInv
    <3>2. log[i].call \in Calls /\ log[i] \in Events
      BY <3>1 DEF EntryInv, TrueEvent, Events
    <3>3. CallInv(log[i].call)
      BY <1>1, <3>2 DEF IInv
    <3> QED
      BY <3>1, <3>2, <3>3 DEF EntryInv, CallInv, Early, AnswerTo, Refusal, ResultsOf, Events
  <2> QED
    BY <2>1, <2>2 DEF OneTrueEventPerCall
<1> QED
  BY Invariance, <1>1, PTL

\* An event names the holder of the token the call ran under.
THEOREM Attribution == Spec => []EventsNameTheCaller
<1>1. IInv => EventsNameTheCaller
  BY DEF IInv, EntryInv, TrueEvent, EventsNameTheCaller
<1> QED
  BY Invariance, <1>1, PTL

\* An answered call is recorded, but for the three excuses.
THEOREM Recording == Spec => []AnsweredCallsAreRecorded
<1>1. ASSUME IInv PROVE AnsweredCallsAreRecorded
  <2> SUFFICES ASSUME NEW c \in Calls, Unexcused(c),
                      answer[c] \in Decided
               PROVE  Recorded(c)
    BY DEF AnsweredCallsAreRecorded, Unexcused
  <2>1. CallInv(c) /\ RecordInv(c)
    BY <1>1 DEF IInv
  <2> QED
    BY <2>1 DEF CallInv, RecordInv, Early, EarlyAnswers, Decided
<1> QED
  BY Invariance, <1>1, PTL

\* The store is closed under running calls only after a full drain or a listener
\* failure.
THEOREM DrainFirst == Spec => []DrainBeforeClose
<1>1. IInv => DrainBeforeClose
  BY DEF IInv
<1> QED
  BY Invariance, <1>1, PTL

=============================================================================
