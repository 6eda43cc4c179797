-------------------------- MODULE OauthLoginProofs --------------------------
(***************************************************************************)
(* Proofs about OauthLogin for any number of callbacks and codes and any       *)
(* drain limit: which code is exchanged, and which callback decides.            *)
(*                                                                           *)
(* The invariant follows the first result from the channel to Login: while       *)
(* Login has received nothing, what is in the channel is the first result, and   *)
(* what it received stays the request it was.                                    *)
(***************************************************************************)
EXTENDS OauthLogin, TLAPS

\* A request that has a handler keeps what it brought.
Brought(v) == handler[v] # "none" => query[v] \in Queries

\* The results, in the order they came.
Order ==
  /\ first = NoVisit => codeCh = <<>> /\ received = NoVisit
  /\ first # NoVisit => handler[first] # "none"
  /\ received \in {NoVisit, first}
  /\ first # NoVisit /\ received = NoVisit => codeCh = <<first>>

\* How far Login is tells what it has received.
Decision ==
  /\ pc \in {"start", "register", "prepare", "wait"} => received = NoVisit /\ token = NoToken
  /\ pc = "exchange" \/ token # NoToken => received # NoVisit /\ ~CallbackError(query[received])

Inv == TypeOK /\ (\A v \in Visits : Brought(v)) /\ Order /\ Decision

USE LoginAssumption DEF LoginAssumption

\* No callback has come and nothing was received.
LEMMA InitInv == Init => Inv
<1> SUFFICES ASSUME Init PROVE Inv
  OBVIOUS
<1>1. TypeOK
  <2>1. cancelled \in BOOLEAN /\ accepting \in BOOLEAN
    BY DEF Init
  <2>2. drainAge \in 0..DrainLimit
    BY DEF Init
  <2>3. /\ query \in [Visits -> Queries \union {NoVisit}]
        /\ handler \in [Visits -> {"none", "send", "write", "done"}]
    BY DEF Init
  <2> QED
    BY <2>1, <2>2, <2>3 DEF Init, TypeOK
<1>2. (\A v \in Visits : Brought(v)) /\ Order /\ Decision
  BY DEF Init, Brought, Order, Decision
<1> QED
  BY <1>1, <1>2 DEF Inv

\* A result is sent only into an empty channel.
LEMMA SentToEmpty ==
  ASSUME TypeOK, NEW v \in Visits, SendResult(v)
  PROVE  codeCh = <<>> /\ codeCh' = <<v>>
<1>1. ASSUME NEW o \in Visits, codeCh = <<o>> PROVE FALSE
  BY <1>1 DEF SendResult, Capacity
<1>2. codeCh = <<>>
  BY <1>1 DEF TypeOK
<1> QED
  BY <1>2 DEF SendResult

\* Every step keeps the types.
LEMMA TypeStep == Inv /\ [Next]_vars => TypeOK'
<1> SUFFICES ASSUME Inv, [Next]_vars PROVE TypeOK'
  OBVIOUS
<1> USE DEF Inv, TypeOK, visits, Finish
<1>1. CASE RunStdio \/ RegisterClient \/ OpenBrowser \/ Cancel
  BY <1>1 DEF RunStdio, RegisterClient, OpenBrowser, Cancel
<1>2. CASE ReceiveResult
  <2>1. PICK v \in Visits : codeCh = <<v>>
    BY <1>2 DEF ReceiveResult
  <2>2. Head(codeCh) = v /\ Tail(codeCh) = <<>>
    BY <2>1
  <2> QED
    BY <1>2, <2>2 DEF ReceiveResult
<1>3. CASE ContextDone \/ ExchangeCode
  BY <1>3 DEF ContextDone, ExchangeCode
<1>4. CASE DrainTick
  <2>1. drainAge' \in 0..DrainLimit
    BY <1>4 DEF DrainTick
  <2> QED
    BY <1>4, <2>1 DEF DrainTick
<1>5. CASE ShutdownReturns
  BY <1>5 DEF ShutdownReturns
<1>6. ASSUME NEW v \in Visits, NEW q \in Queries, Visit(v, q) PROVE TypeOK'
  BY <1>6 DEF Visit
<1>7. ASSUME NEW v \in Visits, SendResult(v) PROVE TypeOK'
  <2>1. codeCh' = <<v>>
    BY <1>7, SentToEmpty
  <2> QED
    BY <1>7, <2>1 DEF SendResult
<1>8. ASSUME NEW v \in Visits, WritePage(v) PROVE TypeOK'
  BY <1>8 DEF WritePage
<1>9. CASE UNCHANGED vars
  BY <1>9 DEF vars
<1> QED
  BY <1>1, <1>2, <1>3, <1>4, <1>5, <1>6, <1>7, <1>8, <1>9
     DEF Next, LoginStep, HandlerStep

\* The invariant is inductive.
LEMMA NextInv == Inv /\ [Next]_vars => Inv'
<1> SUFFICES ASSUME Inv, [Next]_vars PROVE Inv'
  OBVIOUS
<1>0. TypeOK'
  BY TypeStep
<1> USE <1>0 DEF Inv
<1>1. CASE RunStdio \/ RegisterClient \/ OpenBrowser \/ Cancel \/ DrainTick
           \/ ShutdownReturns \/ UNCHANGED vars
  <2>1. UNCHANGED <<query, handler, codeCh, first, received, token>>
    BY <1>1 DEF RunStdio, RegisterClient, OpenBrowser, Cancel, DrainTick,
                ShutdownReturns, visits, vars
  <2>2. (\A v \in Visits : Brought(v)') /\ Order'
    BY <2>1 DEF Brought, Order
  <2>3. /\ pc' = "exchange" => pc = "exchange"
        /\ pc' \in {"start", "register", "prepare", "wait"} =>
             pc \in {"start", "register", "prepare", "wait"}
    BY <1>1 DEF RunStdio, RegisterClient, OpenBrowser, Cancel, DrainTick,
                ShutdownReturns, vars
  <2>4. Decision'
    BY <2>1, <2>3 DEF Decision
  <2> QED
    BY <2>2, <2>4
<1>2. CASE ReceiveResult
  <2>1. /\ received = NoVisit /\ token = NoToken /\ codeCh = <<first>>
        /\ first # NoVisit /\ first \in Visits
    BY <1>2 DEF ReceiveResult, Decision, Order, TypeOK
  <2>2. Head(codeCh) = first /\ Tail(codeCh) = <<>>
    BY <2>1
  <2>3. /\ received' = first /\ codeCh' = <<>>
        /\ UNCHANGED <<query, handler, first>> /\ token' = NoToken
        /\ pc' = IF CallbackError(query[first]) THEN "shutdown" ELSE "exchange"
    BY <1>2, <2>1, <2>2 DEF ReceiveResult, Finish
  <2> QED
    BY <2>1, <2>3 DEF Brought, Order, Decision
<1>3. CASE ContextDone
  BY <1>3 DEF ContextDone, Finish, visits, Brought, Order, Decision
<1>4. CASE ExchangeCode
  BY <1>4 DEF ExchangeCode, Finish, visits, Brought, Order, Decision
<1>5. ASSUME NEW v \in Visits, NEW q \in Queries, Visit(v, q) PROVE Inv'
  <2>1. /\ UNCHANGED <<pc, codeCh, received, token, first>> /\ handler[v] = "none"
        /\ \A o \in Visits : o # v => query'[o] = query[o] /\ handler'[o] = handler[o]
        /\ query'[v] = q /\ handler'[v] = "send"
    BY <1>5 DEF Visit, TypeOK
  <2>2. received # NoVisit => received \in Visits /\ received # v
    BY <2>1 DEF Order, TypeOK
  <2>3. first # NoVisit => first \in Visits
    BY DEF TypeOK
  <2>4. \A o \in Visits : Brought(o)'
    BY <2>1 DEF Brought
  <2>5. Order'
    BY <2>1, <2>3 DEF Order
  <2>6. Decision'
    BY <2>1, <2>2 DEF Decision
  <2> QED
    BY <2>4, <2>5, <2>6
<1>6. ASSUME NEW v \in Visits, SendResult(v) PROVE Inv'
  <2>1. /\ codeCh = <<>> /\ codeCh' = <<v>>
        /\ first' = IF first = NoVisit THEN v ELSE first
        /\ UNCHANGED <<pc, query, received, token>>
        /\ handler[v] = "send"
        /\ \A o \in Visits : handler'[o] = IF o = v THEN "write" ELSE handler[o]
    BY <1>6, SentToEmpty DEF SendResult, TypeOK
  <2>2. first # NoVisit => first \in Visits
    BY DEF TypeOK
  <2>3. \A o \in Visits : Brought(o)'
    BY <2>1 DEF Brought
  <2>4. Order'
    BY <2>1, <2>2 DEF Order
  <2>5. Decision'
    BY <2>1 DEF Decision
  <2> QED
    BY <2>3, <2>4, <2>5
<1>7. ASSUME NEW v \in Visits, WritePage(v) PROVE Inv'
  <2>1. /\ UNCHANGED <<pc, query, codeCh, received, token, first>> /\ handler[v] = "write"
        /\ \A o \in Visits : handler'[o] = IF o = v THEN "done" ELSE handler[o]
    BY <1>7 DEF WritePage, TypeOK
  <2> QED
    BY <2>1 DEF Brought, Order, Decision, TypeOK
<1> QED
  BY <1>1, <1>2, <1>3, <1>4, <1>5, <1>6, <1>7 DEF Next, LoginStep, HandlerStep

\* The invariant holds in every reachable state.
THEOREM Invariance == Spec => []Inv
BY InitInv, NextInv, PTL DEF Spec

\* The variables keep their types and the channel its one place.
THEOREM TypeCorrect == Spec => []TypeOK
<1>1. Inv => TypeOK
  BY DEF Inv
<1> QED
  BY <1>1, Invariance, PTL

\* Whatever callbacks come and in whatever order, a code that is exchanged came
\* back with the state of this login, and so did the one a token was got for.
THEOREM OwnCode == Spec => []OnlyOwnCodeIsExchanged
<1>1. Inv => OnlyOwnCodeIsExchanged
  BY DEF Inv, Decision, OnlyOwnCodeIsExchanged, CallbackError
<1> QED
  BY <1>1, Invariance, PTL

\* The first result decides the login, for any number of callbacks.
THEOREM FirstDecides == Spec => []FirstCallbackDecides
<1>1. Inv => FirstCallbackDecides
  BY DEF Inv, Order, Decision, FirstCallbackDecides
<1> QED
  BY <1>1, Invariance, PTL

=============================================================================
