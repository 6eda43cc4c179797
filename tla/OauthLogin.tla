----------------------------- MODULE OauthLogin -----------------------------
(***************************************************************************)
(* The start of the stdio server: bootstrap/app.go RunStdio and                *)
(* infrastructure/oauthlogin (login.go, dcr.go).  A local HTTP server waits    *)
(* for the browser to come back with a code; its handlers hand what they got    *)
(* to Login through a channel of one place that is read once.                   *)
(*                                                                           *)
(* Anybody on the machine may request the callback, any number of times, also   *)
(* while the code is being exchanged.  Serve runs before the first request: a    *)
(* login that ends earlier ends the process.                                     *)
(***************************************************************************)
EXTENDS Naturals, Sequences

CONSTANTS
  Visits,        \* requests to the callback, one handler goroutine each
  Codes, NoCode, \* authorization codes, an absent code
  Tokens,        \* what the access_token of an answer may be, also empty
  Configured,    \* BOOLEAN: a static bearer is configured
  NoToken, NoVisit,  \* no answer with a token yet or at all, no request
  DrainLimit     \* the 2 s the callback server is given to end, in ticks

ASSUME LoginAssumption ==
  /\ Configured \in BOOLEAN /\ DrainLimit \in Nat
  /\ NoCode \notin Codes /\ NoToken \notin Tokens /\ NoVisit \notin Visits

VARIABLES
  pc,           \* where Login is
  cancelled,    \* the context of the process was cancelled
  query,        \* what each request brings, NoVisit before it comes
  handler,      \* where its handler is
  codeCh,       \* the channel, a sequence of the requests whose result is in it
  received,     \* the request whose result Login took
  accepting,    \* the callback server accepts requests
  drainAge,     \* ticks since its Shutdown began
  token,        \* MCP.StaticBearer
  first         \* history: the request whose result came first into the channel

vars == <<pc, cancelled, query, handler, codeCh, received, accepting, drainAge,
          token, first>>
visits == <<query, handler, codeCh, first>>

Queries == [error : BOOLEAN, ours : BOOLEAN, code : Codes \union {NoCode}]

Ended == pc \in {"ready", "failed"}

Init ==
  /\ pc = "start" /\ cancelled = FALSE
  /\ query = [v \in Visits |-> NoVisit]
  /\ handler = [v \in Visits |-> "none"]
  /\ codeCh = <<>> /\ received = NoVisit /\ first = NoVisit
  /\ accepting = FALSE /\ drainAge = 0 /\ token = NoToken

-----------------------------------------------------------------------------
\* A configured bearer needs no login; otherwise the listener is opened and, if
\* no client id is configured, one is registered.
RunStdio ==
  /\ pc = "start"
  /\ pc' \in IF Configured THEN {"ready"} ELSE {"register", "prepare", "failed"}
  /\ UNCHANGED <<cancelled, visits, received, accepting, drainAge, token>>

\* Whatever the registration answers with 200 or 201 and parses is taken for a
\* client id.
RegisterClient ==
  /\ pc = "register"
  /\ pc' \in {"prepare", "failed"}
  /\ UNCHANGED <<cancelled, visits, received, accepting, drainAge, token>>

\* PKCE and state are drawn, the callback server runs, the browser is opened.
OpenBrowser ==
  /\ pc = "prepare"
  /\ \/ pc' = "wait" /\ accepting' = TRUE
     \/ pc' = "failed" /\ UNCHANGED accepting
  /\ UNCHANGED <<cancelled, visits, received, drainAge, token>>

Visit(v, q) ==
  /\ accepting /\ handler[v] = "none"
  /\ query' = [query EXCEPT ![v] = q]
  /\ handler' = [handler EXCEPT ![v] = "send"]
  /\ UNCHANGED <<pc, cancelled, codeCh, received, accepting, drainAge, token, first>>

\* The places of codeCh.
Capacity == 1

\* Mutant of CallbackError: the state is not compared.
AnyStateError(q) == q.error \/ q.code = NoCode

\* What the handler makes of a request: an error it names, a state that is not
\* this login's and an absent code are errors.
CallbackError(q) == q.error \/ ~q.ours \/ q.code = NoCode

\* codeCh <- result: blocks while the channel is full.
SendResult(v) ==
  /\ pc # "failed" /\ handler[v] = "send" /\ Len(codeCh) < Capacity
  /\ codeCh' = Append(codeCh, v)
  /\ handler' = [handler EXCEPT ![v] = "write"]
  /\ first' = IF first = NoVisit THEN v ELSE first
  /\ UNCHANGED <<pc, cancelled, query, received, accepting, drainAge, token>>

\* Mutant of WritePage: the server is closed, not shut down.
WritePageWhileOpen(v) ==
  /\ accepting /\ handler[v] = "write"
  /\ handler' = [handler EXCEPT ![v] = "done"]
  /\ UNCHANGED <<pc, cancelled, query, codeCh, received, accepting, drainAge, token, first>>

\* The page is written and the handler returns.
WritePage(v) ==
  /\ pc # "failed" /\ handler[v] = "write"
  /\ handler' = [handler EXCEPT ![v] = "done"]
  /\ UNCHANGED <<pc, cancelled, query, codeCh, received, accepting, drainAge, token, first>>

\* Login returns: the deferred Shutdown closes the listener and waits.
Finish(t) ==
  /\ pc' = "shutdown" /\ accepting' = FALSE
  /\ token' = t

\* Mutant of ReceiveResult: a failed callback is passed over.
ReceiveCode ==
  /\ pc = "wait" /\ codeCh # <<>>
  /\ codeCh' = Tail(codeCh)
  /\ IF CallbackError(query[Head(codeCh)])
     THEN UNCHANGED <<pc, received, accepting, token>>
     ELSE received' = Head(codeCh) /\ pc' = "exchange" /\ UNCHANGED <<accepting, token>>
  /\ UNCHANGED <<cancelled, query, handler, first, drainAge>>

\* The select takes the first result; an error in it ends the login.
ReceiveResult ==
  /\ pc = "wait" /\ codeCh # <<>>
  /\ codeCh' = Tail(codeCh)
  /\ received' = Head(codeCh)
  /\ IF CallbackError(query[Head(codeCh)])
     THEN Finish(NoToken)
     ELSE pc' = "exchange" /\ UNCHANGED <<accepting, token>>
  /\ UNCHANGED <<cancelled, query, handler, first, drainAge>>

\* The select may take the cancellation also when a result is there.
ContextDone ==
  /\ pc = "wait" /\ cancelled
  /\ Finish(NoToken)
  /\ UNCHANGED <<cancelled, visits, received, drainAge>>

\* A 200 that parses yields a token, which is not looked at: the server becomes
\* ready with an empty one too.  Everything else, the client's timeout and a
\* cancelled context are errors.
ExchangeCode ==
  /\ pc = "exchange"
  /\ \E t \in Tokens \union {NoToken} : Finish(t)
  /\ UNCHANGED <<cancelled, visits, received, drainAge>>

DrainTick ==
  /\ pc = "shutdown" /\ drainAge < DrainLimit
  /\ drainAge' = drainAge + 1
  /\ UNCHANGED <<pc, cancelled, visits, received, accepting, token>>

Busy(v) == handler[v] \in {"send", "write"}

\* Mutant of ShutdownReturns: the handlers are waited for without a limit.
ShutdownWaits ==
  /\ pc = "shutdown" /\ \A v \in Visits : ~Busy(v)
  /\ pc' = IF token = NoToken THEN "failed" ELSE "ready"
  /\ UNCHANGED <<cancelled, visits, received, accepting, drainAge, token>>

\* Shutdown returns when no handler is left or its time is over.  RunStdio goes
\* on to serve, or returns the error and main panics.
ShutdownReturns ==
  /\ pc = "shutdown"
  /\ drainAge = DrainLimit \/ \A v \in Visits : ~Busy(v)
  /\ pc' = IF token = NoToken THEN "failed" ELSE "ready"
  /\ UNCHANGED <<cancelled, visits, received, accepting, drainAge, token>>

\* SIGINT or SIGTERM.
Cancel ==
  /\ ~cancelled /\ ~Ended
  /\ cancelled' = TRUE
  /\ UNCHANGED <<pc, visits, received, accepting, drainAge, token>>

LoginStep ==
  \/ RunStdio \/ RegisterClient \/ OpenBrowser
  \/ ReceiveResult \/ ContextDone \/ ExchangeCode
  \/ DrainTick \/ ShutdownReturns

HandlerStep(v) == SendResult(v) \/ WritePage(v)

Next ==
  \/ LoginStep
  \/ \E v \in Visits, q \in Queries : Visit(v, q)
  \/ \E v \in Visits : HandlerStep(v)
  \/ Cancel

Spec == Init /\ [][Next]_vars

(***************************************************************************)
(* Goroutines are scheduled, the exchange has a timeout, the shutdown's clock  *)
(* runs.  The browser need not come back and nobody need cancel.                *)
(***************************************************************************)
FairSpec == Spec /\ WF_vars(LoginStep) /\ \A v \in Visits : WF_vars(HandlerStep(v))
-----------------------------------------------------------------------------
\* The variables keep their types; the channel never holds two results.
TypeOK ==
  /\ pc \in {"start", "register", "prepare", "wait", "exchange", "shutdown",
             "ready", "failed"}
  /\ cancelled \in BOOLEAN /\ accepting \in BOOLEAN
  /\ query \in [Visits -> Queries \union {NoVisit}]
  /\ handler \in [Visits -> {"none", "send", "write", "done"}]
  /\ codeCh = <<>> \/ \E v \in Visits : codeCh = <<v>>
  /\ received \in Visits \union {NoVisit} /\ first \in Visits \union {NoVisit}
  /\ drainAge \in 0..DrainLimit
  /\ token \in Tokens \union {NoToken}

\* What is exchanged is a code that came back with the state of this login, and a
\* server that is ready after a login got its token for such a code.
OnlyOwnCodeIsExchanged ==
  pc = "exchange" \/ (token # NoToken) =>
    /\ received # NoVisit
    /\ query[received].ours /\ ~query[received].error /\ query[received].code # NoCode

\* The first result decides: after a first callback that failed no later one can
\* save the login, and after a good one no later one can spoil it.
FirstCallbackDecides ==
  /\ received \in {NoVisit, first}
  /\ token # NoToken => ~CallbackError(query[first])

\* Login comes to an end once it is cancelled or any callback has come, also when
\* a third handler is blocked for good on the channel.
LoginEnds ==
  cancelled \/ (\E v \in Visits : handler[v] # "none") ~> Ended

\* The browser that brought the first result gets its page, although Login may
\* have ended before it is written, unless the process ended.
FirstVisitIsAnswered ==
  \A v \in Visits : first = v ~> handler[v] = "done" \/ pc = "failed"

=============================================================================
