-------------------------- MODULE ToolInvocation --------------------------
(***************************************************************************)
(* A tool call from its arrival to its answer: the admin and the MCP handler *)
(* (interfaces/http/handlers/handlers.go, interfaces/mcp/server.go), the use  *)
(* case (application/invoke/service.go), the audit store it writes to, the     *)
(* gateway it changes, and the life of the process that serves it               *)
(* (bootstrap/app.go Run and cleanup).                                         *)
(*                                                                           *)
(* Most tools are one request to the gateway; tune_upstream_timeout reads the   *)
(* metrics, reads the upstream and writes it, each request after the reply to    *)
(* the one before (gatewayclient/latency_tools.go).                               *)
(*                                                                           *)
(* Token verification is seen as TokenVerifier promises it: a genuine token   *)
(* may be accepted, any token may be refused (its keys may be out of reach).   *)
(***************************************************************************)
EXTENDS Authorize, Naturals, Sequences

CONSTANTS
  Calls,          \* the tool calls that may arrive, one handler goroutine each
  Requests,       \* what a call may ask, see RequestsAssumption
  Claims,         \* the claims of every genuine bearer: subject and scopes
  NoBearer,       \* no Authorization header, or no static bearer
  StaticBearer,   \* Server.StaticBearer: stands in for a missing header
  Policy,         \* auth.required_scopes and auth.tool_scope_map
  SqlBackend,     \* audit.backend is sqlite or postgres, not stdout
  DrainLimit,     \* the 5 s that Shutdown may wait, in ticks
  NoRequest, NoActor

ASSUME RequestsAssumption ==
  /\ \A r \in Requests : /\ r.transport \in {"admin", "mcp"}
                          /\ r.exchanges \in 1..3 /\ r.finite \in BOOLEAN
  /\ NoRequest \notin Requests
  /\ NoBearer \notin DOMAIN Claims
  /\ \A b \in DOMAIN Claims : Claims[b].subject # NoActor

ASSUME BackendAssumption == SqlBackend \in BOOLEAN /\ DrainLimit \in Nat

VARIABLES
  pc,          \* where the goroutine of each call is
  request,     \* of each call: transport, header, tool, whether its body is
               \* decodable, the exchanges with the gateway it asks for at most
               \* and whether its numeric options are finite
  cancelled,   \* the calls whose request context was cancelled
  event,       \* the audit event a call is about to append
  answer,      \* what its handler wrote, "none" before
  sent,        \* how many requests each call has sent to the gateway
  inflight,    \* the calls whose latest request the gateway has not handled
  applied,     \* how many requests of each call the gateway has carried out
  log,         \* the audit log
  store,       \* "up", "down" (an outage of the database) or "closed"
  outage,      \* history: the store was down at some time
  server,      \* the life of the process
  cause,       \* why Run ended: "none", "signal" or "serve_error"
  drainAge     \* ticks since Shutdown began

callVars   == <<pc, request, event, answer>>
gateway    == <<sent, inflight, applied>>
auditStore == <<log, store, outage>>
lifecycle  == <<server, cause, drainAge>>
vars == <<pc, request, cancelled, event, answer, sent, inflight, applied, log,
          store, outage, server, cause, drainAge>>

EarlyAnswers == {"challenge", "bad_request"}

\* What a call is answered once the use case has returned.
Decided == {"unauthorized", "forbidden", "failed", "ok", "empty"}

Active(c) == pc[c] \in {"verify", "invoke", "sent", "append", "answer"}
Alive     == server # "exited"

Init ==
  /\ pc = [c \in Calls |-> "new"]
  /\ request = [c \in Calls |-> NoRequest]
  /\ cancelled = {}
  /\ event = [c \in Calls |-> <<>>]
  /\ answer = [c \in Calls |-> "none"]
  /\ sent = [c \in Calls |-> 0] /\ inflight = {} /\ applied = [c \in Calls |-> 0]
  /\ log = <<>> /\ store = "up" /\ outage = FALSE
  /\ server = "serving" /\ cause = "none" /\ drainAge = 0

-----------------------------------------------------------------------------
\* Mutant of ExtractBearer: the static bearer comes first.
StaticBearerFirst(r) ==
  IF r.transport = "mcp" /\ StaticBearer # NoBearer THEN StaticBearer ELSE r.header

\* extractBearer for an MCP call; the admin handler passes the header as it is.
ExtractBearer(r) ==
  IF r.transport = "mcp" /\ r.header = NoBearer THEN StaticBearer ELSE r.header

\* StreamableHTTPHandler challenges a caller it has no bearer for, and both
\* handlers give up on a body they cannot decode, before the call is known to
\* the use case.
EarlyAnswer(r) ==
  IF r.transport = "mcp" /\ ExtractBearer(r) = NoBearer THEN "challenge"
  ELSE IF ~r.decodable THEN "bad_request" ELSE "none"

Arrive(c, r) ==
  /\ server = "serving"
  /\ pc[c] = "new"
  /\ request' = [request EXCEPT ![c] = r]
  /\ answer' = [answer EXCEPT ![c] = EarlyAnswer(r)]
  /\ pc' = [pc EXCEPT ![c] = IF EarlyAnswer(r) = "none" THEN "verify" ELSE "done"]
  /\ UNCHANGED <<cancelled, event, gateway, auditStore, lifecycle>>

\* The request context ends: the caller is gone.
Cancel(c) ==
  /\ Alive /\ Active(c)
  /\ cancelled' = cancelled \union {c}
  /\ UNCHANGED <<callVars, gateway, auditStore, lifecycle>>

Event(c, actor, result) ==
  [call |-> c, actor |-> actor, tool |-> request[c].tool, result |-> result]

\* The use case has decided how the call ends; what is left is to record it.
Conclude(c, actor, result) ==
  /\ event' = [event EXCEPT ![c] = Event(c, actor, result)]
  /\ pc' = [pc EXCEPT ![c] = "append"]
  /\ UNCHANGED <<request, answer, cancelled, auditStore, lifecycle>>

\* Mutant of Subject: every call runs in the name of the server.
ServerSubject(c) == Claims[StaticBearer].subject

Bearer(c)  == ExtractBearer(request[c])
Subject(c) == Claims[Bearer(c)].subject

\* Mutant of RefuseToken: a call without a valid token is not recorded.
RefuseTokenUnlogged(c) ==
  /\ Alive /\ pc[c] = "verify"
  /\ event' = [event EXCEPT ![c] = Event(c, NoActor, "deny")]
  /\ pc' = [pc EXCEPT ![c] = "answer"]
  /\ UNCHANGED <<request, answer, cancelled, gateway, auditStore, lifecycle>>

\* VerifyBearer fails.
RefuseToken(c) ==
  /\ Alive /\ pc[c] = "verify"
  /\ Conclude(c, NoActor, "deny")
  /\ UNCHANGED gateway

\* VerifyBearer yields the claims, and Check decides on them.
AcceptToken(c) ==
  /\ Alive /\ pc[c] = "verify"
  /\ Bearer(c) \in DOMAIN Claims
  /\ IF Allowed(Claims[Bearer(c)].scopes, request[c].tool, Policy)
     THEN /\ pc' = [pc EXCEPT ![c] = "invoke"]
          /\ UNCHANGED <<request, event, answer, cancelled, auditStore, lifecycle>>
     ELSE Conclude(c, Subject(c), "deny")
  /\ UNCHANGED gateway

\* The gateway client refuses the arguments, or a tune finds no single series or
\* no upstream in what it has read.
InvokeFails(c) ==
  /\ Alive /\ pc[c] = "invoke"
  /\ Conclude(c, Subject(c), "error")
  /\ UNCHANGED gateway

\* A request whose context is already cancelled is not sent.
SendToGateway(c) ==
  /\ Alive /\ pc[c] = "invoke" /\ c \notin cancelled
  /\ pc' = [pc EXCEPT ![c] = "sent"]
  /\ sent' = [sent EXCEPT ![c] = @ + 1]
  /\ inflight' = inflight \union {c}
  /\ UNCHANGED <<request, event, answer, cancelled, applied, auditStore, lifecycle>>

\* The gateway carries out what it received, whether or not the caller still
\* waits for it.
GatewayApplies(c) ==
  /\ c \in inflight
  /\ inflight' = inflight \ {c}
  /\ applied' = [applied EXCEPT ![c] = @ + 1]
  /\ UNCHANGED <<callVars, sent, cancelled, auditStore, lifecycle>>

\* Mutant of GatewayRefuses: the status of the answer is not looked at.
GatewayRefusalAllowed(c) ==
  /\ Alive /\ pc[c] = "sent" /\ c \in inflight
  /\ inflight' = inflight \ {c}
  /\ Conclude(c, Subject(c), "allow")
  /\ UNCHANGED <<sent, applied>>

\* An answer with status >= 400: nothing was changed.
GatewayRefuses(c) ==
  /\ Alive /\ pc[c] = "sent" /\ c \in inflight
  /\ inflight' = inflight \ {c}
  /\ Conclude(c, Subject(c), "error")
  /\ UNCHANGED <<sent, applied>>

\* The reply to a request that was carried out: the next request follows, or the
\* call is done, after its last request or when a tune finds nothing to tune.
GatewayReplies(c) ==
  /\ Alive /\ pc[c] = "sent" /\ applied[c] = sent[c]
  /\ \/ /\ sent[c] < request[c].exchanges
        /\ pc' = [pc EXCEPT ![c] = "invoke"]
        /\ UNCHANGED <<request, event, answer, cancelled, auditStore, lifecycle>>
     \/ /\ sent[c] \in {1, request[c].exchanges}
        /\ Conclude(c, Subject(c), "allow")
  /\ UNCHANGED gateway

\* Mutant of CallFails: a call that got no answer is recorded as denied.
CallFailsDenied(c) ==
  /\ Alive /\ pc[c] = "sent"
  /\ Conclude(c, Subject(c), "deny")
  /\ UNCHANGED gateway

\* Mutant of CallFails: a client without a timeout.
CallFailsWhenCancelled(c) ==
  /\ Alive /\ pc[c] = "sent" /\ c \in cancelled
  /\ Conclude(c, Subject(c), "error")
  /\ UNCHANGED gateway

\* The reply is lost, unreadable or late, or the context is cancelled: an error,
\* whatever the gateway did or will do with the request.
CallFails(c) ==
  /\ Alive /\ pc[c] = "sent"
  /\ Conclude(c, Subject(c), "error")
  /\ UNCHANGED gateway

\* Append: memory takes every event, a database none of a cancelled request and
\* none while it is down or closed.  InvokeTool ignores the error.
CanAppend(c) == SqlBackend => store = "up" /\ c \notin cancelled

AppendAudit(c) ==
  /\ Alive /\ pc[c] = "append"
  /\ log' = IF CanAppend(c) THEN Append(log, event[c]) ELSE log
  /\ pc' = [pc EXCEPT ![c] = "answer"]
  /\ UNCHANGED <<request, event, answer, cancelled, gateway, store, outage, lifecycle>>

\* Whether the result of c can be written as JSON.  Options that are not numbers
\* or not finite are part of it, except when a tune found nothing to tune.
Writable(c) == request[c].finite \/ sent[c] < request[c].exchanges

Refusal(e) == IF e.actor = NoActor THEN "unauthorized" ELSE "forbidden"

\* Mutant of AnswerTo: an error is answered like a success.
AnswerToLenient(c) == IF event[c].result = "deny" THEN Refusal(event[c]) ELSE "ok"

\* How the handlers map the result of InvokeTool: 200, 500, 401 or 403.  A result
\* that cannot be written is an error of the MCP call, and an empty 200 of the
\* admin handler, which does not look at the encoder's error.
AnswerTo(c) ==
  CASE event[c].result = "allow" -> IF Writable(c) THEN "ok"
                                    ELSE IF request[c].transport = "mcp" THEN "failed"
                                    ELSE "empty"
    [] event[c].result = "error" -> "failed"
    [] event[c].result = "deny"  -> Refusal(event[c])

Answer(c) ==
  /\ Alive /\ pc[c] = "answer"
  /\ answer' = [answer EXCEPT ![c] = AnswerTo(c)]
  /\ pc' = [pc EXCEPT ![c] = "done"]
  /\ UNCHANGED <<request, event, cancelled, gateway, auditStore, lifecycle>>

-----------------------------------------------------------------------------
\* The database goes away and comes back, as far as the process can see it.
Outage ==
  /\ Alive /\ SqlBackend /\ store = "up"
  /\ store' = "down" /\ outage' = TRUE
  /\ UNCHANGED <<callVars, cancelled, gateway, log, lifecycle>>

Recovery ==
  /\ Alive /\ store = "down"
  /\ store' = "up"
  /\ UNCHANGED <<callVars, cancelled, gateway, log, outage, lifecycle>>

\* Mutant of Signal: the signal is noted and nobody acts on it.
SignalNoted ==
  /\ server = "serving"
  /\ cause' = "signal"
  /\ UNCHANGED <<callVars, cancelled, gateway, auditStore, server, drainAge>>

\* SIGINT or SIGTERM: Run calls Shutdown, which closes the listener and waits.
Signal ==
  /\ server = "serving"
  /\ server' = "draining" /\ cause' = "signal"
  /\ UNCHANGED <<callVars, cancelled, gateway, auditStore, drainAge>>

DrainTick ==
  /\ server = "draining" /\ drainAge < DrainLimit
  /\ drainAge' = drainAge + 1
  /\ UNCHANGED <<callVars, cancelled, gateway, auditStore, server, cause>>

\* Mutant of ShutdownReturns: the listener is closed and nobody waits.
ShutdownReturnsAtOnce ==
  /\ server = "draining"
  /\ server' = "stopped"
  /\ UNCHANGED <<callVars, cancelled, gateway, auditStore, cause, drainAge>>

\* Shutdown returns when no call is left or its 5 s are over.
ShutdownReturns ==
  /\ server = "draining"
  /\ drainAge = DrainLimit \/ \A c \in Calls : ~Active(c)
  /\ server' = "stopped"
  /\ UNCHANGED <<callVars, cancelled, gateway, auditStore, cause, drainAge>>

\* ListenAndServe fails while calls may be running: Run returns at once.
ServeError ==
  /\ server = "serving"
  /\ server' = "stopped" /\ cause' = "serve_error"
  /\ UNCHANGED <<callVars, cancelled, gateway, auditStore, drainAge>>

\* The deferred cleanup; calls that are still running go on without a store.
CloseAudit ==
  /\ server = "stopped"
  /\ server' = "closed"
  /\ store' = IF SqlBackend THEN "closed" ELSE store
  /\ UNCHANGED <<callVars, cancelled, gateway, log, outage, cause, drainAge>>

\* The process ends, with the goroutines and the memory store in it.
ProcessEnds ==
  /\ server' = "exited"
  /\ pc' = [c \in Calls |-> IF Active(c) THEN "dead" ELSE pc[c]]
  /\ log' = IF SqlBackend THEN log ELSE <<>>
  /\ UNCHANGED <<request, event, answer, cancelled, gateway, store, outage, cause,
                 drainAge>>

Exit == server = "closed" /\ ProcessEnds
Kill == Alive /\ ProcessEnds

CallStep(c) ==
  \/ RefuseToken(c) \/ AcceptToken(c)
  \/ InvokeFails(c) \/ SendToGateway(c) \/ CallFails(c)
  \/ AppendAudit(c) \/ Answer(c)

GatewayAnswers(c) == GatewayReplies(c) \/ GatewayRefuses(c)

LifecycleStep ==
  DrainTick \/ ShutdownReturns \/ CloseAudit \/ Exit

Next ==
  \/ \E c \in Calls, r \in Requests : Arrive(c, r)
  \/ \E c \in Calls :
       Cancel(c) \/ CallStep(c) \/ GatewayApplies(c) \/ GatewayAnswers(c)
  \/ Outage \/ Recovery
  \/ Signal \/ ServeError \/ Kill
  \/ LifecycleStep

Spec == Init /\ [][Next]_vars

(***************************************************************************)
(* Every goroutine is scheduled and every wait for the gateway has a timeout  *)
(* (CallFails), the shutdown's clock runs; callers, the gateway, the database  *)
(* and signals owe nothing.  Every step of a call moves its pc, and every step  *)
(* of the shutdown the lifecycle.                                               *)
(***************************************************************************)
Fairness ==
  /\ \A c \in Calls : WF_pc(CallStep(c))
  /\ WF_lifecycle(LifecycleStep)

FairSpec == Spec /\ Fairness
-----------------------------------------------------------------------------
Events == [call : Calls, actor : {Claims[b].subject : b \in DOMAIN Claims} \union {NoActor},
           tool : {r.tool : r \in Requests}, result : {"allow", "deny", "error"}]

\* Types.  Every event in the log is complete.
TypeOK ==
  /\ pc \in [Calls -> {"new", "verify", "invoke", "sent", "append", "answer",
                       "done", "dead"}]
  /\ request \in [Calls -> Requests \union {NoRequest}]
  /\ cancelled \subseteq Calls
  /\ event \in [Calls -> Events \union {<<>>}]
  /\ answer \in [Calls -> EarlyAnswers \union Decided \union {"none"}]
  /\ sent \in [Calls -> Nat] /\ inflight \subseteq Calls /\ applied \in [Calls -> Nat]
  /\ log \in Seq(Events)
  /\ store \in {"up", "down", "closed"} /\ outage \in BOOLEAN
  /\ server \in {"serving", "draining", "stopped", "closed", "exited"}
  /\ cause \in {"none", "signal", "serve_error"}
  /\ drainAge \in 0..DrainLimit

(***************************************************************************)
(* The identity a call runs under, as its caller would state it: its own      *)
(* token if it sent one, whatever that token is worth; the operator's static   *)
(* token only for an MCP call without one.                                     *)
(***************************************************************************)
OwnToken(c, b) ==
  \/ request[c].header = b
  \/ request[c].header = NoBearer /\ request[c].transport = "mcp" /\ b = StaticBearer

\* Nothing reaches the gateway but a call whose own token carries the scopes of
\* the policy and of the tool, also when replies are late and calls are cut off.
OnlyEntitledCallsReachGateway ==
  \A c \in Calls : sent[c] > 0 =>
    \E b \in DOMAIN Claims :
      OwnToken(c, b) /\ Allowed(Claims[b].scopes, request[c].tool, Policy)

\* All that a call asked for was carried out: its last request and every one before,
\* or the first one when there was nothing to tune.
CarriedOut(c) == applied[c] = sent[c] /\ sent[c] \in {1, request[c].exchanges}

\* The log does not lie about the gateway: "allow" was carried out, the last of its
\* requests included, and of "deny" nothing was ever sent.
AuditMatchesGateway ==
  \A i \in DOMAIN log :
    /\ log[i].result = "allow" => CarriedOut(log[i].call)
    /\ log[i].result = "deny" => sent[log[i].call] = 0

\* A caller who gets a success had his operation carried out, one who is told that
\* he may not was not served behind his back.
AnswerMatchesGateway ==
  \A c \in Calls :
    /\ answer[c] \in {"ok", "empty"} => CarriedOut(c)
    /\ answer[c] \in EarlyAnswers \union {"unauthorized", "forbidden"} => sent[c] = 0

\* What may be on record of a call that was answered.
ResultsOf(c) ==
  CASE answer[c] \in {"ok", "empty"} -> {"allow"}
    [] answer[c] = "failed" -> IF request[c].transport = "mcp" /\ ~Writable(c)
                               THEN {"error", "allow"} ELSE {"error"}
    [] OTHER -> {"deny"}

\* No call is recorded twice, and what is recorded is what the caller was told; only
\* an MCP caller whose result cannot be written is told of an error although the
\* call is on record as allowed.
OneTrueEventPerCall ==
  /\ \A i, j \in DOMAIN log : log[i].call = log[j].call => i = j
  /\ \A i \in DOMAIN log :
       LET c == log[i].call
       IN  /\ answer[c] \notin EarlyAnswers
           /\ answer[c] # "none" => log[i].result \in ResultsOf(c)

\* An event with an actor names the holder of the call's own token.
EventsNameTheCaller ==
  \A i \in DOMAIN log :
    log[i].actor # NoActor =>
      \E b \in DOMAIN Claims :
        OwnToken(log[i].call, b) /\ Claims[b].subject = log[i].actor

Recorded(c) == \E i \in DOMAIN log : log[i].call = c

\* A call whose decision was answered is in the log, unless the caller had left,
\* the database was away, or the process was going down.
AnsweredCallsAreRecorded ==
  \A c \in Calls :
    /\ answer[c] \in Decided
    /\ SqlBackend => c \notin cancelled /\ ~outage /\ store # "closed"
    /\ SqlBackend \/ Alive
    => Recorded(c)

\* The audit store is closed under running calls only if the listener failed or
\* they outlived the whole drain.
DrainBeforeClose ==
  server \in {"stopped", "closed"} /\ (\E c \in Calls : Active(c)) =>
    cause = "serve_error" \/ drainAge = DrainLimit

\* Every call is answered, or ends with the process: as none begins twice, there is
\* a time after which none is under way.
CallsReturn == <>[](\A c \in Calls : ~Active(c))

\* A shutdown completes, whatever the calls in flight do.
ShutdownCompletes == cause # "none" ~> server = "exited"

(***************************************************************************)
(* What the README claims and the code does not keep.                         *)
(***************************************************************************)
\* README.md:16: every tool call is recorded.  Here only for the calls that
\* changed the gateway and were answered while the store was in order.
EveryAppliedCallIsRecorded ==
  \A c \in Calls :
    applied[c] > 0 /\ answer[c] # "none" /\ ~outage /\ store = "up" => Recorded(c)

=============================================================================
