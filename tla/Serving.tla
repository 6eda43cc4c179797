------------------------------ MODULE Serving ------------------------------
(***************************************************************************)
(* The server put together: the calls of ToolInvocation, verified by the      *)
(* cached verifier of JwksCache in place of the promise they are modelled      *)
(* against (bootstrap/app.go New: one Verifier in one invoke.Service).          *)
(*                                                                           *)
(* The goroutine of a call verifies its own token, so the calls are the        *)
(* workers of the cache.  Nothing is kept once the process has ended.  Time      *)
(* passes while a call waits for keys or for the gateway, each wait bounded by     *)
(* the timeout of its client; a tune waits for the gateway up to three times.       *)
(***************************************************************************)
EXTENDS Naturals, Sequences

CONSTANTS
  Calls, Requests, NoBearer, StaticBearer, Policy, SqlBackend, DrainLimit,
  NoRequest, NoActor,
  Documents, IndexKid, NoKid, Issuer, Audience, Unset, NoToken,
  Lifetimes, RefreshInterval, FetchTimeout,
  GatewayTimeout,  \* the ticks an exchange with the gateway may last
  MaxExchanges,    \* the exchanges that a call may take, three at most
  TokenOf,     \* the token every bearer string is, NoBearer included
  ClaimsOf,    \* the subject and the scopes it states
  Genuine      \* the bearers that some published document makes valid

VARIABLES
  pc, request, cancelled, event, answer, sent, inflight, applied, log, store, outage,
  server, cause, drainAge,
  published, lastServed, cachedOctHS, cacheAge,
  verifying,   \* where the goroutine of each call is in VerifyBearer
  token, expiresIn, body, keys, fetchAge, outcome,
  exchangeAge, \* ticks since the request was sent that each call waits for
  servedAge    \* history: lastServed with a cap that covers a whole call

Cache == INSTANCE JwksCache WITH
           Workers <- Calls,
           Tokens  <- {TokenOf[b] : b \in DOMAIN TokenOf},
           pc      <- verifying

GenuineClaims == [b \in Genuine |-> ClaimsOf[b]]

Call == INSTANCE ToolInvocation WITH Claims <- GenuineClaims

ASSUME ServingAssumption ==
  /\ RefreshInterval \in Nat \ {0} /\ FetchTimeout \in Nat /\ DrainLimit \in Nat
  /\ GatewayTimeout \in Nat /\ MaxExchanges \in 1..3
  /\ Lifetimes \subseteq Nat \union {Cache!NeverExpires}
  /\ NoBearer \in DOMAIN TokenOf /\ TokenOf[NoBearer].shape = "missing_bearer"
  /\ StaticBearer \in DOMAIN TokenOf
  /\ \A r \in Requests : /\ r.header \in DOMAIN TokenOf /\ r.transport \in {"admin", "mcp"}
                          /\ r.exchanges \in 1..MaxExchanges /\ r.finite \in BOOLEAN
  /\ NoRequest \notin Requests /\ SqlBackend \in BOOLEAN
  /\ \A b \in DOMAIN ClaimsOf : ClaimsOf[b].subject # NoActor
  /\ \A b \in DOMAIN TokenOf : TokenOf[b].shape \in Cache!ParseErrors \union {"jwt"}
  /\ DOMAIN ClaimsOf = DOMAIN TokenOf
  /\ Genuine =
       {b \in DOMAIN TokenOf :
          /\ TokenOf[b].shape = "jwt"
          /\ \E d \in Documents :
               "ok" \in Cache!Verdicts(TokenOf[b], Cache!DecodeDocument(d), Cache!NeverExpires)}

callVars == <<pc, request, cancelled, event, answer, sent, inflight, applied, log,
              store, outage, server, cause, drainAge>>
cacheVars == <<published, lastServed, cachedOctHS, cacheAge, verifying, token,
               expiresIn, body, keys, fetchAge, outcome>>
ages == <<exchangeAge, servedAge>>
vars == <<callVars, cacheVars, ages>>

\* The longest that the keys of a call may matter: its last request is sent after
\* all its other exchanges.
Horizon == Cache!Staleness + (MaxExchanges - 1) * GatewayTimeout

Init ==
  /\ Call!Init /\ Cache!Init
  /\ exchangeAge = [c \in Calls |-> 0]
  /\ servedAge = [d \in Documents |-> IF d = published THEN 0 ELSE Horizon]

Token(c) == TokenOf[Call!Bearer(c)]

-----------------------------------------------------------------------------
\* InvokeTool hands its bearer to VerifyBearer.
BeginVerify(c) ==
  /\ Call!Alive /\ pc[c] = "verify"
  /\ outcome[c] = "none"
  /\ \E left \in Lifetimes : Cache!VerifyBearer(c, Token(c), left)
  /\ UNCHANGED <<callVars, ages>>

VerifierStep(c) ==
  /\ Call!Alive
  /\ Cache!Step(c)
  /\ UNCHANGED <<callVars, ages>>

\* The JWKS endpoint answers; or it does not, answers rubbish or the caller
\* leaves, for the fetch runs in the context of the request.
FetchEnds(c) ==
  /\ Call!Alive
  /\ Cache!ServeJWKS(c) \/ Cache!FetchFails(c)
  /\ UNCHANGED <<callVars, ages>>

Returned(c) == verifying[c] = "idle" /\ outcome[c] # "none"

\* InvokeTool goes on with the claims of the token, whatever they are worth.
UseClaims(c) ==
  LET claims == ClaimsOf[Call!Bearer(c)]
  IN  /\ IF Call!Allowed(claims.scopes, request[c].tool, Policy)
         THEN /\ pc' = [pc EXCEPT ![c] = "invoke"]
              /\ UNCHANGED <<request, event, answer, cancelled, log, store, outage,
                             server, cause, drainAge>>
         ELSE Call!Conclude(c, claims.subject, "deny")
      /\ UNCHANGED <<sent, inflight, applied>>

\* What VerifyBearer returned has been read.
Consumed(c) ==
  /\ outcome' = [outcome EXCEPT ![c] = "none"]
  /\ UNCHANGED <<published, lastServed, cachedOctHS, cacheAge, verifying, token,
                 expiresIn, body, keys, fetchAge, ages>>

\* Mutant of Verified: a call goes on as long as nothing speaks against its token.
VerifiedOrUnknown(c) ==
  /\ Call!Alive /\ pc[c] = "verify" /\ Returned(c)
  /\ IF outcome[c] \in {"ok", "fetch_failed"} THEN UseClaims(c) ELSE Call!RefuseToken(c)
  /\ Consumed(c)

\* VerifyBearer has returned: without an error its claims are checked.
Verified(c) ==
  /\ Call!Alive /\ pc[c] = "verify" /\ Returned(c)
  /\ IF outcome[c] = "ok" THEN UseClaims(c) ELSE Call!RefuseToken(c)
  /\ Consumed(c)

\* What a call does before and after its verification.  A wait for the gateway
\* begins or ends, if there is one.
CallStep(c) ==
  /\ \/ Call!InvokeFails(c) \/ Call!SendToGateway(c) \/ Call!CallFails(c)
     \/ Call!AppendAudit(c) \/ Call!Answer(c)
  /\ exchangeAge' = [exchangeAge EXCEPT ![c] = 0]
  /\ UNCHANGED <<cacheVars, servedAge>>

GatewayAnswers(c) ==
  /\ Call!GatewayAnswers(c)
  /\ exchangeAge' = [exchangeAge EXCEPT ![c] = 0]
  /\ UNCHANGED <<cacheVars, servedAge>>

Surroundings ==
  /\ \/ \E c \in Calls, r \in Requests : Call!Arrive(c, r)
     \/ \E c \in Calls : Call!Cancel(c) \/ Call!GatewayApplies(c)
     \/ Call!Outage \/ Call!Recovery \/ Call!Signal \/ Call!ServeError \/ Call!Kill
  /\ UNCHANGED <<cacheVars, ages>>

LifecycleStep == Call!LifecycleStep /\ UNCHANGED <<cacheVars, ages>>

Rotate(d) ==
  /\ Call!Alive /\ Cache!Rotate(d)
  /\ servedAge' = [servedAge EXCEPT ![d] = 0]
  /\ UNCHANGED <<callVars, exchangeAge>>

\* Between its verdict and its first request, and between a reply and its next
\* request, a call only computes.
Computing(c) == Returned(c) \/ pc[c] = "invoke"

\* The client's timeout ends an exchange before it outlives GatewayTimeout.
MayWait(c) == pc[c] = "sent" => exchangeAge[c] < GatewayTimeout

Tick ==
  /\ Call!Alive
  /\ \A c \in Calls : ~Computing(c) /\ MayWait(c)
  /\ Cache!Tick
  /\ exchangeAge' = [c \in Calls |->
       IF pc[c] = "sent" THEN exchangeAge[c] + 1 ELSE exchangeAge[c]]
  /\ servedAge' = [d \in Documents |->
       IF d = published THEN 0
       ELSE IF servedAge[d] < Horizon THEN servedAge[d] + 1 ELSE Horizon]
  /\ UNCHANGED callVars

OwnStep(c) == BeginVerify(c) \/ VerifierStep(c) \/ Verified(c) \/ CallStep(c)

Next ==
  \/ \E c \in Calls : OwnStep(c) \/ FetchEnds(c) \/ GatewayAnswers(c)
  \/ Surroundings
  \/ LifecycleStep
  \/ \E d \in Documents : Rotate(d)
  \/ Tick

Spec == Init /\ [][Next]_vars

-----------------------------------------------------------------------------
(***************************************************************************)
(* The calls behave as ToolInvocation says although their verifier caches,     *)
(* races and times out: what holds of the one holds of the server.              *)
(***************************************************************************)
ImplementsToolInvocation == Call!Spec

SecretsFor(c, d) == Cache!SelectSecrets(Cache!DecodeDocument(d), Token(c).kid)

\* A key that was withdrawn changes nothing for long: a request is sent to the
\* gateway for a caller whose key was served within an interval and a fetch, and
\* within one exchange more for each request the same call has sent before.
WithdrawnKeysReachNothing ==
  [][\A c \in Calls : sent'[c] > sent[c] =>
       \E d \in Documents :
         /\ servedAge[d] < Cache!Staleness + sent[c] * GatewayTimeout
         /\ Token(c).secret \in SecretsFor(c, d)]_vars

\* A caller with the right scopes, whose key is the same in every document of that
\* time, is turned away only if its token expired or no keys could be fetched.
SettledCallersAreServed ==
  [][\A c \in Calls :
       /\ pc[c] = "verify" /\ pc'[c] = "append"
       /\ Token(c).shape = "jwt"
       /\ Token(c).iss = Issuer /\ Audience \in Token(c).aud
       /\ Call!Allowed(ClaimsOf[Call!Bearer(c)].scopes, request[c].tool, Policy)
       /\ \A d \in Cache!Window : SecretsFor(c, d) = {Token(c).secret}
       => outcome[c] \in {"fetch_failed", "token_expired"}]_vars

=============================================================================
