--------------------------- MODULE ServingProofs ---------------------------
(***************************************************************************)
(* Proofs about Serving for any calls, tokens, documents, policy and times:    *)
(* its calls implement ToolInvocation, no withdrawn key sends anything to the   *)
(* gateway, and no settled caller is turned away.  What is proved of the cache   *)
(* in JwksCacheProofs is used as it stands.                                      *)
(***************************************************************************)
EXTENDS Serving, TLAPS

Proved == INSTANCE JwksCacheProofs WITH
            Workers <- Calls,
            Tokens  <- {TokenOf[b] : b \in DOMAIN TokenOf},
            pc      <- verifying

\* A verdict that the keys of one recent document support.
Judged(c, v) ==
  \E d \in Cache!Window : \E left \in Nat \union {Cache!NeverExpires} :
    v \in Cache!Verdicts(Token(c), Cache!DecodeDocument(d), left)

\* The goroutine of a call verifies the token of that call, once it has arrived.
TokenInv(c) ==
  /\ pc[c] = "new" => verifying[c] = "idle" /\ outcome[c] = "none"
  /\ pc[c] # "new" => request[c] \in Requests
  /\ verifying[c] # "idle" => token[c] = Token(c) /\ Token(c).shape = "jwt"

\* A verdict rests on a recent document until it is read.
VerdictInv(c) ==
  pc[c] = "verify" /\ Returned(c) =>
    IF Token(c).shape = "jwt" THEN outcome[c] = "fetch_failed" \/ Judged(c, outcome[c])
                              ELSE outcome[c] = Token(c).shape

CallInv ==
  /\ DOMAIN pc = Calls /\ DOMAIN request = Calls
  /\ \A c \in Calls : TokenInv(c) /\ VerdictInv(c)

\* How long after its key was served a call may send its request after n others.
Allowance(n) == Cache!Staleness + n * GatewayTimeout

\* The two ages of a document agree as far as the cache looks back.
AgesInv ==
  /\ sent \in [Calls -> Nat] /\ exchangeAge \in [Calls -> Nat]
  /\ servedAge \in [Documents -> Nat]
  /\ \A d \in Documents :
       lastServed[d] < Cache!Staleness => servedAge[d] <= lastServed[d]

\* Document d bears call c, with the part of its time that c has not used up.
Borne(c, d) ==
  /\ Token(c).secret \in SecretsFor(c, d)
  /\ pc[c] = "invoke" => servedAge[d] < Allowance(sent[c])
  /\ pc[c] = "sent" => servedAge[d] + GatewayTimeout < Allowance(sent[c]) + exchangeAge[c]

\* A call that talks to the gateway is borne by a document and waits no longer than
\* its client's timeout.
HeldInv(c) ==
  /\ pc[c] = "sent" => exchangeAge[c] <= GatewayTimeout
  /\ pc[c] \in {"invoke", "sent"} => \E d \in Documents : Borne(c, d)

TimeInv == AgesInv /\ \A c \in Calls : HeldInv(c)

IInv == Proved!IInv /\ CallInv /\ TimeInv

-----------------------------------------------------------------------------
\* The assumptions of the cache hold of the server.
LEMMA TimeAssumed == Proved!TimeAssumption
BY ServingAssumption DEF Proved!TimeAssumption, Proved!NeverExpires, Cache!NeverExpires

LEMMA TokensAssumed == Proved!TokensAssumption
BY ServingAssumption DEF Proved!TokensAssumption, Proved!ParseErrors, Cache!ParseErrors

LEMMA CacheInvariant == Proved!IInv /\ [Proved!Next]_(Proved!vars) => Proved!IInv'
BY TimeAssumed, TokensAssumed, Proved!StepType, Proved!StepPublished, Proved!StepCache,
   Proved!StepHeld DEF Proved!IInv

\* The two instances of the cache speak of the same things.
LEMMA SameWindow == Cache!Window = Proved!Window
BY DEF Cache!Window, Proved!Window, Cache!Staleness, Proved!Staleness

LEMMA SameVerdicts ==
  ASSUME NEW t, NEW d, NEW left
  PROVE  Proved!Verdicts(t, Proved!DecodeDocument(d), left)
           = Cache!Verdicts(t, Cache!DecodeDocument(d), left)
<1>1. Proved!DecodeDocument(d) = Cache!DecodeDocument(d)
  BY DEF Proved!DecodeDocument, Cache!DecodeDocument, Proved!KidAt, Cache!KidAt
<1>2. ASSUME NEW ks PROVE Proved!SelectSecrets(ks, t.kid) = Cache!SelectSecrets(ks, t.kid)
  BY DEF Proved!SelectSecrets, Cache!SelectSecrets, Proved!Range, Cache!Range
<1>3. ASSUME NEW s PROVE Proved!Verdict(t, s, left) = Cache!Verdict(t, s, left)
  BY DEF Proved!Verdict, Cache!Verdict
<1> QED
  BY <1>1, <1>2, <1>3 DEF Proved!Verdicts, Cache!Verdicts

LEMMA SameInit == Cache!Init => Proved!Init
BY DEF Cache!Init, Proved!Init, Cache!Staleness, Proved!Staleness, Cache!NoKeys,
       Proved!NoKeys, Cache!NeverExpires, Proved!NeverExpires, Cache!NoDocument,
       Proved!NoDocument

LEMMA SameBegin ==
  ASSUME NEW c, NEW t, NEW left
  PROVE  Cache!VerifyBearer(c, t, left) = Proved!VerifyBearer(c, t, left)
BY DEF Cache!VerifyBearer, Proved!VerifyBearer, Cache!Goto, Proved!Goto,
       Cache!environment, Proved!environment, Cache!cache, Proved!cache

\* A step of the verifier of a call is the same step in both instances.
LEMMA SameSteps ==
  ASSUME NEW c \in Calls, Cache!Step(c) \/ Cache!ServeJWKS(c) \/ Cache!FetchFails(c)
  PROVE  Proved!Step(c) \/ Proved!ServeJWKS(c) \/ Proved!FetchFails(c)
<1>0. ASSUME NEW v PROVE Cache!Return(c, v) = Proved!Return(c, v)
  BY DEF Cache!Return, Proved!Return, Cache!Goto, Proved!Goto, Cache!NoKeys,
         Proved!NoKeys, Cache!NeverExpires, Proved!NeverExpires, Cache!NoDocument,
         Proved!NoDocument
<1> USE DEF Cache!Goto, Proved!Goto, Cache!environment, Proved!environment, Cache!cache,
            Proved!cache, Proved!Step
<1>1. CASE Cache!ReadCache(c)
  BY <1>1 DEF Cache!ReadCache, Proved!ReadCache, Cache!Fresh, Proved!Fresh
<1>2. CASE Cache!DecodeJWKS(c)
  <2>1. Proved!DecodeDocument(body[c]) = Cache!DecodeDocument(body[c])
    BY DEF Proved!DecodeDocument, Cache!DecodeDocument, Proved!KidAt, Cache!KidAt
  <2> QED
    BY <1>0, <1>2, <2>1 DEF Cache!DecodeJWKS, Proved!DecodeJWKS, Cache!NoDocument,
                            Proved!NoDocument
<1>3. CASE Cache!InstallKeys(c)
  BY <1>3 DEF Cache!InstallKeys, Proved!InstallKeys
<1>4. CASE Cache!CheckToken(c)
  <2>1. Cache!Verdicts(token[c], keys[c], expiresIn[c])
          = Proved!Verdicts(token[c], keys[c], expiresIn[c])
    <3>1. ASSUME NEW ks, NEW kid
          PROVE  Proved!SelectSecrets(ks, kid) = Cache!SelectSecrets(ks, kid)
      BY DEF Proved!SelectSecrets, Cache!SelectSecrets, Proved!Range, Cache!Range
    <3>2. ASSUME NEW t, NEW secret, NEW left
          PROVE  Proved!Verdict(t, secret, left) = Cache!Verdict(t, secret, left)
      BY DEF Proved!Verdict, Cache!Verdict
    <3> QED
      BY <3>1, <3>2 DEF Proved!Verdicts, Cache!Verdicts
  <2> QED
    BY <1>0, <1>4, <2>1 DEF Cache!CheckToken, Proved!CheckToken
<1>5. CASE Cache!ServeJWKS(c)
  BY <1>5 DEF Cache!ServeJWKS, Proved!ServeJWKS
<1>6. CASE Cache!FetchFails(c)
  BY <1>0, <1>6 DEF Cache!FetchFails, Proved!FetchFails
<1> QED
  BY <1>1, <1>2, <1>3, <1>4, <1>5, <1>6 DEF Cache!Step

LEMMA SameEnvironment ==
  /\ Cache!Tick => Proved!Tick
  /\ \A d \in Documents : Cache!Rotate(d) => Proved!Rotate(d)
<1>1. Cache!Tick => Proved!Tick
  BY DEF Cache!Tick, Proved!Tick, Cache!Fetching, Proved!Fetching, Cache!Staleness,
         Proved!Staleness
<1>2. ASSUME NEW d \in Documents, Cache!Rotate(d) PROVE Proved!Rotate(d)
  BY <1>2 DEF Cache!Rotate, Proved!Rotate, Cache!cache, Proved!cache, Cache!locals,
              Proved!locals
<1> QED
  BY <1>1, <1>2

\* A request that arrived names a bearer whose token is known.
LEMMA TokenIsKnown ==
  ASSUME NEW c \in Calls, request[c] \in Requests
  PROVE  /\ Call!Bearer(c) \in DOMAIN TokenOf
         /\ Token(c) \in {TokenOf[b] : b \in DOMAIN TokenOf}
BY ServingAssumption DEF Call!Bearer, Call!ExtractBearer, Token

\* What a verifier step is to the cache, and what it leaves alone.
LEMMA VerifierSteps ==
  ASSUME IInv, NEW c \in Calls, VerifierStep(c) \/ FetchEnds(c)
  PROVE  /\ Proved!Next /\ UNCHANGED callVars /\ UNCHANGED <<published, lastServed>>
         /\ verifying[c] # "idle"
         /\ verifying'[c] # "idle" => token'[c] = token[c]
         /\ \A w \in Calls \ {c} : /\ verifying'[w] = verifying[w]
                                   /\ token'[w] = token[w]
                                   /\ outcome'[w] = outcome[w]
<1>1. /\ UNCHANGED callVars
      /\ Proved!Step(c) \/ Proved!ServeJWKS(c) \/ Proved!FetchFails(c)
  BY SameSteps DEF VerifierStep, FetchEnds
<1>2. Proved!Next
  BY <1>1 DEF Proved!Next
<1>3. DOMAIN verifying = Calls /\ DOMAIN token = Calls /\ DOMAIN outcome = Calls
  BY DEF IInv, Proved!IInv, Proved!TypeOK
<1> QED
  BY <1>1, <1>2, <1>3 DEF Proved!Step, Proved!ReadCache, Proved!DecodeJWKS,
     Proved!InstallKeys, Proved!CheckToken, Proved!ServeJWKS, Proved!FetchFails,
     Proved!Return, Proved!Goto, Proved!environment

-----------------------------------------------------------------------------
LEMMA TimesAreNumbers ==
  /\ Cache!Staleness \in Nat /\ GatewayTimeout \in Nat /\ Horizon \in Nat
  /\ \A n \in Nat : /\ Allowance(n) \in Nat /\ Cache!Staleness <= Allowance(n)
                   /\ Allowance(n + 1) = Allowance(n) + GatewayTimeout
<1>1. Cache!Staleness \in Nat /\ GatewayTimeout \in Nat
  BY ServingAssumption DEF Cache!Staleness
<1>2. Horizon \in Nat
  <2>1. MaxExchanges \in {1, 2, 3}
    BY ServingAssumption
  <2>2. CASE MaxExchanges = 1
    BY <1>1, <2>2 DEF Horizon
  <2>3. CASE MaxExchanges = 2
    BY <1>1, <2>3 DEF Horizon
  <2>4. CASE MaxExchanges = 3
    BY <1>1, <2>4 DEF Horizon
  <2> QED
    BY <2>1, <2>2, <2>3, <2>4
<1>3. ASSUME NEW n \in Nat
      PROVE  /\ Allowance(n) \in Nat /\ Cache!Staleness <= Allowance(n)
             /\ Allowance(n + 1) = Allowance(n) + GatewayTimeout
  BY <1>1 DEF Allowance
<1> QED
  BY <1>1, <1>2, <1>3

LEMMA InitInvariant == Init => IInv
<1> SUFFICES ASSUME Init PROVE IInv
  OBVIOUS
<1>1. Proved!IInv
  BY SameInit, TimeAssumed, TokensAssumed, Proved!InitInvariant DEF Init
<1>2. CallInv
  BY DEF Init, Call!Init, Cache!Init, CallInv, TokenInv, VerdictInv, Returned
<1>3. TimeInv
  BY TimesAreNumbers DEF Init, Call!Init, Cache!Init, TimeInv, AgesInv, HeldInv
<1> QED
  BY <1>1, <1>2, <1>3 DEF IInv

-----------------------------------------------------------------------------
(***************************************************************************)
(* Time and the calls: how far a call has got with the gateway, and how old    *)
(* the document that bears it has become.                                        *)
(***************************************************************************)
Kept(c) == /\ pc'[c] = pc[c] /\ request'[c] = request[c]
           /\ sent'[c] = sent[c] /\ exchangeAge'[c] = exchangeAge[c]

Sends(c) == /\ pc[c] = "invoke" /\ pc'[c] = "sent" /\ request'[c] = request[c]
            /\ sent'[c] = sent[c] + 1 /\ exchangeAge'[c] = 0

GoesOn(c) == /\ pc[c] = "sent" /\ pc'[c] = "invoke" /\ request'[c] = request[c]
             /\ sent'[c] = sent[c]

\* No call comes to the gateway but by the steps that do so.
TimeGoesOn ==
  /\ sent' \in [Calls -> Nat] /\ exchangeAge' \in [Calls -> Nat]
  /\ \A c \in Calls : pc'[c] \in {"invoke", "sent"} => Kept(c) \/ Sends(c) \/ GoesOn(c)

LEMMA SameSecrets ==
  ASSUME NEW c, request'[c] = request[c]
  PROVE  Token(c)' = Token(c) /\ \A d : SecretsFor(c, d)' = SecretsFor(c, d)
BY DEF Token, Call!Bearer, SecretsFor

\* A document that bears a call bears it after any of these steps.
LEMMA BorneOn ==
  ASSUME NEW c \in Calls, NEW d \in Documents, AgesInv, AgesInv', HeldInv(c), Borne(c, d),
         pc[c] \in {"invoke", "sent"}, servedAge'[d] <= servedAge[d],
         Kept(c) \/ Sends(c) \/ GoesOn(c)
  PROVE  Borne(c, d)'
<1>1. request'[c] = request[c]
  BY DEF Kept, Sends, GoesOn
<1>2. (Token(c).secret \in SecretsFor(c, d))'
  BY <1>1, SameSecrets DEF Borne
<1>3. /\ servedAge[d] \in Nat /\ servedAge'[d] \in Nat
      /\ sent[c] \in Nat /\ sent'[c] \in Nat
      /\ exchangeAge[c] \in Nat /\ exchangeAge'[c] \in Nat
      /\ GatewayTimeout \in Nat
  BY TimesAreNumbers DEF AgesInv
<1>4. /\ Allowance(sent[c]) \in Nat
      /\ Allowance(sent[c] + 1) = Allowance(sent[c]) + GatewayTimeout
  BY <1>3, TimesAreNumbers
<1>5. ASSUME pc'[c] = "invoke" PROVE servedAge'[d] < Allowance(sent'[c])
  BY <1>3, <1>4, <1>5 DEF Kept, Sends, GoesOn, Borne, HeldInv
<1>6. ASSUME pc'[c] = "sent"
      PROVE  servedAge'[d] + GatewayTimeout < Allowance(sent'[c]) + exchangeAge'[c]
  BY <1>3, <1>4, <1>6 DEF Kept, Sends, GoesOn, Borne
<1>7. Allowance(sent[c])' = Allowance(sent'[c])
  BY DEF Allowance, Cache!Staleness
<1> QED
  BY <1>2, <1>5, <1>6, <1>7 DEF Borne

LEMMA HeldOn ==
  ASSUME NEW c \in Calls, AgesInv, AgesInv', HeldInv(c),
         \A d \in Documents : servedAge'[d] <= servedAge[d],
         pc'[c] \in {"invoke", "sent"} => Kept(c) \/ Sends(c) \/ GoesOn(c)
  PROVE  HeldInv(c)'
<1>1. ASSUME pc'[c] \in {"invoke", "sent"}
      PROVE  \E d \in Documents : Borne(c, d)'
  <2>1. pc[c] \in {"invoke", "sent"}
    BY <1>1 DEF Kept, Sends, GoesOn
  <2>2. PICK d \in Documents : Borne(c, d)
    BY <2>1 DEF HeldInv
  <2> QED
    BY <1>1, <2>1, <2>2, BorneOn
<1>2. pc'[c] = "sent" => exchangeAge'[c] <= GatewayTimeout
  BY TimesAreNumbers DEF Kept, Sends, GoesOn, HeldInv
<1> QED
  BY <1>1, <1>2 DEF HeldInv

\* The calls go on and the documents age no further.
LEMMA TimeStandsStill ==
  ASSUME TimeInv, TimeGoesOn, UNCHANGED <<servedAge, lastServed>>
  PROVE  TimeInv'
<1>1. AgesInv'
  BY DEF TimeInv, AgesInv, TimeGoesOn, Cache!Staleness
<1>2. \A d \in Documents : servedAge'[d] <= servedAge[d]
  BY DEF TimeInv, AgesInv
<1>3. ASSUME NEW c \in Calls PROVE HeldInv(c)'
  BY <1>1, <1>2, HeldOn DEF TimeInv, TimeGoesOn
<1> QED
  BY <1>1, <1>3 DEF TimeInv

LEMMA CallTimeGoesOn ==
  ASSUME CallInv, TimeInv, NEW b \in Calls, CallStep(b) \/ GatewayAnswers(b)
  PROVE  TimeGoesOn
<1>1. /\ DOMAIN pc = Calls /\ DOMAIN request = Calls
      /\ sent \in [Calls -> Nat] /\ exchangeAge \in [Calls -> Nat]
      /\ exchangeAge' = [exchangeAge EXCEPT ![b] = 0]
  BY DEF CallInv, TimeInv, AgesInv, CallStep, GatewayAnswers
<1> USE DEF TimeGoesOn, Kept, Sends, GoesOn, Call!Conclude, Call!gateway
<1>2. CASE Call!InvokeFails(b)
  BY <1>1, <1>2 DEF Call!InvokeFails
<1>3. CASE Call!SendToGateway(b)
  BY <1>1, <1>3 DEF Call!SendToGateway
<1>4. CASE Call!CallFails(b)
  BY <1>1, <1>4 DEF Call!CallFails
<1>5. CASE Call!AppendAudit(b)
  BY <1>1, <1>5 DEF Call!AppendAudit
<1>6. CASE Call!Answer(b)
  BY <1>1, <1>6 DEF Call!Answer
<1>7. CASE Call!GatewayRefuses(b)
  BY <1>1, <1>7 DEF Call!GatewayRefuses
<1>8. CASE Call!GatewayReplies(b)
  BY <1>1, <1>8 DEF Call!GatewayReplies
<1> QED
  BY <1>2, <1>3, <1>4, <1>5, <1>6, <1>7, <1>8
     DEF CallStep, GatewayAnswers, Call!GatewayAnswers

LEMMA OthersTimeGoesOn ==
  ASSUME CallInv, TimeInv, Surroundings \/ LifecycleStep
  PROVE  TimeGoesOn
<1>1. /\ DOMAIN pc = Calls /\ DOMAIN request = Calls
      /\ sent \in [Calls -> Nat] /\ exchangeAge \in [Calls -> Nat]
      /\ exchangeAge' = exchangeAge
  BY DEF CallInv, TimeInv, AgesInv, Surroundings, LifecycleStep, ages
<1> USE DEF TimeGoesOn, Kept, Call!callVars, Call!gateway
<1>2. ASSUME NEW c \in Calls, NEW r \in Requests, Call!Arrive(c, r) PROVE TimeGoesOn
  BY <1>1, <1>2 DEF Call!Arrive
<1>3. ASSUME NEW c \in Calls, Call!Cancel(c) \/ Call!GatewayApplies(c) PROVE TimeGoesOn
  BY <1>1, <1>3 DEF Call!Cancel, Call!GatewayApplies
<1>4. CASE Call!Kill \/ Call!Exit
  BY <1>1, <1>4 DEF Call!Kill, Call!Exit, Call!ProcessEnds, Call!Active
<1>5. CASE Call!Outage \/ Call!Recovery \/ Call!Signal \/ Call!ServeError
  BY <1>1, <1>5 DEF Call!Outage, Call!Recovery, Call!Signal, Call!ServeError
<1>6. CASE Call!DrainTick \/ Call!ShutdownReturns \/ Call!CloseAudit
  BY <1>1, <1>6 DEF Call!DrainTick, Call!ShutdownReturns, Call!CloseAudit
<1> QED
  BY <1>2, <1>3, <1>4, <1>5, <1>6 DEF Surroundings, LifecycleStep, Call!LifecycleStep

\* A verifier step is none of time's business.
LEMMA StutterTimeGoesOn ==
  TimeInv /\ UNCHANGED <<callVars, ages>> => TimeGoesOn
BY DEF callVars, ages, TimeInv, AgesInv, TimeGoesOn, Kept

LEMMA LastServedIsNat == IInv => lastServed \in [Documents -> Nat]
BY TimeAssumed DEF IInv, Proved!IInv, Proved!TypeOK, Proved!Staleness,
                   Proved!TimeAssumption

\* A verdict that is read leaves the call with the document it rests on.
LEMMA VerdictBears ==
  ASSUME AgesInv, lastServed \in [Documents -> Nat], NEW c \in Calls, Judged(c, "ok")
  PROVE  \E d \in Documents : /\ Token(c).secret \in SecretsFor(c, d)
                             /\ servedAge[d] < Cache!Staleness
<1>1. PICK d \in Cache!Window, left \in Nat \union {Cache!NeverExpires} :
        "ok" \in Cache!Verdicts(Token(c), Cache!DecodeDocument(d), left)
  BY DEF Judged
<1>2. PICK s \in SecretsFor(c, d) : Cache!Verdict(Token(c), s, left) = "ok"
  BY <1>1 DEF Cache!Verdicts, SecretsFor
<1>3. s = Token(c).secret
  BY <1>2 DEF Cache!Verdict
<1>4. d \in Documents /\ lastServed[d] < Cache!Staleness
  BY DEF Cache!Window
<1>5. servedAge[d] \in Nat /\ lastServed[d] \in Nat /\ servedAge[d] <= lastServed[d]
  BY <1>4 DEF AgesInv
<1>6. servedAge[d] < Cache!Staleness
  BY <1>4, <1>5, TimesAreNumbers
<1> QED
  BY <1>2, <1>3, <1>4, <1>6

\* A step of the calls that leaves the verifier alone.
CallsGoOn ==
  /\ DOMAIN pc' = Calls /\ DOMAIN request' = Calls
  /\ \A c \in Calls :
       /\ pc[c] # "new" => request'[c] = request[c]
       /\ pc'[c] = "new" <=> pc[c] = "new"
       /\ pc'[c] = "verify" => pc[c] = "verify"
       /\ pc[c] = "verify" => pc'[c] # "append"

\* What is known of the calls survives a step that keeps their requests, the
\* verdicts in their hands and the documents in the window.
LEMMA VerdictsStay ==
  ASSUME NEW c \in Calls, VerdictInv(c), request'[c] = request[c],
         Cache!Window \subseteq Cache!Window', outcome'[c] = outcome[c],
         pc'[c] = "verify" => pc[c] = "verify",
         verifying'[c] = "idle" => verifying[c] = "idle"
  PROVE  VerdictInv(c)'
<1>1. Token(c)' = Token(c)
  BY DEF Token, Call!Bearer
<1>2. ASSUME NEW v, Judged(c, v)
      PROVE  \E d \in Cache!Window' : \E left \in Nat \union {Cache!NeverExpires} :
               v \in Cache!Verdicts(Token(c)', Cache!DecodeDocument(d), left)
  BY <1>1, <1>2 DEF Judged
<1>3. Judged(c, outcome[c]) => Judged(c, outcome[c])'
  BY <1>2 DEF Judged
<1> QED
  BY <1>1, <1>3 DEF VerdictInv, Returned

LEMMA CallStepGoesOn ==
  ASSUME CallInv, NEW c \in Calls,
         \/ Call!InvokeFails(c) \/ Call!SendToGateway(c) \/ Call!CallFails(c)
         \/ Call!AppendAudit(c) \/ Call!Answer(c)
         \/ Call!GatewayAnswers(c) \/ Call!GatewayApplies(c) \/ Call!Cancel(c)
  PROVE  CallsGoOn
<1> USE DEF CallInv, CallsGoOn, Call!callVars, Call!Conclude
<1>1. CASE Call!InvokeFails(c)
  BY <1>1 DEF Call!InvokeFails
<1>2. CASE Call!SendToGateway(c)
  BY <1>2 DEF Call!SendToGateway
<1>3. CASE Call!CallFails(c)
  BY <1>3 DEF Call!CallFails
<1>4. CASE Call!AppendAudit(c)
  BY <1>4 DEF Call!AppendAudit
<1>5. CASE Call!Answer(c)
  BY <1>5 DEF Call!Answer
<1>6. CASE Call!GatewayAnswers(c)
  BY <1>6 DEF Call!GatewayAnswers, Call!GatewayReplies, Call!GatewayRefuses
<1>7. CASE Call!GatewayApplies(c)
  BY <1>7 DEF Call!GatewayApplies
<1>8. CASE Call!Cancel(c)
  BY <1>8 DEF Call!Cancel
<1> QED
  BY <1>1, <1>2, <1>3, <1>4, <1>5, <1>6, <1>7, <1>8

\* The life of the process ends calls and begins none.
LEMMA LifeGoesOn ==
  ASSUME CallInv,
         \/ Call!Outage \/ Call!Recovery \/ Call!Signal \/ Call!ServeError \/ Call!Kill
         \/ Call!LifecycleStep
  PROVE  CallsGoOn
<1> USE DEF CallInv, CallsGoOn, Call!callVars
<1>1. CASE Call!Kill \/ Call!Exit
  BY <1>1 DEF Call!Kill, Call!Exit, Call!ProcessEnds, Call!Active
<1>2. CASE Call!Outage \/ Call!Recovery \/ Call!Signal \/ Call!ServeError
  BY <1>2 DEF Call!Outage, Call!Recovery, Call!Signal, Call!ServeError
<1>3. CASE Call!DrainTick \/ Call!ShutdownReturns \/ Call!CloseAudit
  BY <1>3 DEF Call!DrainTick, Call!ShutdownReturns, Call!CloseAudit
<1> QED
  BY <1>1, <1>2, <1>3 DEF Call!LifecycleStep

\* The cache does not notice what the calls do besides.
LEMMA CacheUntouched ==
  ASSUME Proved!IInv, UNCHANGED cacheVars
  PROVE  Proved!IInv' /\ Cache!Window' = Cache!Window
<1>1. UNCHANGED Proved!vars
  BY DEF cacheVars, Proved!vars
<1> QED
  BY <1>1, CacheInvariant DEF cacheVars, Cache!Window, Cache!Staleness

LEMMA CallsKeepInvariant ==
  ASSUME IInv, CallsGoOn, TimeGoesOn, UNCHANGED cacheVars, UNCHANGED servedAge
  PROVE  IInv'
<1>1. Proved!IInv' /\ Cache!Window' = Cache!Window
  BY CacheUntouched DEF IInv
<1>2. ASSUME NEW c \in Calls PROVE TokenInv(c)' /\ VerdictInv(c)'
  <2>1. TokenInv(c) /\ VerdictInv(c)
    BY DEF IInv, CallInv
  <2>2. TokenInv(c)'
    BY <2>1 DEF TokenInv, CallsGoOn, cacheVars, Token, Call!Bearer
  <2>3. CASE pc[c] = "new"
    BY <2>3, <2>2 DEF VerdictInv, CallsGoOn
  <2>4. CASE pc[c] # "new"
    BY <1>1, <2>1, <2>2, <2>4, VerdictsStay DEF CallsGoOn, cacheVars
  <2> QED
    BY <2>2, <2>3, <2>4
<1>3. CallInv'
  BY <1>2 DEF CallInv, CallsGoOn
<1>4. TimeInv'
  BY TimeStandsStill DEF IInv, cacheVars
<1> QED
  BY <1>1, <1>3, <1>4 DEF IInv

LEMMA ArrivalKeepsInvariant ==
  ASSUME IInv, NEW a \in Calls, NEW r \in Requests, Call!Arrive(a, r),
         TimeGoesOn, UNCHANGED cacheVars, UNCHANGED servedAge
  PROVE  IInv'
<1> USE DEF Call!Arrive
<1>1. Proved!IInv' /\ Cache!Window' = Cache!Window
  BY CacheUntouched DEF IInv
<1>2. DOMAIN pc' = Calls /\ DOMAIN request' = Calls
  BY DEF IInv, CallInv
<1>3. ASSUME NEW c \in Calls PROVE TokenInv(c)' /\ VerdictInv(c)'
  <2>1. TokenInv(c) /\ VerdictInv(c) /\ DOMAIN pc = Calls /\ DOMAIN request = Calls
    BY DEF IInv, CallInv
  <2>2. CASE c = a
    <3>1. /\ pc'[c] \in {"verify", "done"} /\ request'[c] \in Requests
          /\ verifying'[c] = "idle" /\ outcome'[c] = "none"
      BY <2>1, <2>2 DEF TokenInv, cacheVars
    <3> QED
      BY <3>1 DEF TokenInv, VerdictInv, Returned
  <2>3. CASE c # a
    <3>1. pc'[c] = pc[c] /\ request'[c] = request[c]
      BY <2>1, <2>3
    <3>2. TokenInv(c)'
      BY <2>1, <3>1 DEF TokenInv, cacheVars, Token, Call!Bearer
    <3> QED
      BY <1>1, <2>1, <3>1, <3>2, VerdictsStay DEF cacheVars
  <2> QED
    BY <2>2, <2>3
<1>4. TimeInv'
  BY TimeStandsStill DEF IInv, cacheVars
<1> QED
  BY <1>1, <1>2, <1>3, <1>4 DEF IInv, CallInv

LEMMA BeginKeepsInvariant ==
  ASSUME IInv, NEW b \in Calls, BeginVerify(b)
  PROVE  IInv'
<1>1. PICK left \in Lifetimes : Cache!VerifyBearer(b, Token(b), left)
  BY DEF BeginVerify
<1>2. /\ UNCHANGED callVars /\ pc[b] = "verify"
      /\ DOMAIN pc = Calls /\ DOMAIN request = Calls
      /\ \A c \in Calls : TokenInv(c) /\ VerdictInv(c)
      /\ DOMAIN verifying = Calls /\ DOMAIN token = Calls /\ DOMAIN outcome = Calls
  BY DEF BeginVerify, IInv, CallInv, Proved!IInv, Proved!TypeOK
<1>3. Token(b) \in {TokenOf[x] : x \in DOMAIN TokenOf}
  BY <1>2, TokenIsKnown DEF TokenInv
<1>4. Proved!IInv'
  BY <1>1, <1>3, SameBegin, CacheInvariant DEF Proved!Next, IInv
<1>5. Cache!Window' = Cache!Window
  BY <1>1 DEF Cache!VerifyBearer, Cache!environment, Cache!Window, Cache!Staleness
<1>6. ASSUME NEW c \in Calls PROVE TokenInv(c)' /\ VerdictInv(c)'
  <2>1. CASE c = b
    BY <1>1, <1>2, <2>1 DEF Cache!VerifyBearer, Cache!Goto, TokenInv, VerdictInv,
                            Returned, callVars, Token, Call!Bearer
  <2>2. CASE c # b
    <3>1. /\ verifying'[c] = verifying[c] /\ token'[c] = token[c]
          /\ outcome'[c] = outcome[c] /\ pc' = pc /\ request' = request
      BY <1>1, <1>2, <2>2 DEF Cache!VerifyBearer, Cache!Goto, callVars
    <3>2. TokenInv(c)'
      BY <1>2, <3>1 DEF TokenInv, Token, Call!Bearer
    <3> QED
      BY <1>2, <1>5, <3>1, <3>2, VerdictsStay
  <2> QED
    BY <2>1, <2>2
<1>7. TimeInv'
  <2>1. UNCHANGED <<callVars, ages>> /\ UNCHANGED lastServed
    BY <1>1 DEF BeginVerify, Cache!VerifyBearer, Cache!environment
  <2> QED
    BY <2>1, StutterTimeGoesOn, TimeStandsStill DEF IInv, ages
<1> QED
  BY <1>2, <1>4, <1>6, <1>7 DEF IInv, CallInv, callVars

LEMMA VerifierKeepsInvariant ==
  ASSUME IInv, NEW b \in Calls, VerifierStep(b) \/ FetchEnds(b)
  PROVE  IInv'
<1>1. /\ Proved!Next /\ UNCHANGED callVars /\ UNCHANGED <<published, lastServed>>
      /\ verifying[b] # "idle"
      /\ verifying'[b] # "idle" => token'[b] = token[b]
      /\ \A c \in Calls \ {b} : /\ verifying'[c] = verifying[c] /\ token'[c] = token[c]
                                /\ outcome'[c] = outcome[c]
  BY VerifierSteps
<1>2. /\ DOMAIN pc = Calls /\ DOMAIN request = Calls
      /\ \A c \in Calls : TokenInv(c) /\ VerdictInv(c)
  BY DEF IInv, CallInv
<1>3. Proved!IInv'
  BY <1>1, CacheInvariant DEF IInv
<1>4. Cache!Window' = Cache!Window
  BY <1>1 DEF Cache!Window, Cache!Staleness
<1>5. ASSUME NEW c \in Calls PROVE TokenInv(c)' /\ VerdictInv(c)'
  <2>1. pc' = pc /\ request' = request /\ Token(c)' = Token(c)
    BY <1>1 DEF callVars, Token, Call!Bearer
  <2>2. CASE c # b
    <3>1. TokenInv(c)'
      BY <1>1, <1>2, <2>1, <2>2 DEF TokenInv
    <3> QED
      BY <1>1, <1>2, <1>4, <2>1, <2>2, <3>1, VerdictsStay
  <2>3. CASE c = b
    <3>1. /\ token[c] = Token(c) /\ Token(c).shape = "jwt"
          /\ pc[c] # "new" /\ request[c] \in Requests
      BY <1>1, <1>2, <2>3 DEF TokenInv
    <3>2. TokenInv(c)'
      BY <1>1, <2>1, <2>3, <3>1 DEF TokenInv
    <3>3. ASSUME verifying'[c] = "idle"
          PROVE  outcome'[c] = "fetch_failed" \/ Judged(c, outcome[c])'
      <4>1. Proved!Answers(c)
        BY <1>1, <2>3, <3>3 DEF Proved!Answers
      <4>2. \/ outcome'[c] = "fetch_failed"
            \/ \E d \in Proved!Window :
                 outcome'[c] \in Proved!Verdicts(token[c], Proved!DecodeDocument(d),
                                                 expiresIn[c])
        BY <1>1, <4>1, TimeAssumed, TokensAssumed, Proved!VerdictRestsOnWindow DEF IInv
      <4>3. expiresIn[c] \in Nat \union {Cache!NeverExpires}
        BY DEF IInv, Proved!IInv, Proved!TypeOK, Proved!NeverExpires, Cache!NeverExpires
      <4>4. ASSUME NEW d \in Proved!Window,
                   outcome'[c] \in Proved!Verdicts(token[c], Proved!DecodeDocument(d),
                                                  expiresIn[c])
            PROVE  Judged(c, outcome[c])'
        <5>1. outcome'[c] \in Cache!Verdicts(Token(c)', Cache!DecodeDocument(d),
                                            expiresIn[c])
          BY <2>1, <3>1, <4>4, SameVerdicts
        <5>2. d \in Cache!Window'
          BY <1>4, SameWindow
        <5> QED
          BY <4>3, <5>1, <5>2 DEF Judged
      <4> QED
        BY <4>2, <4>4
    <3> QED
      BY <2>1, <3>1, <3>2, <3>3 DEF VerdictInv, Returned
  <2> QED
    BY <2>2, <2>3
<1>6. TimeInv'
  <2>1. UNCHANGED <<callVars, ages>>
    BY DEF VerifierStep, FetchEnds
  <2> QED
    BY <1>1, <2>1, StutterTimeGoesOn, TimeStandsStill DEF IInv, ages
<1> QED
  BY <1>1, <1>2, <1>3, <1>5, <1>6 DEF IInv, CallInv, callVars

LEMMA VerifiedKeepsInvariant ==
  ASSUME IInv, NEW b \in Calls, Verified(b)
  PROVE  IInv'
<1>1. /\ DOMAIN pc = Calls /\ DOMAIN request = Calls
      /\ \A c \in Calls : TokenInv(c) /\ VerdictInv(c)
      /\ DOMAIN outcome = Calls
      /\ outcome \in [Calls -> Proved!Outcomes]
  BY DEF IInv, CallInv, Proved!IInv, Proved!TypeOK
<1>2. /\ outcome' = [outcome EXCEPT ![b] = "none"]
      /\ UNCHANGED <<published, lastServed, cachedOctHS, cacheAge, verifying, token,
                     expiresIn, body, keys, fetchAge>>
  BY DEF Verified, Consumed
<1>3. /\ pc[b] = "verify" /\ request' = request
      /\ \/ pc' = [pc EXCEPT ![b] = "append"]
         \/ pc' = [pc EXCEPT ![b] = "invoke"] /\ outcome[b] = "ok"
  BY DEF Verified, UseClaims, Call!RefuseToken, Call!Conclude
<1>4. Proved!IInv'
  <2>1. outcome' \in [Calls -> Proved!Outcomes]
    BY <1>1, <1>2 DEF Proved!Outcomes
  <2>2. Proved!TypeOK'
    BY <1>2, <2>1 DEF IInv, Proved!IInv, Proved!TypeOK, Proved!KeyMaps
  <2>3. Proved!PublishedIsCurrent' /\ Proved!CacheIsRecentDocument'
    BY <1>2 DEF IInv, Proved!IInv, Proved!PublishedIsCurrent, Proved!CacheIsRecentDocument,
                Proved!Fresh
  <2>4. Proved!HeldKeysAreRecent'
    BY <1>2 DEF IInv, Proved!IInv, Proved!HeldKeysAreRecent, Proved!HeldRecent,
                Proved!Window
  <2> QED
    BY <2>2, <2>3, <2>4 DEF Proved!IInv
<1>5. Cache!Window' = Cache!Window
  BY <1>2 DEF Cache!Window, Cache!Staleness
<1>6. ASSUME NEW c \in Calls PROVE TokenInv(c)' /\ VerdictInv(c)'
  <2>1. CASE c # b
    <3>1. pc'[c] = pc[c] /\ outcome'[c] = outcome[c]
      BY <1>1, <1>2, <1>3, <2>1
    <3>2. TokenInv(c)'
      BY <1>1, <1>2, <1>3, <3>1 DEF TokenInv, Token, Call!Bearer
    <3> QED
      BY <1>1, <1>2, <1>3, <1>5, <3>1, <3>2, VerdictsStay
  <2>2. CASE c = b
    <3>1. Token(c)' = Token(c) /\ outcome'[c] = "none" /\ pc'[c] \in {"append", "invoke"}
      BY <1>1, <1>2, <1>3, <2>2 DEF Token, Call!Bearer
    <3>2. TokenInv(c)'
      BY <1>1, <1>2, <1>3, <2>2, <3>1 DEF TokenInv
    <3> QED
      BY <3>1, <3>2 DEF VerdictInv
  <2> QED
    BY <2>1, <2>2
<1>7. ASSUME pc'[b] = "invoke" PROVE \E d \in Documents : Borne(b, d)'
  <2>1. outcome[b] = "ok" /\ Returned(b)
    BY <1>1, <1>3, <1>7 DEF Verified
  <2>2. Token(b).shape \in Cache!ParseErrors \union {"jwt"}
    BY <1>1, <1>3, TokenIsKnown, ServingAssumption DEF TokenInv
  <2>3. Judged(b, "ok")
    BY <1>1, <1>3, <2>1, <2>2 DEF VerdictInv, Cache!ParseErrors
  <2>4. PICK d \in Documents : /\ Token(b).secret \in SecretsFor(b, d)
                              /\ servedAge[d] < Cache!Staleness
    BY <2>3, LastServedIsNat, VerdictBears DEF IInv, TimeInv
  <2>5. (Token(b).secret \in SecretsFor(b, d))'
    BY <1>3, <2>4, SameSecrets
  <2>6. UNCHANGED <<sent, servedAge>>
    BY DEF Verified, UseClaims, Consumed, Call!RefuseToken, Call!gateway, ages
  <2>7. servedAge'[d] < Allowance(sent'[b])
    <3>1. /\ servedAge[d] \in Nat /\ sent[b] \in Nat /\ Cache!Staleness \in Nat
          /\ Allowance(sent[b]) \in Nat /\ Cache!Staleness <= Allowance(sent[b])
      BY TimesAreNumbers DEF IInv, TimeInv, AgesInv
    <3> QED
      BY <2>4, <2>6, <3>1
  <2>8. Allowance(sent[b])' = Allowance(sent'[b])
    BY DEF Allowance, Cache!Staleness
  <2> QED
    BY <1>7, <2>5, <2>7, <2>8 DEF Borne
<1>8. TimeInv'
  <2>1. UNCHANGED <<sent, exchangeAge, servedAge>>
    BY DEF Verified, UseClaims, Consumed, Call!RefuseToken, Call!gateway, ages
  <2>2. AgesInv'
    BY <1>2, <2>1 DEF IInv, TimeInv, AgesInv, Cache!Staleness
  <2>3. HeldInv(b)'
    BY <1>1, <1>3, <1>7 DEF HeldInv
  <2>4. ASSUME NEW c \in Calls, c # b PROVE HeldInv(c)'
    <3>1. Kept(c)
      BY <1>1, <1>3, <2>1, <2>4 DEF Kept
    <3>2. \A d \in Documents : servedAge'[d] <= servedAge[d]
      BY <2>1 DEF IInv, TimeInv, AgesInv
    <3> QED
      BY <2>2, <3>1, <3>2, HeldOn DEF IInv, TimeInv
  <2> QED
    BY <2>2, <2>3, <2>4 DEF TimeInv
<1> QED
  BY <1>1, <1>3, <1>4, <1>6, <1>8 DEF IInv, CallInv

\* A published document is as young as can be; the calls notice nothing.
LEMMA RotateKeepsTime ==
  ASSUME TimeInv, lastServed \in [Documents -> Nat], NEW e \in Documents, Rotate(e)
  PROVE  TimeInv'
<1>1. /\ UNCHANGED <<callVars, exchangeAge>>
      /\ servedAge' = [servedAge EXCEPT ![e] = 0]
      /\ lastServed' = [lastServed EXCEPT ![e] = 0]
  BY DEF Rotate, Cache!Rotate
<1>2. AgesInv'
  BY <1>1, TimesAreNumbers DEF TimeInv, AgesInv, callVars, Cache!Staleness
<1>3. \A d \in Documents : servedAge'[d] <= servedAge[d]
  BY <1>1 DEF TimeInv, AgesInv
<1>4. ASSUME NEW c \in Calls PROVE HeldInv(c)'
  BY <1>1, <1>2, <1>3, HeldOn DEF TimeInv, Kept, callVars
<1> QED
  BY <1>2, <1>4 DEF TimeInv

\* A tick uses up a part of every exchange, and no call computes meanwhile.
LEMMA TickKeepsTime ==
  ASSUME TimeInv, lastServed \in [Documents -> Nat], Tick
  PROVE  TimeInv'
<1>1. /\ UNCHANGED callVars
      /\ \A c \in Calls : pc[c] # "invoke" /\ (pc[c] = "sent" => exchangeAge[c] < GatewayTimeout)
      /\ exchangeAge' = [c \in Calls |->
            IF pc[c] = "sent" THEN exchangeAge[c] + 1 ELSE exchangeAge[c]]
      /\ servedAge' = [d \in Documents |->
            IF d = published THEN 0
            ELSE IF servedAge[d] < Horizon THEN servedAge[d] + 1 ELSE Horizon]
      /\ lastServed' = [d \in Documents |->
            IF d = published THEN 0
            ELSE IF lastServed[d] < Cache!Staleness THEN lastServed[d] + 1
            ELSE Cache!Staleness]
  BY DEF Tick, Computing, MayWait, Cache!Tick
<1>2. /\ sent \in [Calls -> Nat] /\ exchangeAge \in [Calls -> Nat]
      /\ servedAge \in [Documents -> Nat] /\ Horizon \in Nat
      /\ Cache!Staleness \in Nat /\ GatewayTimeout \in Nat
  BY TimesAreNumbers DEF TimeInv, AgesInv
<1>3. ASSUME NEW d \in Documents
      PROVE  /\ servedAge'[d] \in Nat /\ servedAge'[d] <= servedAge[d] + 1
             /\ lastServed'[d] < Cache!Staleness => servedAge'[d] <= lastServed'[d]
  <2>1. /\ servedAge[d] \in Nat /\ lastServed[d] \in Nat
        /\ lastServed[d] < Cache!Staleness => servedAge[d] <= lastServed[d]
    BY <1>2 DEF TimeInv, AgesInv
  <2> QED
    BY <1>1, <1>2, <2>1
<1>4. AgesInv'
  <2>1. servedAge' \in [Documents -> Nat]
    BY <1>1, <1>3
  <2>2. exchangeAge' \in [Calls -> Nat] /\ sent' \in [Calls -> Nat]
    BY <1>1, <1>2 DEF callVars
  <2> QED
    BY <1>3, <2>1, <2>2 DEF AgesInv, Cache!Staleness
<1>5. ASSUME NEW c \in Calls, pc[c] = "sent"
      PROVE  exchangeAge'[c] <= GatewayTimeout /\ \E d \in Documents : Borne(c, d)'
  <2>1. PICK d \in Documents : Borne(c, d)
    BY <1>5 DEF TimeInv, HeldInv
  <2>2. (Token(c).secret \in SecretsFor(c, d))'
    BY <1>1, <2>1, SameSecrets DEF Borne, callVars
  <2>3. /\ exchangeAge[c] \in Nat /\ servedAge[d] \in Nat /\ Allowance(sent[c]) \in Nat
        /\ exchangeAge[c] < GatewayTimeout /\ exchangeAge'[c] = exchangeAge[c] + 1
        /\ servedAge'[d] \in Nat /\ servedAge'[d] <= servedAge[d] + 1
        /\ servedAge[d] + GatewayTimeout < Allowance(sent[c]) + exchangeAge[c]
    BY <1>1, <1>2, <1>3, <1>5, <2>1, TimesAreNumbers DEF Borne
  <2>4. Allowance(sent[c])' = Allowance(sent[c]) /\ pc'[c] = "sent"
    BY <1>1, <1>5 DEF Allowance, Cache!Staleness, callVars
  <2>5. /\ exchangeAge'[c] <= GatewayTimeout
        /\ servedAge'[d] + GatewayTimeout < Allowance(sent[c]) + exchangeAge'[c]
    BY <1>2, <2>3
  <2> QED
    BY <2>2, <2>4, <2>5 DEF Borne
<1>6. ASSUME NEW c \in Calls PROVE HeldInv(c)'
  <2>1. pc' = pc /\ pc[c] # "invoke"
    BY <1>1 DEF callVars
  <2> QED
    BY <1>5, <2>1 DEF HeldInv
<1> QED
  BY <1>4, <1>6 DEF TimeInv

\* Documents come and go and time passes, while no call holds a verdict.
LEMMA EnvironmentKeepsInvariant ==
  ASSUME IInv, Tick \/ \E d \in Documents : Rotate(d)
  PROVE  IInv'
<1>1. Proved!IInv'
  BY SameEnvironment, CacheInvariant DEF IInv, Tick, Rotate, Proved!Next
<1>2. /\ DOMAIN pc = Calls /\ DOMAIN request = Calls
      /\ \A c \in Calls : TokenInv(c) /\ VerdictInv(c)
  BY DEF IInv, CallInv
<1>3. UNCHANGED callVars /\ UNCHANGED <<verifying, token, outcome>>
  BY DEF Tick, Rotate, Cache!Tick, Cache!Rotate, Cache!locals
<1>4. ASSUME NEW c \in Calls PROVE TokenInv(c)'
  BY <1>2, <1>3 DEF TokenInv, callVars, Token, Call!Bearer
<1>5. ASSUME Tick, NEW c \in Calls PROVE VerdictInv(c)'
  BY <1>3, <1>5 DEF Tick, Computing, VerdictInv, Returned, callVars
<1>6. ASSUME NEW d \in Documents, Rotate(d), NEW c \in Calls PROVE VerdictInv(c)'
  <2>1. /\ lastServed \in [Documents -> 0..Proved!Staleness]
        /\ Proved!Staleness \in Nat \ {0}
    BY ServingAssumption DEF IInv, Proved!IInv, Proved!TypeOK, Proved!Staleness
  <2>2. Cache!Staleness = Proved!Staleness
    BY DEF Cache!Staleness, Proved!Staleness
  <2>3. lastServed' = [lastServed EXCEPT ![d] = 0]
    BY <1>6 DEF Rotate, Cache!Rotate
  <2>4. Cache!Window \subseteq Cache!Window'
    BY <2>1, <2>2, <2>3 DEF Cache!Window, Cache!Staleness
  <2> QED
    BY <1>2, <1>3, <2>4, VerdictsStay DEF callVars
<1>7. TimeInv'
  <2>1. lastServed \in [Documents -> Nat]
    BY LastServedIsNat
  <2> QED
    BY <2>1, RotateKeepsTime, TickKeepsTime DEF IInv
<1> QED
  BY <1>1, <1>2, <1>3, <1>4, <1>5, <1>6, <1>7 DEF IInv, CallInv, callVars

LEMMA StutterGoesOn == CallInv /\ UNCHANGED callVars => CallsGoOn
BY DEF callVars, CallInv, CallsGoOn

LEMMA NextInvariant == IInv /\ [Next]_vars => IInv'
<1> SUFFICES ASSUME IInv, [Next]_vars PROVE IInv'
  OBVIOUS
<1>1. ASSUME NEW c \in Calls, BeginVerify(c) \/ VerifierStep(c) \/ FetchEnds(c)
      PROVE  IInv'
  BY <1>1, BeginKeepsInvariant, VerifierKeepsInvariant
<1>2. ASSUME NEW c \in Calls, Verified(c)
      PROVE  IInv'
  BY <1>2, VerifiedKeepsInvariant
<1>3. ASSUME NEW c \in Calls, CallStep(c) \/ GatewayAnswers(c)
      PROVE  IInv'
  <2>1. CallsGoOn /\ TimeGoesOn /\ UNCHANGED cacheVars /\ UNCHANGED servedAge
    BY <1>3, CallStepGoesOn, CallTimeGoesOn DEF CallStep, GatewayAnswers, IInv
  <2> QED
    BY <2>1, CallsKeepInvariant
<1>4. CASE Surroundings
  <2>1. TimeGoesOn /\ UNCHANGED cacheVars /\ UNCHANGED servedAge
    BY <1>4, OthersTimeGoesOn DEF Surroundings, ages, IInv
  <2> QED
    BY <1>4, <2>1, CallStepGoesOn, ArrivalKeepsInvariant, LifeGoesOn, CallsKeepInvariant
       DEF Surroundings, IInv
<1>5. CASE LifecycleStep
  <2>1. CallsGoOn /\ TimeGoesOn /\ UNCHANGED cacheVars /\ UNCHANGED servedAge
    BY <1>5, LifeGoesOn, OthersTimeGoesOn DEF LifecycleStep, ages, IInv
  <2> QED
    BY <2>1, CallsKeepInvariant
<1>6. CASE Tick \/ \E d \in Documents : Rotate(d)
  BY <1>6, EnvironmentKeepsInvariant
<1>7. CASE UNCHANGED vars
  <2>1. CallsGoOn /\ TimeGoesOn /\ UNCHANGED cacheVars /\ UNCHANGED servedAge
    BY <1>7, StutterGoesOn, StutterTimeGoesOn DEF vars, ages, IInv
  <2> QED
    BY <2>1, CallsKeepInvariant
<1> QED
  BY <1>1, <1>2, <1>3, <1>4, <1>5, <1>6, <1>7 DEF Next, OwnStep

\* What every state of the server satisfies.
LEMMA Invariance == Spec => []IInv
BY InitInvariant, NextInvariant, PTL DEF Spec

-----------------------------------------------------------------------------
\* A token that some recent document makes valid is genuine.
LEMMA JudgedIsGenuine ==
  ASSUME NEW c \in Calls, request[c] \in Requests, Token(c).shape = "jwt",
         Judged(c, "ok")
  PROVE  Call!Bearer(c) \in Genuine
<1>1. PICK d \in Cache!Window, left \in Nat \union {Cache!NeverExpires} :
        "ok" \in Cache!Verdicts(Token(c), Cache!DecodeDocument(d), left)
  BY DEF Judged
<1>2. PICK s \in Cache!SelectSecrets(Cache!DecodeDocument(d), Token(c).kid) :
        Cache!Verdict(Token(c), s, left) = "ok"
  BY <1>1 DEF Cache!Verdicts
<1>3. Cache!Verdict(Token(c), s, Cache!NeverExpires) = "ok"
  BY <1>2 DEF Cache!Verdict, Cache!NeverExpires
<1>4. "ok" \in Cache!Verdicts(Token(c), Cache!DecodeDocument(d), Cache!NeverExpires)
  BY <1>2, <1>3 DEF Cache!Verdicts
<1> QED
  BY <1>4, TokenIsKnown, ServingAssumption DEF Token, Cache!Window

\* A verdict that is read holds of the token of the call.
LEMMA VerifiedIsJudged ==
  ASSUME IInv, NEW c \in Calls, Verified(c)
  PROVE  /\ request[c] \in Requests
         /\ Token(c).shape = "jwt" => outcome[c] = "fetch_failed" \/ Judged(c, outcome[c])
         /\ outcome[c] = "ok" => Token(c).shape = "jwt"
<1>1. /\ TokenInv(c) /\ VerdictInv(c) /\ pc[c] = "verify" /\ Returned(c)
  BY DEF Verified, IInv, CallInv
<1>2. Token(c).shape \in Cache!ParseErrors \union {"jwt"}
  BY <1>1, TokenIsKnown, ServingAssumption DEF TokenInv
<1> QED
  BY <1>1, <1>2 DEF TokenInv, VerdictInv, Cache!ParseErrors

\* Going on with the claims of a genuine token is accepting it.
LEMMA VerifiedIsAStep ==
  ASSUME IInv, NEW c \in Calls, Verified(c)
  PROVE  Call!AcceptToken(c) \/ Call!RefuseToken(c)
<1>1. CASE outcome[c] # "ok"
  BY <1>1 DEF Verified
<1>2. CASE outcome[c] = "ok"
  <2>1. Call!Bearer(c) \in Genuine
    BY <1>2, VerifiedIsJudged, JudgedIsGenuine
  <2>2. /\ Call!Bearer(c) \in DOMAIN GenuineClaims
        /\ GenuineClaims[Call!Bearer(c)] = ClaimsOf[Call!Bearer(c)]
    BY <2>1 DEF GenuineClaims
  <2>3. UseClaims(c) /\ Call!Alive /\ pc[c] = "verify"
    BY <1>2 DEF Verified
  <2>4. Call!AcceptToken(c)
    BY <2>2, <2>3 DEF UseClaims, Call!AcceptToken, Call!Subject, Call!auditStore,
                      Call!lifecycle, Call!gateway
  <2> QED
    BY <2>4
<1> QED
  BY <1>1, <1>2

\* Every step of the server is one the calls may take, or none of their business.
LEMMA NextRefines == IInv /\ [Next]_vars => [Call!Next]_(Call!vars)
<1> SUFFICES ASSUME IInv, [Next]_vars PROVE Call!Next \/ UNCHANGED Call!vars
  OBVIOUS
<1>1. UNCHANGED callVars => UNCHANGED Call!vars
  BY DEF callVars, Call!vars
<1>2. ASSUME NEW c \in Calls, BeginVerify(c) \/ VerifierStep(c) \/ FetchEnds(c)
      PROVE  UNCHANGED callVars
  BY <1>2 DEF BeginVerify, VerifierStep, FetchEnds
<1>3. ASSUME NEW c \in Calls, Verified(c)
      PROVE  Call!Next
  BY <1>3, VerifiedIsAStep DEF Call!Next, Call!CallStep
<1>4. ASSUME NEW c \in Calls, CallStep(c) \/ GatewayAnswers(c)
      PROVE  Call!Next
  BY <1>4 DEF CallStep, GatewayAnswers, Call!Next, Call!CallStep
<1>5. CASE Surroundings
  BY <1>5 DEF Surroundings, Call!Next
<1>6. CASE LifecycleStep
  BY <1>6 DEF LifecycleStep, Call!Next
<1>7. CASE Tick \/ \E d \in Documents : Rotate(d)
  BY <1>1, <1>7 DEF Tick, Rotate
<1>8. CASE UNCHANGED vars
  BY <1>1, <1>8 DEF vars
<1> QED
  BY <1>1, <1>2, <1>3, <1>4, <1>5, <1>6, <1>7, <1>8 DEF Next, OwnStep

(***************************************************************************)
(* The calls of the server, whose verifier caches keys, fetches them            *)
(* concurrently and may miss a rotation, behave as ToolInvocation says           *)
(* (bootstrap/app.go New hands the cached Verifier to the use case).              *)
(***************************************************************************)
THEOREM CachedVerifierServesCalls == Spec => ImplementsToolInvocation
<1>1. Init => Call!Init
  BY DEF Init
<1> QED
  BY <1>1, Invariance, NextRefines, PTL DEF Spec, ImplementsToolInvocation, Call!Spec

-----------------------------------------------------------------------------
\* Only one step sends a request to the gateway.
LEMMA WhatIsSent ==
  ASSUME IInv, Next, NEW c \in Calls, sent'[c] > sent[c]
  PROVE  pc[c] = "invoke"
<1>1. sent \in [Calls -> Nat] /\ ~(sent[c] > sent[c])
  BY DEF IInv, TimeInv, AgesInv
<1>2. sent' # sent
  BY <1>1
<1>3. ASSUME NEW b \in Calls, BeginVerify(b) \/ VerifierStep(b) \/ FetchEnds(b)
      PROVE  FALSE
  BY <1>2, <1>3 DEF BeginVerify, VerifierStep, FetchEnds, callVars
<1>4. ASSUME NEW b \in Calls, Verified(b)
      PROVE  FALSE
  BY <1>2, <1>4 DEF Verified, UseClaims, Call!RefuseToken, Call!gateway
<1>5. ASSUME NEW b \in Calls, CallStep(b)
      PROVE  pc[c] = "invoke"
  BY <1>1, <1>2, <1>5 DEF CallStep, Call!InvokeFails, Call!SendToGateway, Call!CallFails,
     Call!AppendAudit, Call!Answer, Call!gateway
<1>6. ASSUME NEW b \in Calls, GatewayAnswers(b)
      PROVE  FALSE
  BY <1>2, <1>6 DEF GatewayAnswers, Call!GatewayAnswers, Call!GatewayReplies,
     Call!GatewayRefuses, Call!gateway
<1>7. CASE Surroundings
  BY <1>2, <1>7 DEF Surroundings, Call!Arrive, Call!Cancel, Call!GatewayApplies,
     Call!Outage, Call!Recovery, Call!Signal, Call!ServeError, Call!Kill,
     Call!ProcessEnds, Call!gateway
<1>8. CASE LifecycleStep
  BY <1>2, <1>8 DEF LifecycleStep, Call!LifecycleStep, Call!DrainTick,
     Call!ShutdownReturns, Call!CloseAudit, Call!Exit, Call!ProcessEnds, Call!gateway
<1>9. CASE Tick \/ \E d \in Documents : Rotate(d)
  BY <1>2, <1>9 DEF Tick, Rotate, callVars
<1> QED
  BY <1>3, <1>4, <1>5, <1>6, <1>7, <1>8, <1>9 DEF Next, OwnStep

(***************************************************************************)
(* Whatever is sent to the gateway is sent for a token signed by a key that was *)
(* served within one refresh interval, one fetch and one exchange for each         *)
(* request that the call sent before: a key withdrawn earlier                       *)
(* (jwkscache/verifier.go loadJWKSKeys) reaches nothing, and the write of a tune      *)
(* (gatewayclient/latency_tools.go) comes no later than its two reads allow.           *)
(***************************************************************************)
THEOREM WithdrawnKeysAreOut == Spec => WithdrawnKeysReachNothing
<1> DEFINE P == \A c \in Calls : sent'[c] > sent[c] =>
                  \E d \in Documents :
                    /\ servedAge[d] < Cache!Staleness + sent[c] * GatewayTimeout
                    /\ Token(c).secret \in SecretsFor(c, d)
<1>1. ASSUME IInv, Next, NEW c \in Calls, sent'[c] > sent[c]
      PROVE  \E d \in Documents :
               /\ servedAge[d] < Cache!Staleness + sent[c] * GatewayTimeout
               /\ Token(c).secret \in SecretsFor(c, d)
  BY <1>1, WhatIsSent DEF IInv, TimeInv, HeldInv, Borne, Allowance
<1>2. IInv /\ [Next]_vars => [P]_vars
  BY <1>1
<1> QED
  BY Invariance, <1>2, PTL DEF Spec, WithdrawnKeysReachNothing

\* A call gets from its verification to the audit log by a verdict that was read.
LEMMA WhoIsTurnedAway ==
  ASSUME IInv, Next, NEW c \in Calls, pc[c] = "verify", pc'[c] = "append"
  PROVE  Verified(c)
<1> USE DEF IInv, CallInv
<1>1. ASSUME NEW b \in Calls, BeginVerify(b) \/ VerifierStep(b) \/ FetchEnds(b)
      PROVE  FALSE
  BY <1>1 DEF BeginVerify, VerifierStep, FetchEnds, callVars
<1>2. ASSUME NEW b \in Calls, Verified(b), b # c
      PROVE  FALSE
  BY <1>2 DEF Verified, UseClaims, Call!RefuseToken, Call!Conclude
<1>3. ~CallsGoOn
  BY DEF CallsGoOn
<1>4. ASSUME NEW b \in Calls, CallStep(b) \/ GatewayAnswers(b)
      PROVE  FALSE
  BY <1>3, <1>4, CallStepGoesOn DEF CallStep, GatewayAnswers
<1>5. ASSUME NEW b \in Calls, NEW r \in Requests, Call!Arrive(b, r)
      PROVE  FALSE
  BY <1>5 DEF Call!Arrive
<1>6. ~Surroundings /\ ~LifecycleStep
  BY <1>3, <1>5, CallStepGoesOn, LifeGoesOn DEF Surroundings, LifecycleStep
<1>7. ~Tick /\ ~\E d \in Documents : Rotate(d)
  BY DEF Tick, Rotate, callVars
<1> QED
  BY <1>1, <1>2, <1>4, <1>6, <1>7 DEF Next, OwnStep

(***************************************************************************)
(* A caller with the right scopes, issuer and audience, whose key is the same  *)
(* in every document of the window, is turned away only because its token         *)
(* expired or no keys could be fetched, never for a cache that lags behind.        *)
(***************************************************************************)
THEOREM SettledCallers == Spec => SettledCallersAreServed
<1> DEFINE P == \A c \in Calls :
       /\ pc[c] = "verify" /\ pc'[c] = "append"
       /\ Token(c).shape = "jwt"
       /\ Token(c).iss = Issuer /\ Audience \in Token(c).aud
       /\ Call!Allowed(ClaimsOf[Call!Bearer(c)].scopes, request[c].tool, Policy)
       /\ \A d \in Cache!Window : SecretsFor(c, d) = {Token(c).secret}
       => outcome[c] \in {"fetch_failed", "token_expired"}
<1>1. ASSUME IInv, Next PROVE P
  <2> SUFFICES ASSUME NEW c \in Calls, pc[c] = "verify", pc'[c] = "append",
                      Token(c).shape = "jwt", outcome[c] # "fetch_failed",
                      Token(c).iss = Issuer, Audience \in Token(c).aud,
                      Call!Allowed(ClaimsOf[Call!Bearer(c)].scopes, request[c].tool, Policy),
                      \A d \in Cache!Window : SecretsFor(c, d) = {Token(c).secret}
               PROVE  outcome[c] = "token_expired"
    OBVIOUS
  <2>1. Verified(c)
    BY <1>1, WhoIsTurnedAway
  <2>2. outcome[c] # "ok"
    BY <1>1, <2>1 DEF Verified, UseClaims, IInv, CallInv
  <2>3. Judged(c, outcome[c])
    BY <1>1, <2>1, VerifiedIsJudged
  <2>4. PICK d \in Cache!Window, left \in Nat \union {Cache!NeverExpires} :
          outcome[c] \in Cache!Verdicts(Token(c), Cache!DecodeDocument(d), left)
    BY <2>3 DEF Judged
  <2>5. SecretsFor(c, d) = {Token(c).secret}
    OBVIOUS
  <2>6. outcome[c] = Cache!Verdict(Token(c), Token(c).secret, left)
    BY <2>4, <2>5 DEF Cache!Verdicts, SecretsFor
  <2> QED
    BY <2>2, <2>6 DEF Cache!Verdict
<1>2. IInv /\ [Next]_vars => [P]_vars
  BY <1>1
<1> QED
  BY Invariance, <1>2, PTL DEF Spec, SettledCallersAreServed

-----------------------------------------------------------------------------
(***************************************************************************)
(* What is proved of the calls in ToolInvocationProofs thus holds of the        *)
(* server, with "genuine" no longer assumed but said of keys and tokens.          *)
(***************************************************************************)
Served == INSTANCE ToolInvocationProofs WITH Claims <- GenuineClaims

LEMMA CallsAssumed == Served!RequestsAssumption /\ Served!BackendAssumption
BY ServingAssumption DEF Served!RequestsAssumption, Served!BackendAssumption,
                         GenuineClaims

\* The calls take the same steps in both instances.
LEMMA SameCalls ==
  ASSUME Call!Next
  PROVE  Served!Next
BY DEF Call!Next, Served!Next, Call!CallStep, Served!CallStep, Call!Arrive,
       Served!Arrive, Call!Cancel, Served!Cancel, Call!Conclude, Served!Conclude,
       Call!RefuseToken, Served!RefuseToken, Call!AcceptToken, Served!AcceptToken,
       Call!InvokeFails, Served!InvokeFails, Call!SendToGateway,
       Served!SendToGateway, Call!GatewayApplies, Served!GatewayApplies,
       Call!GatewayRefuses, Served!GatewayRefuses, Call!GatewayReplies,
       Served!GatewayReplies, Call!CallFails, Served!CallFails, Call!AppendAudit,
       Served!AppendAudit, Call!Answer, Served!Answer, Call!AnswerTo,
       Served!AnswerTo, Call!Writable, Served!Writable, Call!Refusal, Served!Refusal,
       Call!CanAppend, Served!CanAppend, Call!Event, Served!Event,
       Call!Bearer, Served!Bearer, Call!Subject, Served!Subject, Call!ExtractBearer,
       Served!ExtractBearer, Call!EarlyAnswer, Served!EarlyAnswer,
       Call!GatewayAnswers, Served!GatewayAnswers, Call!LifecycleStep,
       Served!LifecycleStep, Call!Outage, Served!Outage, Call!Recovery,
       Served!Recovery, Call!Signal, Served!Signal, Call!ServeError,
       Served!ServeError, Call!Kill, Served!Kill, Call!Exit, Served!Exit,
       Call!ProcessEnds, Served!ProcessEnds, Call!CloseAudit, Served!CloseAudit,
       Call!ShutdownReturns, Served!ShutdownReturns, Call!DrainTick,
       Served!DrainTick, Call!Active, Served!Active, Call!Alive, Served!Alive,
       Call!Allowed, Served!Allowed, Call!HasAnyScope, Served!HasAnyScope,
       Call!HasScope, Served!HasScope, Call!LegacyAliases, Served!LegacyAliases,
       Call!LegacyRead, Served!LegacyRead, Call!LegacyWrite, Served!LegacyWrite,
       Call!AdminAll, Served!AdminAll, Call!Blank, Served!Blank, Call!Trimmed,
       Served!Trimmed, Call!callVars, Served!callVars, Call!gateway, Served!gateway,
       Call!auditStore, Served!auditStore, Call!lifecycle, Served!lifecycle

LEMMA SameCallSpec == Call!Spec => Served!Spec
<1>1. Call!Init => Served!Init
  BY DEF Call!Init, Served!Init
<1>2. [Call!Next]_(Call!vars) => [Served!Next]_(Served!vars)
  BY SameCalls DEF Call!vars, Served!vars
<1> QED
  BY <1>1, <1>2, PTL DEF Call!Spec, Served!Spec

\* Nothing reaches the gateway but for a caller whose own token some published
\* document makes valid and whose scopes cover the tool; the log and the answers
\* say what was done, once, and in whose name.
THEOREM ServerKeepsItsWord ==
  Spec => /\ []Call!OnlyEntitledCallsReachGateway
          /\ [](Call!AuditMatchesGateway /\ Call!AnswerMatchesGateway)
          /\ [](Call!OneTrueEventPerCall /\ Call!EventsNameTheCaller)
<1>1. Served!Spec => []Served!OnlyEntitledCallsReachGateway
  BY CallsAssumed, Served!Entitlement
<1>2. Served!Spec => []Served!AuditMatchesGateway
  BY CallsAssumed, Served!TruthfulLog
<1>3. Served!Spec => []Served!AnswerMatchesGateway
  BY CallsAssumed, Served!TruthfulAnswers
<1>4. Served!Spec => []Served!OneTrueEventPerCall
  BY CallsAssumed, Served!FaithfulRecords
<1>5. Served!Spec => []Served!EventsNameTheCaller
  BY CallsAssumed, Served!Attribution
<1>6. Served!OnlyEntitledCallsReachGateway => Call!OnlyEntitledCallsReachGateway
  BY DEF Served!OnlyEntitledCallsReachGateway, Call!OnlyEntitledCallsReachGateway,
         Served!OwnToken, Call!OwnToken, Served!Allowed, Call!Allowed, Served!Blank,
         Call!Blank, Served!HasAnyScope, Call!HasAnyScope, Served!HasScope,
         Call!HasScope, Served!LegacyAliases, Call!LegacyAliases, Served!LegacyRead,
         Call!LegacyRead, Served!LegacyWrite, Call!LegacyWrite, Served!AdminAll,
         Call!AdminAll, Served!Trimmed, Call!Trimmed
<1>7. Served!AuditMatchesGateway => Call!AuditMatchesGateway
  BY DEF Served!AuditMatchesGateway, Call!AuditMatchesGateway, Served!CarriedOut,
         Call!CarriedOut
<1>8. Served!AnswerMatchesGateway => Call!AnswerMatchesGateway
  BY DEF Served!AnswerMatchesGateway, Call!AnswerMatchesGateway, Served!EarlyAnswers,
         Call!EarlyAnswers, Served!CarriedOut, Call!CarriedOut
<1>9. Served!OneTrueEventPerCall => Call!OneTrueEventPerCall
  BY DEF Served!OneTrueEventPerCall, Call!OneTrueEventPerCall, Served!EarlyAnswers,
         Call!EarlyAnswers, Served!ResultsOf, Call!ResultsOf, Served!Writable,
         Call!Writable
<1>10. Served!EventsNameTheCaller => Call!EventsNameTheCaller
  BY DEF Served!EventsNameTheCaller, Call!EventsNameTheCaller, Served!OwnToken,
         Call!OwnToken
<1> QED
  BY <1>1, <1>2, <1>3, <1>4, <1>5, <1>6, <1>7, <1>8, <1>9, <1>10, SameCallSpec,
     CachedVerifierServesCalls, PTL DEF ImplementsToolInvocation

=============================================================================
