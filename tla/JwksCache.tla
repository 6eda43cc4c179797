----------------------------- MODULE JwksCache -----------------------------
(***************************************************************************)
(* internal/infrastructure/jwkscache/verifier.go: concurrent VerifyBearer    *)
(* calls over one cached JWKS document, the authorization server that         *)
(* rotates it, and the passage of time.                                       *)
(*                                                                           *)
(* The cache is read and written under a RWMutex, one atomic step each.      *)
(* Nothing is locked between the two: every call that finds the cache stale   *)
(* fetches for itself, and the last one to install wins.  Time is kept as     *)
(* ages, so that runs of any length stay finite.  A tick never falls between  *)
(* two steps that only compute (decoding to install, keys to verdict): those  *)
(* take microseconds against a tick of a second.                              *)
(***************************************************************************)
EXTENDS Jwt

CONSTANTS
  Workers,          \* requests being verified, one goroutine each
  Lifetimes,        \* ticks until exp that a presented token may have
  RefreshInterval,  \* Verifier.refreshInterval(), in ticks
  FetchTimeout      \* the ticks a fetch may last: the http.Client's timeout

ASSUME TimeAssumption ==
  /\ RefreshInterval \in Nat \ {0}
  /\ FetchTimeout \in Nat
  /\ Lifetimes \subseteq Nat \union {NeverExpires}

VARIABLES
  published,     \* the document the JWKS endpoint serves now
  lastServed,    \* ticks since each document was last served, capped
  cachedOctHS,   \* Verifier.cachedOctHS, the empty function before a fetch
  cacheAge,      \* time.Since(cachedAt), capped at RefreshInterval
  pc,            \* where each goroutine is in VerifyBearer
  token,         \* its bearer
  expiresIn,     \* ticks until the token's exp
  body,          \* the document its fetch was answered with
  keys,          \* the map it decoded or copied from the cache
  fetchAge,      \* ticks since its fetch began
  outcome        \* how its last call returned

environment == <<published, lastServed>>
cache       == <<cachedOctHS, cacheAge>>
locals      == <<token, expiresIn, body, keys, fetchAge>>
vars == <<published, lastServed, cachedOctHS, cacheAge, pc, token, expiresIn,
          body, keys, fetchAge, outcome>>

NoKeys == <<>>
NoDocument == <<>>

\* How long after a document was withdrawn a verdict may still rest on it.
Staleness == RefreshInterval + FetchTimeout

Window == {d \in Documents : lastServed[d] < Staleness}

Fresh == DOMAIN cachedOctHS # {} /\ cacheAge < RefreshInterval

Init ==
  /\ published \in Documents
  /\ lastServed = [d \in Documents |-> IF d = published THEN 0 ELSE Staleness]
  /\ cachedOctHS = NoKeys
  /\ cacheAge = RefreshInterval
  /\ pc = [w \in Workers |-> "idle"]
  /\ token = [w \in Workers |-> NoToken]
  /\ expiresIn = [w \in Workers |-> NeverExpires]
  /\ body = [w \in Workers |-> NoDocument]
  /\ keys = [w \in Workers |-> NoKeys]
  /\ fetchAge = [w \in Workers |-> 0]
  /\ outcome = [w \in Workers |-> "none"]

Goto(w, label) == pc' = [pc EXCEPT ![w] = label]

\* The call of w ends with result r and forgets its locals.
Return(w, r) ==
  /\ Goto(w, "idle")
  /\ outcome' = [outcome EXCEPT ![w] = r]
  /\ keys' = [keys EXCEPT ![w] = NoKeys]
  /\ body' = [body EXCEPT ![w] = NoDocument]
  /\ fetchAge' = [fetchAge EXCEPT ![w] = 0]
  /\ expiresIn' = [expiresIn EXCEPT ![w] = NeverExpires]
  /\ token' = [token EXCEPT ![w] = NoToken]

(***************************************************************************)
(* A request presents bearer t: the form of the token is checked before any  *)
(* key is needed.                                                             *)
(***************************************************************************)
VerifyBearer(w, t, left) ==
  /\ pc[w] = "idle"
  /\ IF t.shape = "jwt"
     THEN /\ Goto(w, "load")
          /\ token' = [token EXCEPT ![w] = t]
          /\ expiresIn' = [expiresIn EXCEPT ![w] = left]
          /\ outcome' = [outcome EXCEPT ![w] = "none"]
     ELSE /\ outcome' = [outcome EXCEPT ![w] = t.shape]
          /\ UNCHANGED <<pc, token, expiresIn>>
  /\ UNCHANGED <<environment, cache, body, keys, fetchAge>>

\* Mutant of ReadCache: a hit renews the cache.
ReadCacheSliding(w) ==
  /\ pc[w] = "load"
  /\ IF Fresh
     THEN /\ keys' = [keys EXCEPT ![w] = cachedOctHS]
          /\ cacheAge' = 0
          /\ Goto(w, "check")
     ELSE Goto(w, "fetch") /\ UNCHANGED <<keys, cacheAge>>
  /\ UNCHANGED <<environment, cachedOctHS, token, expiresIn, body, fetchAge, outcome>>

\* Mutant of ReadCache: while another call fetches, what is cached will do.
ReadCacheUnderFetch(w) ==
  /\ pc[w] = "load"
  /\ IF Fresh \/ \E other \in Workers : pc[other] = "fetch"
     THEN keys' = [keys EXCEPT ![w] = cachedOctHS] /\ Goto(w, "check")
     ELSE Goto(w, "fetch") /\ UNCHANGED keys
  /\ UNCHANGED <<environment, cache, token, expiresIn, body, fetchAge, outcome>>

\* The read-locked section of loadJWKSKeys: a fresh cache is copied, a stale
\* one starts a fetch.
ReadCache(w) ==
  /\ pc[w] = "load"
  /\ IF Fresh
     THEN /\ keys' = [keys EXCEPT ![w] = cachedOctHS]
          /\ Goto(w, "check")
     ELSE /\ Goto(w, "fetch")
          /\ UNCHANGED keys
  /\ UNCHANGED <<environment, cache, token, expiresIn, body, fetchAge, outcome>>

\* The JWKS endpoint answers the fetch with the document it publishes now.
ServeJWKS(w) ==
  /\ pc[w] = "fetch"
  /\ body' = [body EXCEPT ![w] = published]
  /\ Goto(w, "decode")
  /\ UNCHANGED <<environment, cache, token, expiresIn, keys, fetchAge, outcome>>

\* Mutant of FetchFails: what is cached is used when no answer comes.
FetchFailsStale(w) ==
  /\ pc[w] \in {"fetch", "decode"}
  /\ IF DOMAIN cachedOctHS # {}
     THEN /\ keys' = [keys EXCEPT ![w] = cachedOctHS]
          /\ body' = [body EXCEPT ![w] = NoDocument]
          /\ fetchAge' = [fetchAge EXCEPT ![w] = 0]
          /\ Goto(w, "check")
          /\ UNCHANGED <<token, expiresIn, outcome>>
     ELSE Return(w, "fetch_failed")
  /\ UNCHANGED <<environment, cache>>

\* Mutant of FetchFails: a client without a timeout.
FetchFailsOnAnswer(w) ==
  /\ pc[w] = "decode"
  /\ Return(w, "fetch_failed")
  /\ UNCHANGED <<environment, cache>>

\* Every error return of the fetch: transport, status >= 400, a body that is
\* cut or is no JSON, a cancelled request, the client's timeout.
FetchFails(w) ==
  /\ pc[w] \in {"fetch", "decode"}
  /\ Return(w, "fetch_failed")
  /\ UNCHANGED <<environment, cache>>

DecodeJWKS(w) ==
  /\ pc[w] = "decode"
  /\ IF DOMAIN DecodeDocument(body[w]) = {}
     THEN Return(w, "jwks_key_not_found")
     ELSE /\ keys' = [keys EXCEPT ![w] = DecodeDocument(body[w])]
          /\ body' = [body EXCEPT ![w] = NoDocument]
          /\ Goto(w, "install")
          /\ UNCHANGED <<token, expiresIn, fetchAge, outcome>>
  /\ UNCHANGED <<environment, cache>>

\* Mutant of InstallKeys: new keys are added to the old ones.
InstallKeysMerged(w) ==
  /\ pc[w] = "install"
  /\ cachedOctHS' = [id \in DOMAIN cachedOctHS \union DOMAIN keys[w] |->
                      IF id \in DOMAIN keys[w] THEN keys[w][id] ELSE cachedOctHS[id]]
  /\ cacheAge' = 0
  /\ fetchAge' = [fetchAge EXCEPT ![w] = 0]
  /\ Goto(w, "check")
  /\ UNCHANGED <<environment, token, expiresIn, body, keys, outcome>>

\* The write-locked section: whatever was fetched replaces the cache and
\* counts as new from now.
InstallKeys(w) ==
  /\ pc[w] = "install"
  /\ cachedOctHS' = keys[w]
  /\ cacheAge' = 0
  /\ fetchAge' = [fetchAge EXCEPT ![w] = 0]
  /\ Goto(w, "check")
  /\ UNCHANGED <<environment, token, expiresIn, body, keys, outcome>>

\* Mutant of CheckToken: the expiry is not checked.
CheckTokenTimeless(w) ==
  /\ pc[w] = "check"
  /\ \E v \in Verdicts(token[w], keys[w], NeverExpires) : Return(w, v)
  /\ UNCHANGED <<environment, cache>>

CheckToken(w) ==
  /\ pc[w] = "check"
  /\ \E v \in Verdicts(token[w], keys[w], expiresIn[w]) : Return(w, v)
  /\ UNCHANGED <<environment, cache>>

\* The authorization server publishes document d.
Rotate(d) ==
  /\ published' = d
  /\ lastServed' = [lastServed EXCEPT ![d] = 0]
  /\ UNCHANGED <<cache, pc, locals, outcome>>

Fetching(w) == pc[w] \in {"fetch", "decode"}

\* One tick passes.  The client's timeout ends a fetch before it outlives
\* FetchTimeout, and steps that only compute take no time.
Tick ==
  /\ \A w \in Workers : /\ pc[w] \notin {"install", "check"}
                        /\ Fetching(w) => fetchAge[w] < FetchTimeout
  /\ lastServed' = [d \in Documents |->
       IF d = published THEN 0
       ELSE IF lastServed[d] < Staleness THEN lastServed[d] + 1 ELSE Staleness]
  /\ cacheAge' = IF cacheAge < RefreshInterval THEN cacheAge + 1 ELSE cacheAge
  /\ expiresIn' = [w \in Workers |->
       IF expiresIn[w] > 0 THEN expiresIn[w] - 1 ELSE expiresIn[w]]
  /\ fetchAge' = [w \in Workers |->
       IF Fetching(w) THEN fetchAge[w] + 1 ELSE fetchAge[w]]
  /\ UNCHANGED <<published, cachedOctHS, pc, token, body, keys, outcome>>

Step(w) ==
  \/ ReadCache(w)
  \/ DecodeJWKS(w)
  \/ InstallKeys(w)
  \/ CheckToken(w)

Next ==
  \/ \E w \in Workers, t \in Tokens, left \in Lifetimes : VerifyBearer(w, t, left)
  \/ \E w \in Workers : Step(w) \/ ServeJWKS(w) \/ FetchFails(w)
  \/ \E d \in Documents : Rotate(d)
  \/ Tick

Spec == Init /\ [][Next]_vars

(***************************************************************************)
(* Fairness: goroutines are scheduled, the client's timeout ends a fetch      *)
(* nobody answers, and time goes on: requests do not follow each other so     *)
(* closely that some worker is computing at every instant, and a tick that    *)
(* can come again and again does come.  Nothing is asked of the JWKS           *)
(* endpoint, of rotations or of the callers.                                   *)
(***************************************************************************)
TimeoutFires(w) == fetchAge[w] = FetchTimeout /\ FetchFails(w)

Computing(w) == pc[w] \in {"install", "check"}

Fairness ==
  /\ \A w \in Workers : WF_vars(Step(w)) /\ WF_vars(TimeoutFires(w))
  /\ []<>(\A w \in Workers : ~Computing(w))
  /\ SF_vars(Tick)

FairSpec == Spec /\ Fairness
-----------------------------------------------------------------------------
Outcomes == {"none", "fetch_failed"} \union ParseErrors \union VerdictNames

KeyMaps == {NoKeys} \union {DecodeDocument(d) : d \in Documents}

(***************************************************************************)
(* Types.  Keys are always the decoding of some document: no two documents    *)
(* are ever mixed in the cache or in a worker's copy.                          *)
(***************************************************************************)
TypeOK ==
  /\ published \in Documents
  /\ lastServed \in [Documents -> 0..Staleness]
  /\ cachedOctHS \in KeyMaps
  /\ cacheAge \in 0..RefreshInterval
  /\ pc \in [Workers -> {"idle", "load", "fetch", "decode", "install", "check"}]
  /\ token \in [Workers -> Tokens \union {NoToken}]
  /\ expiresIn \in [Workers -> Nat \union {NeverExpires}]
  /\ body \in [Workers -> Documents \union {NoDocument}]
  /\ keys \in [Workers -> KeyMaps]
  /\ fetchAge \in [Workers -> 0..FetchTimeout]
  /\ outcome \in [Workers -> Outcomes]

(***************************************************************************)
(* A fresh cache is one document, withdrawn no longer ago than the cache's    *)
(* age plus one fetch, however many fetches overlap and in whatever order     *)
(* they install.                                                              *)
(***************************************************************************)
CacheIsRecentDocument ==
  Fresh => \E d \in Documents : /\ cachedOctHS = DecodeDocument(d)
                                /\ lastServed[d] <= cacheAge + FetchTimeout

\* What each worker holds between a fetch and its verdict is as recent.
HeldRecent(w) ==
  /\ pc[w] = "decode" => /\ body[w] \in Documents
                         /\ lastServed[body[w]] <= fetchAge[w]
  /\ pc[w] = "install" => /\ DOMAIN keys[w] # {}
                          /\ \E d \in Documents : /\ keys[w] = DecodeDocument(d)
                                                  /\ lastServed[d] <= fetchAge[w]
  /\ pc[w] = "check" => /\ DOMAIN keys[w] # {}
                        /\ \E d \in Window : keys[w] = DecodeDocument(d)

\* The keys in the hands of a call are as recent as its own fetch.
HeldKeysAreRecent == \A w \in Workers : HeldRecent(w)

Answers(w) == pc[w] # "idle" /\ pc'[w] = "idle"

(***************************************************************************)
(* A key the authorization server withdrew stops being accepted after at     *)
(* most one refresh interval and one fetch: an accepted token is signed by a  *)
(* secret of a document served within that window, under the token's kid.     *)
(***************************************************************************)
WithdrawnKeysExpire ==
  [][\A w \in Workers : Answers(w) /\ outcome'[w] = "ok" =>
       \E d \in Window :
         token[w].secret \in SelectSecrets(DecodeDocument(d), token[w].kid)]_vars

(***************************************************************************)
(* A token whose kid selects its signing secret in every document of the     *)
(* window is never refused for its key: rotation only affects tokens whose    *)
(* key really changed within the window.                                      *)
(***************************************************************************)
SettledKeysAreAccepted ==
  [][\A w \in Workers :
       /\ Answers(w)
       /\ \A d \in Window : SelectSecrets(DecodeDocument(d), token[w].kid)
                              = {token[w].secret}
       => outcome'[w] \notin {"jwks_key_not_found", "invalid_sig"}]_vars

(***************************************************************************)
(* Once the server settles on a document, every verdict eventually rests on  *)
(* it: a slow fetch that overwrote the cache with older keys does not last.    *)
(***************************************************************************)
RotationTakesEffect ==
  \A d \in Documents :
    <>[](published = d) =>
      <>[](\A w \in Workers : pc[w] = "check" => keys[w] = DecodeDocument(d))

(***************************************************************************)
(* The cache implements the verifier its callers are promised.                *)
(***************************************************************************)
phase == [w \in Workers |-> IF pc[w] = "idle" THEN "idle" ELSE "busy"]

Verifier == INSTANCE TokenVerifier WITH phase <- phase, Staleness <- Staleness

\* Every step of the cached, concurrent VerifyBearer is one the promise allows.
ImplementsTokenVerifier == Verifier!SafeSpec

\* The same, and every verification answers.
ImplementsFairTokenVerifier == Verifier!Spec

=============================================================================
