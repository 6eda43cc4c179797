-------------------------- MODULE JwksCacheProofs --------------------------
(***************************************************************************)
(* Proofs about JwksCache for any number of workers, documents, tokens and    *)
(* ticks: types, the age of the cache and of every worker's keys, how long a  *)
(* withdrawn key is accepted, and that the cache implements TokenVerifier.     *)
(***************************************************************************)
EXTENDS JwksCache, TLAPS

\* The document published now has, by definition, just been served.
PublishedIsCurrent == lastServed[published] = 0

\* Keys in a worker's hands were never held back in the decoding step.
IInv == TypeOK /\ PublishedIsCurrent /\ CacheIsRecentDocument /\ HeldKeysAreRecent

USE TimeAssumption, TokensAssumption

\* The verdict on a token is one of the results a verification may have.
LEMMA VerdictsAreOutcomes ==
  ASSUME NEW t, NEW ks, NEW left, NEW v \in Verdicts(t, ks, left)
  PROVE  v \in Outcomes
BY DEF Verdicts, Verdict, Outcomes, VerdictNames

\* Initially nothing is cached, nobody holds keys and the types are right.
LEMMA InitInvariant == Init => IInv
<1> SUFFICES ASSUME Init PROVE IInv
  OBVIOUS
<1>1. Staleness \in Nat /\ RefreshInterval \in Nat /\ FetchTimeout \in Nat
  BY DEF Staleness
<1>2. TypeOK
  BY <1>1 DEF Init, TypeOK, KeyMaps, Outcomes, NeverExpires
<1>3. PublishedIsCurrent
  BY DEF Init, PublishedIsCurrent
<1>4. CacheIsRecentDocument
  BY <1>1 DEF Init, CacheIsRecentDocument, Fresh
<1>5. HeldKeysAreRecent
  BY DEF Init, HeldKeysAreRecent, HeldRecent
<1> QED
  BY <1>2, <1>3, <1>4, <1>5 DEF IInv

\* A call that returns leaves well-typed locals behind.
LEMMA ReturnType ==
  ASSUME TypeOK, NEW w \in Workers, NEW r \in Outcomes,
         Return(w, r), UNCHANGED <<environment, cache>>
  PROVE  TypeOK'
BY DEF TypeOK, Return, Goto, environment, cache, KeyMaps, NeverExpires

(***************************************************************************)
(* Every action keeps the types.                                              *)
(***************************************************************************)
LEMMA StepType == IInv /\ [Next]_vars => TypeOK'
<1> SUFFICES ASSUME TypeOK, HeldKeysAreRecent, [Next]_vars PROVE TypeOK'
  BY DEF IInv
<1> USE DEF TypeOK
<1>0. Staleness \in Nat /\ RefreshInterval \in Nat /\ FetchTimeout \in Nat
  BY DEF Staleness
<1>1. ASSUME NEW w \in Workers, NEW t \in Tokens, NEW left \in Lifetimes,
             VerifyBearer(w, t, left)
      PROVE  TypeOK'
  BY <1>1 DEF VerifyBearer, Goto, environment, cache, Outcomes
<1>2. ASSUME NEW w \in Workers, ReadCache(w) PROVE TypeOK'
  BY <1>2 DEF ReadCache, Goto, environment, cache
<1>3. ASSUME NEW w \in Workers, ServeJWKS(w) PROVE TypeOK'
  BY <1>3 DEF ServeJWKS, Goto, environment, cache
<1>4. ASSUME NEW w \in Workers, FetchFails(w) PROVE TypeOK'
  <2>1. "fetch_failed" \in Outcomes
    BY DEF Outcomes
  <2> QED
    BY <1>4, <2>1, ReturnType DEF FetchFails
<1>5. ASSUME NEW w \in Workers, DecodeJWKS(w) PROVE TypeOK'
  <2>1. body[w] \in Documents
    BY <1>5 DEF DecodeJWKS, HeldKeysAreRecent, HeldRecent
  <2>2. DecodeDocument(body[w]) \in KeyMaps
    BY <2>1 DEF KeyMaps
  <2>3. CASE DOMAIN DecodeDocument(body[w]) = {}
    <3>1. "jwks_key_not_found" \in Outcomes
      BY DEF Outcomes, VerdictNames
    <3> QED
      BY <1>5, <2>3, <3>1, ReturnType DEF DecodeJWKS
  <2>4. CASE DOMAIN DecodeDocument(body[w]) # {}
    <3>1. /\ keys' = [keys EXCEPT ![w] = DecodeDocument(body[w])]
          /\ body' = [body EXCEPT ![w] = NoDocument]
          /\ pc' = [pc EXCEPT ![w] = "install"]
          /\ UNCHANGED <<token, expiresIn, fetchAge, outcome, published, lastServed,
                         cachedOctHS, cacheAge>>
      BY <1>5, <2>4 DEF DecodeJWKS, Goto, environment, cache
    <3>2. keys' \in [Workers -> KeyMaps]
      BY <2>2, <3>1
    <3> QED
      BY <3>1, <3>2
  <2> QED
    BY <2>3, <2>4
<1>6. ASSUME NEW w \in Workers, InstallKeys(w) PROVE TypeOK'
  BY <1>6, <1>0 DEF InstallKeys, Goto, environment
<1>7. ASSUME NEW w \in Workers, CheckToken(w) PROVE TypeOK'
  <2>1. PICK v \in Verdicts(token[w], keys[w], expiresIn[w]) : Return(w, v)
    BY <1>7 DEF CheckToken
  <2>2. v \in Outcomes
    BY <2>1, VerdictsAreOutcomes
  <2> QED
    BY <1>7, <2>1, <2>2, ReturnType DEF CheckToken
<1>8. ASSUME NEW d \in Documents, Rotate(d) PROVE TypeOK'
  BY <1>8, <1>0 DEF Rotate, cache, locals
<1>9. CASE Tick
  <2>1. lastServed' \in [Documents -> 0..Staleness]
    BY <1>9, <1>0 DEF Tick
  <2>2. cacheAge' \in 0..RefreshInterval
    BY <1>9, <1>0 DEF Tick
  <2>3. expiresIn' \in [Workers -> Nat \union {NeverExpires}]
    BY <1>9 DEF Tick, NeverExpires
  <2>4. fetchAge' \in [Workers -> 0..FetchTimeout]
    BY <1>9, <1>0 DEF Tick, Fetching
  <2> QED
    BY <1>9, <2>1, <2>2, <2>3, <2>4 DEF Tick
<1>10. CASE UNCHANGED vars
  BY <1>10 DEF vars
<1> QED
  BY <1>1, <1>2, <1>3, <1>4, <1>5, <1>6, <1>7, <1>8, <1>9, <1>10 DEF Next, Step

-----------------------------------------------------------------------------
\* The current document stays the current one, whatever happens.
LEMMA StepPublished == IInv /\ [Next]_vars => PublishedIsCurrent'
<1> SUFFICES ASSUME TypeOK, PublishedIsCurrent, [Next]_vars
             PROVE  PublishedIsCurrent'
  BY DEF IInv
<1> USE DEF TypeOK, PublishedIsCurrent
<1>1. ASSUME NEW d \in Documents, Rotate(d) PROVE PublishedIsCurrent'
  BY <1>1 DEF Rotate
<1>2. CASE Tick
  BY <1>2 DEF Tick
<1>3. ASSUME UNCHANGED environment PROVE PublishedIsCurrent'
  BY <1>3 DEF environment
<1>4. ASSUME NEW w \in Workers, NEW t \in Tokens, NEW left \in Lifetimes,
             VerifyBearer(w, t, left)
      PROVE  UNCHANGED environment
  BY <1>4 DEF VerifyBearer, environment
<1>5. ASSUME NEW w \in Workers, Step(w) \/ ServeJWKS(w) \/ FetchFails(w)
      PROVE  UNCHANGED environment
  BY <1>5 DEF Step, ServeJWKS, FetchFails, ReadCache, DecodeJWKS, InstallKeys,
              CheckToken, environment
<1>6. CASE UNCHANGED vars
  BY <1>6 DEF vars
<1> QED
  BY <1>1, <1>2, <1>3, <1>4, <1>5, <1>6 DEF Next

(***************************************************************************)
(* The cache ages with the documents: only a tick and an installation change *)
(* the relation between them, and what is installed is one fetch old.         *)
(***************************************************************************)
LEMMA StepCache == IInv /\ [Next]_vars => CacheIsRecentDocument'
<1> SUFFICES ASSUME IInv, [Next]_vars PROVE CacheIsRecentDocument'
  OBVIOUS
<1> USE DEF IInv, TypeOK
<1>0. Staleness \in Nat /\ RefreshInterval \in Nat /\ FetchTimeout \in Nat
  BY DEF Staleness
<1>1. ASSUME NEW d \in Documents, Rotate(d) PROVE CacheIsRecentDocument'
  <2>1. \A e \in Documents : lastServed'[e] <= lastServed[e]
    BY <1>1, <1>0 DEF Rotate
  <2>2. \A e \in Documents : lastServed'[e] \in Nat /\ lastServed[e] \in Nat
    BY <1>1, <1>0 DEF Rotate
  <2> QED
    BY <1>1, <1>0, <2>1, <2>2 DEF Rotate, cache, CacheIsRecentDocument, Fresh
<1>2. CASE Tick
  <2> SUFFICES ASSUME Fresh'
               PROVE  \E d \in Documents :
                        /\ cachedOctHS' = DecodeDocument(d)
                        /\ lastServed'[d] <= cacheAge' + FetchTimeout
    BY DEF CacheIsRecentDocument
  <2>1. Fresh /\ cacheAge' = cacheAge + 1 /\ cachedOctHS' = cachedOctHS
    BY <1>2, <1>0 DEF Tick, Fresh
  <2>2. PICK d \in Documents : /\ cachedOctHS = DecodeDocument(d)
                               /\ lastServed[d] <= cacheAge + FetchTimeout
    BY <2>1 DEF CacheIsRecentDocument
  <2>3. lastServed'[d] <= lastServed[d] + 1
    BY <1>2, <1>0 DEF Tick
  <2>4. lastServed'[d] \in Nat
    BY <1>2, <1>0 DEF Tick
  <2> QED
    BY <1>0, <2>1, <2>2, <2>3, <2>4
<1>3. ASSUME NEW w \in Workers, InstallKeys(w) PROVE CacheIsRecentDocument'
  <2>1. PICK d \in Documents : /\ keys[w] = DecodeDocument(d)
                               /\ lastServed[d] <= fetchAge[w]
    BY <1>3 DEF InstallKeys, HeldKeysAreRecent, HeldRecent
  <2>2. cachedOctHS' = DecodeDocument(d) /\ cacheAge' = 0 /\ lastServed' = lastServed
    BY <1>3, <2>1 DEF InstallKeys, environment
  <2>3. lastServed'[d] <= cacheAge' + FetchTimeout
    BY <1>0, <2>1, <2>2
  <2> QED
    BY <2>2, <2>3 DEF CacheIsRecentDocument
<1>4. ASSUME UNCHANGED <<environment, cache>> PROVE CacheIsRecentDocument'
  BY <1>4 DEF environment, cache, CacheIsRecentDocument, Fresh
<1>5. ASSUME NEW w \in Workers, NEW t \in Tokens, NEW left \in Lifetimes,
             VerifyBearer(w, t, left)
      PROVE  UNCHANGED <<environment, cache>>
  BY <1>5 DEF VerifyBearer
<1>6. ASSUME NEW w \in Workers,
             \/ ReadCache(w) \/ DecodeJWKS(w) \/ CheckToken(w)
             \/ ServeJWKS(w) \/ FetchFails(w)
      PROVE  UNCHANGED <<environment, cache>>
  BY <1>6 DEF ReadCache, DecodeJWKS, CheckToken, ServeJWKS, FetchFails
<1>7. CASE UNCHANGED vars
  BY <1>4, <1>7 DEF vars, environment, cache
<1> QED
  BY <1>1, <1>2, <1>3, <1>4, <1>5, <1>6, <1>7 DEF Next, Step

(***************************************************************************)
(* What a worker holds ages with its fetch; the copy of a fresh cache and the *)
(* keys it installed itself lie in the window when it comes to the verdict.   *)
(***************************************************************************)
LEMMA StepHeld == IInv /\ [Next]_vars => HeldKeysAreRecent'
<1> SUFFICES ASSUME IInv, [Next]_vars, NEW v \in Workers PROVE HeldRecent(v)'
  BY DEF HeldKeysAreRecent
<1> USE DEF IInv, TypeOK
<1>0. /\ Staleness \in Nat /\ RefreshInterval \in Nat /\ FetchTimeout \in Nat
      /\ HeldRecent(v)
      /\ Staleness = RefreshInterval + FetchTimeout /\ RefreshInterval > 0
  BY DEF Staleness, HeldKeysAreRecent
<1>a. ASSUME UNCHANGED <<environment, pc[v], keys[v], body[v], fetchAge[v]>>
      PROVE  HeldRecent(v)'
  BY <1>0, <1>a DEF HeldRecent, environment, Window
<1>b. ASSUME pc'[v] \in {"idle", "load", "fetch"} PROVE HeldRecent(v)'
  BY <1>b DEF HeldRecent
<1>1. ASSUME NEW w \in Workers, NEW t \in Tokens, NEW left \in Lifetimes,
             VerifyBearer(w, t, left)
      PROVE  HeldRecent(v)'
  <2>1. CASE v = w
    BY <1>1, <1>b, <2>1 DEF VerifyBearer, Goto
  <2>2. CASE v # w
    BY <1>1, <1>a, <2>2 DEF VerifyBearer, Goto
  <2> QED
    BY <2>1, <2>2
<1>2. ASSUME NEW w \in Workers, ReadCache(w) PROVE HeldRecent(v)'
  <2>1. CASE v = w /\ Fresh
    <3>1. PICK d \in Documents : /\ cachedOctHS = DecodeDocument(d)
                                 /\ lastServed[d] <= cacheAge + FetchTimeout
      BY <2>1 DEF CacheIsRecentDocument
    <3>2. d \in Window' /\ DOMAIN cachedOctHS # {}
      BY <1>0, <1>2, <2>1, <3>1 DEF ReadCache, Fresh, Window, environment
    <3>3. pc'[v] = "check" /\ keys'[v] = cachedOctHS
      BY <1>2, <2>1 DEF ReadCache, Goto
    <3> QED
      BY <3>1, <3>2, <3>3 DEF HeldRecent
  <2>2. CASE v = w /\ ~Fresh
    BY <1>2, <1>b, <2>2 DEF ReadCache, Goto
  <2>3. CASE v # w
    BY <1>2, <1>a, <2>3 DEF ReadCache, Goto
  <2> QED
    BY <2>1, <2>2, <2>3
<1>3. ASSUME NEW w \in Workers, ServeJWKS(w) PROVE HeldRecent(v)'
  <2>1. CASE v = w
    BY <1>0, <1>3, <2>1 DEF ServeJWKS, Goto, HeldRecent, environment,
                            PublishedIsCurrent
  <2>2. CASE v # w
    BY <1>3, <1>a, <2>2 DEF ServeJWKS, Goto
  <2> QED
    BY <2>1, <2>2
<1>4. ASSUME NEW w \in Workers, FetchFails(w) PROVE HeldRecent(v)'
  <2>1. CASE v = w
    BY <1>4, <1>b, <2>1 DEF FetchFails, Return, Goto
  <2>2. CASE v # w
    BY <1>4, <1>a, <2>2 DEF FetchFails, Return, Goto
  <2> QED
    BY <2>1, <2>2
<1>5. ASSUME NEW w \in Workers, DecodeJWKS(w) PROVE HeldRecent(v)'
  <2>1. CASE v = w /\ DOMAIN DecodeDocument(body[w]) = {}
    BY <1>5, <1>b, <2>1 DEF DecodeJWKS, Return, Goto
  <2>2. CASE v = w /\ DOMAIN DecodeDocument(body[w]) # {}
    <3>1. body[v] \in Documents /\ lastServed[body[v]] <= fetchAge[v]
      BY <1>0, <1>5, <2>2 DEF DecodeJWKS, HeldRecent
    <3>2. /\ pc'[v] = "install" /\ keys'[v] = DecodeDocument(body[v])
          /\ UNCHANGED <<lastServed, fetchAge>>
      BY <1>5, <2>2 DEF DecodeJWKS, Goto, environment
    <3> QED
      BY <2>2, <3>1, <3>2 DEF HeldRecent
  <2>3. CASE v # w
    BY <1>5, <1>a, <2>3 DEF DecodeJWKS, Return, Goto
  <2> QED
    BY <2>1, <2>2, <2>3
<1>6. ASSUME NEW w \in Workers, InstallKeys(w) PROVE HeldRecent(v)'
  <2>1. CASE v = w
    <3>1. PICK d \in Documents : /\ keys[v] = DecodeDocument(d)
                                 /\ lastServed[d] <= fetchAge[v]
      BY <1>0, <1>6, <2>1 DEF InstallKeys, HeldRecent
    <3>2. d \in Window'
      BY <1>0, <1>6, <3>1 DEF InstallKeys, Window, environment
    <3> QED
      BY <1>0, <1>6, <2>1, <3>1, <3>2 DEF InstallKeys, Goto, HeldRecent
  <2>2. CASE v # w
    BY <1>6, <1>a, <2>2 DEF InstallKeys, Goto
  <2> QED
    BY <2>1, <2>2
<1>7. ASSUME NEW w \in Workers, CheckToken(w) PROVE HeldRecent(v)'
  <2>1. CASE v = w
    BY <1>7, <1>b, <2>1 DEF CheckToken, Return, Goto
  <2>2. CASE v # w
    BY <1>7, <1>a, <2>2 DEF CheckToken, Return, Goto
  <2> QED
    BY <2>1, <2>2
<1>8. ASSUME NEW d \in Documents, Rotate(d) PROVE HeldRecent(v)'
  <2>1. \A e \in Documents : /\ lastServed'[e] <= lastServed[e]
                              /\ lastServed'[e] \in Nat /\ lastServed[e] \in Nat
    BY <1>0, <1>8 DEF Rotate
  <2>2. Window \subseteq Window' /\ UNCHANGED <<pc, keys, body, fetchAge>>
    BY <1>0, <1>8, <2>1 DEF Rotate, Window, locals
  <2> QED
    BY <1>0, <2>1, <2>2 DEF HeldRecent
<1>9. CASE Tick
  <2>1. \A e \in Documents : lastServed'[e] \in Nat /\ lastServed'[e] <= lastServed[e] + 1
    BY <1>0, <1>9 DEF Tick
  <2>2. pc' = pc /\ body' = body /\ pc[v] \notin {"install", "check"}
    BY <1>9 DEF Tick
  <2>3. pc[v] = "decode" => fetchAge'[v] = fetchAge[v] + 1
    BY <1>9 DEF Tick, Fetching
  <2> QED
    BY <1>0, <2>1, <2>2, <2>3 DEF HeldRecent
<1>10. CASE UNCHANGED vars
  BY <1>a, <1>10 DEF vars, environment
<1> QED
  BY <1>1, <1>2, <1>3, <1>4, <1>5, <1>6, <1>7, <1>8, <1>9, <1>10 DEF Next, Step

-----------------------------------------------------------------------------
\* Types, the age of the cache and the age of held keys, in every state.
THEOREM Invariance == Spec => []IInv
<1>1. IInv /\ [Next]_vars => IInv'
  BY StepType, StepPublished, StepCache, StepHeld DEF IInv
<1> QED
  BY InitInvariant, <1>1, PTL DEF Spec

\* Every variable has its type, and every key map is one whole document.
THEOREM TypeCorrect == Spec => []TypeOK
<1>1. IInv => TypeOK
  BY DEF IInv
<1> QED
  BY Invariance, <1>1, PTL

\* A fresh cache is no older than its age plus one fetch.
THEOREM CacheAgeBounded == Spec => []CacheIsRecentDocument
<1>1. IInv => CacheIsRecentDocument
  BY DEF IInv
<1> QED
  BY Invariance, <1>1, PTL

\* Only three steps end a verification.
LEMMA HowCallsEnd ==
  ASSUME TypeOK, Next, NEW w \in Workers, Answers(w)
  PROVE  FetchFails(w) \/ DecodeJWKS(w) \/ CheckToken(w)
<1> USE DEF TypeOK, Answers
<1>1. ASSUME NEW v \in Workers, NEW t \in Tokens, NEW left \in Lifetimes,
             VerifyBearer(v, t, left)
      PROVE  FALSE
  BY <1>1 DEF VerifyBearer, Goto
<1>2. ASSUME NEW v \in Workers, Step(v) \/ ServeJWKS(v) \/ FetchFails(v)
      PROVE  FetchFails(w) \/ DecodeJWKS(w) \/ CheckToken(w)
  BY <1>2 DEF Step, ReadCache, ServeJWKS, FetchFails, DecodeJWKS, InstallKeys,
              CheckToken, Return, Goto
<1>3. ASSUME NEW d \in Documents, Rotate(d) PROVE FALSE
  BY <1>3 DEF Rotate
<1>4. CASE Tick
  BY <1>4 DEF Tick
<1> QED
  BY <1>1, <1>2, <1>3, <1>4 DEF Next

\* A verdict on the token's key comes from the keys of one recent document.
LEMMA VerdictRestsOnWindow ==
  ASSUME IInv, Next, NEW w \in Workers, Answers(w)
  PROVE  \/ outcome'[w] = "fetch_failed"
         \/ \E d \in Window :
              outcome'[w] \in Verdicts(token[w], DecodeDocument(d), expiresIn[w])
<1> USE DEF IInv, TypeOK
<1>0. Staleness \in Nat /\ Staleness > FetchTimeout
  BY DEF Staleness
<1>1. CASE FetchFails(w)
  BY <1>1 DEF FetchFails, Return
<1>2. CASE DecodeJWKS(w)
  <2>1. body[w] \in Documents /\ lastServed[body[w]] <= fetchAge[w]
    BY <1>2 DEF DecodeJWKS, HeldKeysAreRecent, HeldRecent
  <2>2. body[w] \in Window
    BY <1>0, <2>1 DEF Window
  <2>3. DOMAIN DecodeDocument(body[w]) = {} /\ Return(w, "jwks_key_not_found")
    BY <1>2 DEF DecodeJWKS, Answers, Goto
  <2>4. SelectSecrets(DecodeDocument(body[w]), token[w].kid) = {}
    BY <2>3 DEF SelectSecrets, Range
  <2> QED
    BY <2>2, <2>3, <2>4 DEF Return, Verdicts
<1>3. CASE CheckToken(w)
  <2>1. PICK d \in Window : keys[w] = DecodeDocument(d)
    BY <1>3 DEF CheckToken, HeldKeysAreRecent, HeldRecent
  <2>2. PICK v \in Verdicts(token[w], keys[w], expiresIn[w]) : outcome'[w] = v
    BY <1>3 DEF CheckToken, Return
  <2> QED
    BY <2>1, <2>2
<1> QED
  BY <1>1, <1>2, <1>3, HowCallsEnd

(***************************************************************************)
(* A withdrawn key is accepted for at most RefreshInterval + FetchTimeout     *)
(* ticks.                                                                     *)
(***************************************************************************)
THEOREM WithdrawnKeys == Spec => WithdrawnKeysExpire
<1> DEFINE P == \A w \in Workers : Answers(w) /\ outcome'[w] = "ok" =>
                  \E d \in Window :
                    token[w].secret \in SelectSecrets(DecodeDocument(d), token[w].kid)
<1>1. ASSUME IInv, Next PROVE P
  <2> SUFFICES ASSUME NEW w \in Workers, Answers(w), outcome'[w] = "ok"
               PROVE  \E d \in Window : token[w].secret \in
                        SelectSecrets(DecodeDocument(d), token[w].kid)
    OBVIOUS
  <2>1. PICK d \in Window :
          "ok" \in Verdicts(token[w], DecodeDocument(d), expiresIn[w])
    BY <1>1, VerdictRestsOnWindow
  <2>2. PICK s \in SelectSecrets(DecodeDocument(d), token[w].kid) :
          "ok" = Verdict(token[w], s, expiresIn[w])
    BY <2>1 DEF Verdicts
  <2>3. s = token[w].secret
    BY <2>2 DEF Verdict
  <2> QED
    BY <2>2, <2>3
<1>2. IInv /\ [Next]_vars => [P]_vars
  BY <1>1
<1> QED
  BY Invariance, <1>2, PTL DEF Spec, WithdrawnKeysExpire

(***************************************************************************)
(* A token whose key did not change within the window is not refused for its *)
(* key.                                                                       *)
(***************************************************************************)
THEOREM SettledKeys == Spec => SettledKeysAreAccepted
<1> DEFINE P == \A w \in Workers :
       /\ Answers(w)
       /\ \A d \in Window : SelectSecrets(DecodeDocument(d), token[w].kid)
                              = {token[w].secret}
       => outcome'[w] \notin {"jwks_key_not_found", "invalid_sig"}
<1>1. ASSUME IInv, Next PROVE P
  <2> SUFFICES ASSUME NEW w \in Workers, Answers(w), outcome'[w] # "fetch_failed",
                      \A d \in Window :
                        SelectSecrets(DecodeDocument(d), token[w].kid)
                          = {token[w].secret}
               PROVE  outcome'[w] \notin {"jwks_key_not_found", "invalid_sig"}
    OBVIOUS
  <2>1. PICK d \in Window :
          outcome'[w] \in Verdicts(token[w], DecodeDocument(d), expiresIn[w])
    BY <1>1, VerdictRestsOnWindow
  <2>2. SelectSecrets(DecodeDocument(d), token[w].kid) = {token[w].secret}
    OBVIOUS
  <2>3. outcome'[w] = Verdict(token[w], token[w].secret, expiresIn[w])
    BY <2>1, <2>2 DEF Verdicts
  <2> QED
    BY <2>3 DEF Verdict
<1>2. IInv /\ [Next]_vars => [P]_vars
  BY <1>1
<1> QED
  BY Invariance, <1>2, PTL DEF Spec, SettledKeysAreAccepted

-----------------------------------------------------------------------------
(***************************************************************************)
(* Refinement: the cache's own steps are invisible, the three steps that end *)
(* a call are the abstract Answer, the rest maps to its namesake.             *)
(***************************************************************************)
LEMMA InitRefines == Init => Verifier!Init
BY DEF Init, Verifier!Init, phase, NeverExpires, Verifier!NeverExpires

\* The abstract module judges tokens with the same functions.
LEMMA SameVerdicts ==
  ASSUME NEW t, NEW d, NEW left
  PROVE  Verifier!Verdicts(t, Verifier!DecodeDocument(d), left)
           = Verdicts(t, DecodeDocument(d), left)
<1>1. Verifier!DecodeDocument(d) = DecodeDocument(d)
  BY DEF Verifier!DecodeDocument, DecodeDocument, Verifier!KidAt, KidAt
<1>2. ASSUME NEW ks PROVE Verifier!SelectSecrets(ks, t.kid) = SelectSecrets(ks, t.kid)
  BY DEF Verifier!SelectSecrets, SelectSecrets, Verifier!Range, Range
<1>3. ASSUME NEW s PROVE Verifier!Verdict(t, s, left) = Verdict(t, s, left)
  BY DEF Verifier!Verdict, Verdict
<1> QED
  BY <1>1, <1>2, <1>3 DEF Verifier!Verdicts, Verdicts

\* A call that returns answers as the verifier without a cache may.
LEMMA AnswerRefines ==
  ASSUME IInv, Next, NEW w \in Workers, Answers(w)
  PROVE  Verifier!Answer(w)
<1> USE DEF IInv, TypeOK
<1>1. PICK r : Return(w, r) /\ UNCHANGED <<environment, cache>>
  <2>1. CASE FetchFails(w)
    BY <2>1 DEF FetchFails
  <2>2. CASE DecodeJWKS(w)
    BY <2>2 DEF DecodeJWKS, Answers, Goto
  <2>3. CASE CheckToken(w)
    BY <2>3 DEF CheckToken
  <2> QED
    BY <2>1, <2>2, <2>3, HowCallsEnd
<1>2. outcome' = [outcome EXCEPT ![w] = r] /\ outcome'[w] = r
  BY <1>1 DEF Return
<1>3. phase[w] = "busy" /\ phase' = [phase EXCEPT ![w] = "idle"]
  BY <1>1 DEF Answers, phase, Return, Goto
<1>4. /\ expiresIn' = [expiresIn EXCEPT ![w] = NeverExpires]
      /\ token' = [token EXCEPT ![w] = NoToken]
      /\ UNCHANGED <<published, lastServed>>
  BY <1>1 DEF Return, environment
<1>5. Window = Verifier!Window
  BY DEF Window, Verifier!Window
<1>6. \/ outcome' = [outcome EXCEPT ![w] = "fetch_failed"]
      \/ \E d \in Window :
           \E v \in Verdicts(token[w], DecodeDocument(d), expiresIn[w]) :
             outcome' = [outcome EXCEPT ![w] = v]
  BY <1>2, VerdictRestsOnWindow
<1> QED
  BY <1>3, <1>4, <1>5, <1>6, SameVerdicts
     DEF Verifier!Answer, NeverExpires, Verifier!NeverExpires

\* Every step is a step of the verifier without a cache, or a stutter of it.
LEMMA StepRefines == IInv /\ [Next]_vars => [Verifier!Next]_(Verifier!abstractVars)
<1> SUFFICES ASSUME IInv, [Next]_vars
             PROVE  Verifier!Next \/ UNCHANGED Verifier!abstractVars
  OBVIOUS
<1> USE DEF IInv, TypeOK
<1>1. ASSUME NEW w \in Workers, NEW t \in Tokens, NEW left \in Lifetimes,
             VerifyBearer(w, t, left)
      PROVE  Verifier!Begin(w, t, left)
  BY <1>1 DEF VerifyBearer, Verifier!Begin, phase, Goto, environment
<1>2. ASSUME NEW w \in Workers, Next, Answers(w) PROVE Verifier!Next
  BY <1>2, AnswerRefines DEF Verifier!Next
<1>3. ASSUME NEW w \in Workers, ~Answers(w),
             Step(w) \/ ServeJWKS(w) \/ FetchFails(w)
      PROVE  UNCHANGED Verifier!abstractVars
  <2>1. pc[w] # "idle" /\ pc'[w] # "idle"
    BY <1>3 DEF Step, ReadCache, ServeJWKS, FetchFails, DecodeJWKS, InstallKeys,
                CheckToken, Answers
  <2>2. \A r : ~Return(w, r)
    BY <2>1 DEF Return, Goto
  <2>3. ReadCache(w) \/ ServeJWKS(w) \/ DecodeJWKS(w) \/ InstallKeys(w)
    BY <1>3, <2>2 DEF Step, FetchFails, CheckToken
  <2>a. UNCHANGED <<published, lastServed, token, expiresIn, outcome>>
    BY <2>2, <2>3 DEF ReadCache, ServeJWKS, DecodeJWKS, InstallKeys, environment
  <2>b. \E label : Goto(w, label)
    BY <2>2, <2>3 DEF ReadCache, ServeJWKS, DecodeJWKS, InstallKeys
  <2>4. UNCHANGED phase
    BY <2>1, <2>b DEF phase, Goto
  <2> QED
    BY <2>a, <2>4 DEF Verifier!abstractVars
<1>4. ASSUME NEW d \in Documents, Rotate(d) PROVE Verifier!Rotate(d)
  BY <1>4 DEF Rotate, Verifier!Rotate, locals, phase
<1>5. CASE Tick
  BY <1>5 DEF Tick, Verifier!Tick, Verifier!Next, phase
<1>6. CASE UNCHANGED vars
  BY <1>6 DEF vars, Verifier!abstractVars, phase
<1> QED
  BY <1>1, <1>2, <1>3, <1>4, <1>5, <1>6 DEF Next, Verifier!Next

\* The cache implements the verifier that ports.TokenVerifier promises.
THEOREM Refinement == Spec => ImplementsTokenVerifier
BY Invariance, InitRefines, StepRefines, PTL
   DEF Spec, ImplementsTokenVerifier, Verifier!SafeSpec

=============================================================================
