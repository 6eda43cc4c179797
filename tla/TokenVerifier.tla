--------------------------- MODULE TokenVerifier ---------------------------
(***************************************************************************)
(* What ports.TokenVerifier promises its callers, without a cache: a         *)
(* verification that is not refused by the form of the token answers as if   *)
(* it had read ONE document the authorization server published within the    *)
(* last Staleness ticks (the server may rotate its keys at any time), with    *)
(* the expiry judged at the time of the answer; or it reports that the keys   *)
(* could not be fetched.  Every verification answers.                         *)
(***************************************************************************)
EXTENDS Jwt

CONSTANTS Workers,      \* the requests being served, each in its own goroutine
          Lifetimes,    \* ticks until exp that a presented token may have
          Staleness     \* how long a withdrawn document may still be used

VARIABLES published,    \* the document the JWKS endpoint serves now
          lastServed,   \* ticks since each document was last served, capped
          phase,        \* phase[w] is "idle" or "busy"
          token, expiresIn, outcome

abstractVars == <<published, lastServed, phase, token, expiresIn, outcome>>

Window == {d \in Documents : lastServed[d] < Staleness}

Init ==
  /\ published \in Documents
  /\ lastServed = [d \in Documents |-> IF d = published THEN 0 ELSE Staleness]
  /\ phase = [w \in Workers |-> "idle"]
  /\ token = [w \in Workers |-> NoToken]
  /\ expiresIn = [w \in Workers |-> NeverExpires]
  /\ outcome = [w \in Workers |-> "none"]

Begin(w, t, left) ==
  /\ phase[w] = "idle"
  /\ IF t.shape = "jwt"
     THEN /\ phase' = [phase EXCEPT ![w] = "busy"]
          /\ token' = [token EXCEPT ![w] = t]
          /\ expiresIn' = [expiresIn EXCEPT ![w] = left]
          /\ outcome' = [outcome EXCEPT ![w] = "none"]
     ELSE /\ outcome' = [outcome EXCEPT ![w] = t.shape]
          /\ UNCHANGED <<phase, token, expiresIn>>
  /\ UNCHANGED <<published, lastServed>>

Answer(w) ==
  /\ phase[w] = "busy"
  /\ phase' = [phase EXCEPT ![w] = "idle"]
  /\ \/ outcome' = [outcome EXCEPT ![w] = "fetch_failed"]
     \/ \E d \in Window :
          \E v \in Verdicts(token[w], DecodeDocument(d), expiresIn[w]) :
            outcome' = [outcome EXCEPT ![w] = v]
  /\ expiresIn' = [expiresIn EXCEPT ![w] = NeverExpires]
  /\ token' = [token EXCEPT ![w] = NoToken]
  /\ UNCHANGED <<published, lastServed>>

Rotate(d) ==
  /\ published' = d
  /\ lastServed' = [lastServed EXCEPT ![d] = 0]
  /\ UNCHANGED <<phase, token, expiresIn, outcome>>

Tick ==
  /\ lastServed' = [d \in Documents |->
       IF d = published THEN 0
       ELSE IF lastServed[d] < Staleness THEN lastServed[d] + 1 ELSE Staleness]
  /\ expiresIn' = [w \in Workers |->
       IF expiresIn[w] > 0 THEN expiresIn[w] - 1 ELSE expiresIn[w]]
  /\ UNCHANGED <<published, phase, token, outcome>>

Next ==
  \/ \E w \in Workers, t \in Tokens, left \in Lifetimes : Begin(w, t, left)
  \/ \E w \in Workers : Answer(w)
  \/ \E d \in Documents : Rotate(d)
  \/ Tick

SafeSpec == Init /\ [][Next]_abstractVars

Spec == SafeSpec /\ \A w \in Workers : WF_abstractVars(Answer(w))

=============================================================================
