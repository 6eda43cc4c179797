-------------------------------- MODULE Jwt --------------------------------
(***************************************************************************)
(* The data of token verification: JWKS documents as the authorization      *)
(* server publishes them, bearer tokens as callers present them, and the    *)
(* pure part of internal/infrastructure/jwkscache/verifier.go, from a        *)
(* decoded document to the verdict on a token.                               *)
(***************************************************************************)
EXTENDS Integers, Sequences, Functions

CONSTANTS
  Documents,      \* the JWKS documents, each a sequence of key entries
  Tokens,         \* the bearer strings, each a record (see below)
  IndexKid,       \* IndexKid[i] is the id "idx-<i>" given to an entry without kid
  NoKid,          \* the empty kid
  Issuer, Audience,    \* Verifier.Issuer, Verifier.Audience
  Unset,          \* an issuer or audience that is not configured
  NoToken         \* no verification under way

(***************************************************************************)
(* An entry is [usable |-> BOOLEAN, kid |-> ..., secret |-> ...]; usable is  *)
(* "kty is oct and k decodes to at least one byte".  A token is               *)
(* [shape |-> "jwt" or the parse error it meets, kid, secret, iss, aud];      *)
(* secret is the secret its signature was made with, aud a set.               *)
(***************************************************************************)
ParseErrors == {"missing_bearer", "malformed_jwt", "invalid_alg"}

VerdictNames == {"jwks_key_not_found", "invalid_sig", "issuer_mismatch",
                 "audience_mismatch", "token_expired", "ok"}

ASSUME TokensAssumption ==
  \A t \in Tokens : t.shape \in ParseErrors \union {"jwt"}

(***************************************************************************)
(* loadJWKSKeys, after the response has been read: the map from key id to    *)
(* secret.  Unusable entries are skipped, an entry without kid gets its       *)
(* index, and of two entries with one id the later wins.                      *)
(***************************************************************************)
KidAt(doc, i) == IF doc[i].kid = NoKid THEN IndexKid[i] ELSE doc[i].kid

DecodeDocument(doc) ==
  LET used == {i \in DOMAIN doc : doc[i].usable}
      last(id) == CHOOSE i \in used :
                    /\ KidAt(doc, i) = id
                    /\ \A j \in used : KidAt(doc, j) = id => j <= i
  IN  [id \in {KidAt(doc, i) : i \in used} |-> doc[last(id)].secret]

(***************************************************************************)
(* selectHMACSecret: the secret of the token's kid; a token without kid gets *)
(* whichever entry the iteration over the Go map yields first.                *)
(***************************************************************************)
SelectSecrets(keys, kid) ==
  IF kid = NoKid THEN Range(keys)
                 ELSE {keys[id] : id \in {kid} \intersect DOMAIN keys}

(***************************************************************************)
(* VerifyBearer, from the signature to the expiry: the first check that      *)
(* fails names the error.  "left" is the number of ticks until exp, negative *)
(* for a token whose exp is absent or not positive.                           *)
(***************************************************************************)
NeverExpires == -1

Verdict(t, secret, left) ==
  IF secret # t.secret THEN "invalid_sig"
  ELSE IF Issuer \notin {Unset, t.iss} THEN "issuer_mismatch"
  ELSE IF Audience \notin {Unset} \union t.aud THEN "audience_mismatch"
  ELSE IF left = 0 THEN "token_expired" ELSE "ok"

Verdicts(t, keys, left) ==
  IF SelectSecrets(keys, t.kid) = {}
  THEN {"jwks_key_not_found"}
  ELSE {Verdict(t, s, left) : s \in SelectSecrets(keys, t.kid)}

=============================================================================
