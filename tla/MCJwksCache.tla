---------------------------- MODULE MCJwksCache ----------------------------
(***************************************************************************)
(* Instances of JwksCache.  The documents cover a key that is replaced under  *)
(* its kid, a key that is dropped, entries without kid, an unusable entry and *)
(* a document with nothing usable; of the tokens one is signed by a key of     *)
(* every usable document, one by the replaced key, one is no token.             *)
(***************************************************************************)
EXTENDS JwksCache, TLC

Key(kid, secret) == [usable |-> TRUE, kid |-> kid, secret |-> secret]
Unusable(kid)    == [usable |-> FALSE, kid |-> kid, secret |-> "s0"]

DocFirst   == <<Key("k1", "s1"), Key("k2", "s2")>>
DocRotated == <<Key("k1", "s3"), Unusable("k2"), Key("none", "s2")>>
DocEmpty   == <<Unusable("k1")>>

MCDocuments == {DocFirst, DocRotated, DocEmpty}
MCIndexKid  == <<"idx-0", "idx-1", "idx-2">>

Signed(kid, secret) == [shape |-> "jwt", kid |-> kid, secret |-> secret,
                        iss |-> "i", aud |-> {"a"}]

Stable   == Signed("none", "s2")
Old      == Signed("k1", "s1")

MCTokens == {Stable, Old, [Old EXCEPT !.shape = "malformed_jwt"]}

MCLifetimes == {1}

=============================================================================
