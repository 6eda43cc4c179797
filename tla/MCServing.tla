----------------------------- MODULE MCServing -----------------------------
(***************************************************************************)
(* An instance of Serving: an operator who tunes an upstream, in two exchanges,  *)
(* and whose key is dropped by a rotation, and a forged token that names no key    *)
(* and states every scope.                                                         *)
(***************************************************************************)
EXTENDS Serving, Integers, TLC

Key(kid, secret) == [usable |-> TRUE, kid |-> kid, secret |-> secret]

DocFirst   == <<Key("k1", "s1"), Key("k2", "s2")>>
DocDropped == <<Key("k2", "s2")>>

MCDocuments == {DocFirst, DocDropped}
MCIndexKid  == <<"idx-0", "idx-1">>

Signed(kid, secret) == [shape |-> "jwt", kid |-> kid, secret |-> secret,
                        iss |-> "i", aud |-> {"a"}]

MCTokenOf ==
  [b \in {"operator", "forged", "none"} |->
     CASE b = "operator" -> Signed("k1", "s1")
       [] b = "forged"   -> Signed("none", "s9")
       [] b = "none"     -> [Signed("none", "none") EXCEPT !.shape = "missing_bearer"]]

\* A forged token states what it likes.
MCClaimsOf == [b \in DOMAIN MCTokenOf |->
                [subject |-> "operator", scopes |-> {"mcp:tools", "admin:*"}]]

MCPolicy == [requiredScopes |-> {"mcp:tools"},
             toolScopeMap   |-> [t \in {"put_route"} |-> [name |-> "gateway:write", padded |-> FALSE]]]

Req(transport, header) ==
  [transport |-> transport, header |-> header, tool |-> "put_route", decodable |-> TRUE,
   exchanges |-> 1, finite |-> TRUE]

Tune(r) == [r EXCEPT !.exchanges = 2]

MCRequests ==
  {Tune(Req("admin", "operator")), Req("mcp", "forged")}

\* No document has the key of the forger.
MCGenuine == {"operator"}

\* NeverExpires: expiry is a matter of the cache alone.
MCLifetimes == {-1}

Perms == Permutations(Calls)

=============================================================================
