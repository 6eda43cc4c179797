-------------------------- MODULE MCToolInvocation --------------------------
(***************************************************************************)
(* Instances of ToolInvocation: a caller without a token, who is the operator    *)
(* and tunes with options that cannot be written, a reader, and a body that does    *)
(* not decode.                                                                     *)
(***************************************************************************)
EXTENDS ToolInvocation, TLC

MCClaims == [b \in {"operator", "reader"} |->
  [subject |-> b,
   scopes  |-> IF b = "operator" THEN {"mcp:tools", "admin:*"} ELSE {"mcp:tools", "read"}]]

MCPolicy == [requiredScopes |-> {"mcp:tools"},
             toolScopeMap   |-> [t \in {"put_route"} |-> Trimmed("gateway:write")]]

Req(transport, header) ==
  [transport |-> transport, header |-> header, tool |-> "put_route", decodable |-> TRUE,
   exchanges |-> 1, finite |-> TRUE]

Tune(r) == [r EXCEPT !.exchanges = 2, !.finite = FALSE]

MCRequests ==
  {Tune(Req("mcp", "none")), Req("mcp", "reader"),
   [Req("mcp", "forged") EXCEPT !.decodable = FALSE]}

FewRequests == {Req("admin", "operator"), Req("mcp", "reader")}

=============================================================================
