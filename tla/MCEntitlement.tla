--------------------------- MODULE MCEntitlement ---------------------------
(***************************************************************************)
(* An instance of Entitlement: the shipped configuration, one that registers   *)
(* every tool, and small ones around the edges of Load and of the checks.        *)
(***************************************************************************)
EXTENDS Entitlement

MCScopes == {"mcp:tools", "read", "mcp:read", "admin:dangerous", AdminAll}

Kept(tools) ==
  [t \in tools |-> Trimmed(IF t \in OfferedReads THEN "read" ELSE "gateway:write")]

Shipped ==
  [issuer |-> "i", audience |-> "a", jwks_url |-> "j", base_url |-> "g",
   admin_api_key |-> "k", backend |-> "stdout", sqlite_path |-> "", postgres_url |-> "",
   required_scopes |-> {"mcp:tools"}, tool_scope_map |-> Kept(Catalog)]

One(name, padded) == [t \in {<<"put", "route">>} |-> [name |-> name, padded |-> padded]]

MCFiles ==
  {Shipped, [Shipped EXCEPT !.tool_scope_map = Kept(Tools)]}
  \union {[Shipped EXCEPT !.required_scopes = required, !.tool_scope_map = One(name, padded)] :
            required \in {{}, {""}, {"read", ""}, {"mcp:tools", "read"}},
            name \in {"", "read", "gateway:write"}, padded \in BOOLEAN}
  \union {[Shipped EXCEPT !.tool_scope_map = <<>>],
          [Shipped EXCEPT !.audience = "", !.backend = ""],
          [Shipped EXCEPT !.backend = "sqlite", !.sqlite_path = " "],
          [Shipped EXCEPT !.backend = "postgres"]}

Text(text)     == [type |-> "string", text |-> text]
Number(tenths) == [type |-> "number", tenths |-> tenths]
Object(fields) == [type |-> "object", fields |-> fields]
Null           == [type |-> "null"]

MCValues ==
  [id      |-> {Text("r1"), Text(""), Number(70), Null},
   body    |-> {Object(<<>>), Text("r1"), Null},
   request |-> {Object(<<>>), Text("r1")},
   page    |-> {Number(20), Number(9), Text("7"), Text("x")},
   limit   |-> {Number(-15), Text("7")},
   kinds   |-> {[type |-> "array", items |-> <<Text("routes"), Number(10)>>], Text("x")},
   dry_run |-> {[type |-> "boolean", truth |-> FALSE], Text("no"), Text("x"), Number(0)}]

MCNumerals == [n \in {"7"} |-> 7]

=============================================================================
