---------------------------- MODULE ServerConfig ----------------------------
(***************************************************************************)
(* internal/config: what Load makes of a configuration file, as far as the     *)
(* other modules depend on it, and the audit store that is opened for it         *)
(* (auditstore.NewAuditStore).                                                 *)
(*                                                                           *)
(* A configuration is a record.  A text is "" where the file gives none, and     *)
(* Spaces where it gives only blanks; a scope is written without the blanks        *)
(* around it, "" when it is nothing else, with its padding noted apart.           *)
(***************************************************************************)
CONSTANT Spaces

Unwritten == ""

Mandatory == {"issuer", "audience", "jwks_url", "base_url", "admin_api_key"}

Fields == Mandatory \union {"backend", "sqlite_path", "postgres_url", "required_scopes",
                            "tool_scope_map"}

IsBlank(text) == text \in {Unwritten, Spaces}

OrElse(text, default) == IF text = Unwritten THEN default ELSE text

ApplyDefaults(file) ==
  [file EXCEPT !.backend     = OrElse(@, "stdout"),
               !.sqlite_path = OrElse(@, "./data/mcp-audit.db"),
               !.required_scopes = IF @ = {} THEN {"mcp:tools"} ELSE @]

\* Mutant of Valid: the required scopes are not looked at.
ValidTexts(c) ==
  /\ \A field \in Mandatory : c[field] # Unwritten
  /\ DOMAIN c.tool_scope_map # {}
  /\ \A tool \in DOMAIN c.tool_scope_map :
       tool # <<>> /\ c.tool_scope_map[tool].name # Unwritten
  /\ c.backend \in {"stdout", "sqlite", "postgres"}

Valid(c) ==
  /\ \A field \in Mandatory : c[field] # Unwritten
  /\ DOMAIN c.tool_scope_map # {}
  /\ \A tool \in DOMAIN c.tool_scope_map :
       tool # <<>> /\ c.tool_scope_map[tool].name # Unwritten
  /\ Unwritten \notin c.required_scopes
  /\ c.backend \in {"stdout", "sqlite", "postgres"}
  /\ c.backend = "sqlite" => ~IsBlank(c.sqlite_path)
  /\ c.backend = "postgres" => ~IsBlank(c.postgres_url)

\* Load accepts a file or the process ends.
Accepted(file) == Valid(ApplyDefaults(file))

Load(file) == ApplyDefaults(file)

\* bootstrap.New hands the loaded lists to the authorization service.
PolicyOf(file) ==
  [requiredScopes |-> Load(file).required_scopes,
   toolScopeMap   |-> Load(file).tool_scope_map]

=============================================================================
