----------------------------- MODULE Authorize -----------------------------
(***************************************************************************)
(* internal/application/authorize/service.go, and the second scope check of   *)
(* the admin endpoints in internal/interfaces/http/handlers/handlers.go.       *)
(*                                                                           *)
(* Every comparison in the code folds case, so a scope here stands for all    *)
(* its spellings.  A token's scopes carry no blanks (they come from            *)
(* strings.Fields), required scopes are trimmed where they are read, and a      *)
(* value of the tool scope map is used as configured: [name, padded].           *)
(***************************************************************************)

AdminAll == "admin:*"
Blank    == ""

LegacyRead ==
  {"mcp:read", "routes:read", "services:read", "upstreams:read",
   "plugins:read", "global_rules:read", "metrics:read", "gateway:read"}

LegacyWrite ==
  {"mcp:write", "routes:write", "services:write", "upstreams:write",
   "plugins:write", "global_rules:write", "gateway:bundle:apply",
   "gateway:dangerous", "admin:dangerous"}

\* Mutant of LegacyAliases: the write scopes are forgotten.
ReadAliases(name) == IF name = "read" THEN LegacyRead ELSE {}

LegacyAliases(name) == CASE name = "read"          -> LegacyRead
                         [] name = "gateway:write" -> LegacyWrite
                         [] OTHER                  -> {}

Trimmed(name) == [name |-> name, padded |-> FALSE]

\* The exact comparison sees the padding, the choice of aliases trims it.
HasScope(required, actual) ==
  \/ ~required.padded /\ required.name = actual
  \/ actual \in LegacyAliases(required.name)

HasAnyScope(scopes, required, allowAdminWildcard) ==
  \E s \in scopes : (allowAdminWildcard /\ s = AdminAll) \/ HasScope(required, s)

(***************************************************************************)
(* Service.Check.  A policy is [requiredScopes : a set of names,              *)
(* toolScopeMap : a function from the registered tools to their scope].        *)
(***************************************************************************)
Allowed(scopes, tool, policy) ==
  /\ \A r \in policy.requiredScopes \ {Blank} :
       HasAnyScope(scopes, Trimmed(r), FALSE)
  /\ tool \in DOMAIN policy.toolScopeMap
  /\ HasAnyScope(scopes, policy.toolScopeMap[tool], TRUE)

\* Mutant of AdminEndpointAllowed: one of the required scopes is enough.
AdminEndpointAnyScope(scopes, policy) ==
  policy.requiredScopes \ {Blank} = {}
  \/ \E r \in policy.requiredScopes \ {Blank} : scopes \intersect {AdminAll, r} # {}

(***************************************************************************)
(* handlers.requireAuthorized, after the token was verified: what /admin/tools *)
(* and /admin/audit ask.  Here admin:* passes for any required scope, and        *)
(* there are no aliases.                                                         *)
(***************************************************************************)
AdminEndpointAllowed(scopes, policy) ==
  \A r \in policy.requiredScopes \ {Blank} : scopes \intersect {AdminAll, r} # {}

=============================================================================
