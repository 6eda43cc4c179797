---------------------------- MODULE Entitlement ----------------------------
(***************************************************************************)
(* What a caller can make the server do to the gateway: the configuration it   *)
(* was started with, the scopes of the caller's token, the tool and the           *)
(* arguments it names, through Load, the two scope checks and the gateway         *)
(* client.  A caller is put together step by step: first its scopes, then the      *)
(* tool, then its arguments.                                                    *)
(***************************************************************************)
EXTENDS Authorize, ServerConfig, GatewayRequests, FiniteSets

CONSTANTS
  Files,         \* the configuration files the server may be started with
  Scopes,        \* the scopes a token may hold
  Values,        \* the values an argument may have, by its key
  MaxArguments   \* bound on the arguments of a call

ASSUME EntitlementAssumption ==
  /\ \A f \in Files : f = [field \in Fields |-> f[field]]
  /\ MaxArguments \in Nat

VARIABLES file, held, tool, args
vars == <<file, held, tool, args>>

NoTool == <<>>

Policy == PolicyOf(file)

Init ==
  /\ file \in Files
  /\ held = {} /\ tool = NoTool /\ args = <<>>

Grant(scope) ==
  /\ tool = NoTool /\ scope \notin held
  /\ held' = held \union {scope}
  /\ UNCHANGED <<file, tool, args>>

\* A server that did not start is called by nobody.
Call(t) ==
  /\ Accepted(file) /\ tool = NoTool
  /\ tool' = t
  /\ UNCHANGED <<file, held, args>>

\* Only the arguments of a call that is allowed are ever looked at.
Give(key, value) ==
  /\ tool # NoTool /\ Allowed(held, tool, Policy)
  /\ key \notin DOMAIN args /\ Cardinality(DOMAIN args) < MaxArguments
  /\ args' = [k \in DOMAIN args \union {key} |-> IF k = key THEN value ELSE args[k]]
  /\ UNCHANGED <<file, held, tool>>

Next ==
  \/ \E scope \in Scopes : Grant(scope)
  \/ \E t \in Tools : Call(t)
  \/ \E key \in DOMAIN Values : \E value \in Values[key] : Give(key, value)

Spec == Init /\ [][Next]_vars
-----------------------------------------------------------------------------
(***************************************************************************)
(* Reference: a token implies the scopes it names and those its legacy        *)
(* aliases stand for; a decision is a matter of the implied scopes only.       *)
(***************************************************************************)
StandsFor(scopes) ==
  scopes \union (IF scopes \intersect LegacyRead # {} THEN {"read"} ELSE {})
         \union (IF scopes \intersect LegacyWrite # {} THEN {"gateway:write"} ELSE {})

RequiredHeld == Policy.requiredScopes \subseteq StandsFor(held)

Registered == tool \in DOMAIN Policy.toolScopeMap

\* service.go Check grants exactly what the implied scopes and admin:* cover, and
\* with a blank too many in the configured scope of the tool never more than that.
MatchesReference ==
  tool # NoTool =>
    LET needed    == Policy.toolScopeMap[tool]
        reference == /\ RequiredHeld
                     /\ Registered
                     /\ StandsFor(held) \intersect {AdminAll, needed.name} # {}
    IN  /\ Allowed(held, tool, Policy) => reference
        /\ reference /\ ~needed.padded => Allowed(held, tool, Policy)

\* The two scope checks of the server agree on who is let in: whoever may invoke
\* a tool may also use the admin endpoints, unless a required scope is held by
\* an alias only; whoever may use them without admin:* holds what Check requires.
EndpointsAgree ==
  tool # NoTool =>
    /\ /\ Allowed(held, tool, Policy)
       /\ Policy.requiredScopes \intersect {"read", "gateway:write"} \subseteq held
       => AdminEndpointAllowed(held, Policy)
    /\ AdminEndpointAllowed(held, Policy) /\ AdminAll \notin held => RequiredHeld

\* No configuration that Load accepts leaves a door open: a token without scopes
\* passes neither check, whatever scopes are required, blank or padded in the file.
NoConfigIsOpen ==
  Accepted(file) =>
    /\ ~AdminEndpointAllowed({}, Policy)
    /\ \A t \in Tools : ~Allowed({}, t, Policy)

\* Every tool is registered under the scope it is offered under.
OffersKept ==
  \A t \in DOMAIN Policy.toolScopeMap :
    Policy.toolScopeMap[t] = Trimmed(IF t \in OfferedReads THEN "read" ELSE "gateway:write")

Writing == {"gateway:write", AdminAll} \union LegacyWrite

\* Under a configuration that keeps to the catalog, a caller without any scope for
\* writing can make the server send nothing but GETs, whatever the arguments; and
\* one who has them writes by tune_upstream_timeout only if he says so.
ReadersOnlyRead ==
  /\ OffersKept /\ held \intersect Writing = {} /\ Allowed(held, tool, Policy) =>
       \A r \in InvokeTool(tool, args) : r.method = "GET"
  /\ tool = Tune /\ (\E r \in InvokeTool(tool, args) : r.method # "GET") =>
       \/ args["dry_run"].type = "boolean" /\ ~args["dry_run"].truth
       \/ AsString(args, "dry_run") \in {"false", "0", "no", "n"}

\* A change is addressed to one resource that the caller named, or is one of the
\* control operations; and no two tools are the same request.
RequestsNameTheirTarget ==
  LET request == BuildRequest(tool, args)
  IN  request # Refused =>
        /\ request.method \in {"PUT", "PATCH", "DELETE"} =>
             /\ Len(request.path) = 2
             /\ request.path[1] \in Kinds /\ request.path[2] # Empty
        /\ request.method = "POST" => request.path[1] = "control"
        /\ \A t \in Tools \ {tool} : BuildRequest(t, args) # request

Declared == DOMAIN InputSchemaFor(tool).properties

Blanked == \E key \in InputSchemaFor(tool).required :
             args[key].type = "string" /\ args[key].text = Empty

\* The schema a caller is shown decides: arguments that conform to it always make
\* a request unless an id is blank, a missing required one never does, and what the
\* schema does not declare changes nothing, but for the imports, which take the
\* arguments themselves as the bundle.
SchemaDecides ==
  tool \in Catalog =>
    /\ Conforms(args, InputSchemaFor(tool)) /\ ~Blanked => InvokeTool(tool, args) # {}
    /\ ~(InputSchemaFor(tool).required \subseteq DOMAIN args) => InvokeTool(tool, args) = {}
    /\ tool \notin ImportTools =>
         InvokeTool(tool, [key \in DOMAIN args \intersect Declared |-> args[key]])
           = InvokeTool(tool, args)

\* README.md:219: admin:* matches every scope, so a token that holds it is
\* allowed every registered tool.
AdminMatchesEveryScope ==
  AdminAll \in held /\ tool # NoTool /\ Registered => Allowed(held, tool, Policy)

=============================================================================
