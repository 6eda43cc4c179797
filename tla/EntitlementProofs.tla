------------------------- MODULE EntitlementProofs -------------------------
(***************************************************************************)
(* Proofs about Entitlement and, before it, about the decisions of Authorize    *)
(* for every set of scopes, tool and policy: the decision is that of the            *)
(* reference, no accepted configuration is open, without a scope for writing         *)
(* nothing but GETs is sent, a change goes where its caller said, and a schema        *)
(* tells what is sent.                                                           *)
(*                                                                           *)
(* The invariant is small, for what a caller may do does not depend on how it      *)
(* came to ask: a tool was called only under a configuration that Load accepted.   *)
(***************************************************************************)
EXTENDS Entitlement, TLAPS

\* The scopes a token stands for: those it names and those its aliases imply.
Implied(scopes) ==
  scopes \union {name \in {"read", "gateway:write"} :
                   scopes \intersect LegacyAliases(name) # {}}

\* Only "read" and "gateway:write" have aliases.
LEMMA AliasNames ==
  ASSUME NEW name, NEW s \in LegacyAliases(name)
  PROVE  name \in {"read", "gateway:write"}
BY DEF LegacyAliases

\* A scope that is asked for without blanks is held if and only if it is implied.
LEMMA HeldIsImplied ==
  ASSUME NEW scopes, NEW name
  PROVE  HasAnyScope(scopes, Trimmed(name), FALSE) <=> name \in Implied(scopes)
<1>1. HasAnyScope(scopes, Trimmed(name), FALSE)
        <=> \E s \in scopes : name = s \/ s \in LegacyAliases(name)
  BY DEF HasAnyScope, HasScope, Trimmed
<1> QED
  BY <1>1, AliasNames DEF Implied

\* With the wildcard, admin:* will do as well.
LEMMA HeldOrAdmin ==
  ASSUME NEW scopes, NEW name
  PROVE  HasAnyScope(scopes, Trimmed(name), TRUE)
           <=> name \in Implied(scopes) \/ AdminAll \in scopes
<1>1. HasAnyScope(scopes, Trimmed(name), TRUE)
        <=> AdminAll \in scopes \/ HasAnyScope(scopes, Trimmed(name), FALSE)
  BY DEF HasAnyScope
<1> QED
  BY <1>1, HeldIsImplied

\* Check decides on the implied scopes: all required ones are implied, the tool is
\* registered, and its scope is implied or the token holds admin:*.
THEOREM DecisionIsOnImpliedScopes ==
  ASSUME NEW scopes, NEW t, NEW policy, NEW name,
         t \in DOMAIN policy.toolScopeMap => policy.toolScopeMap[t] = Trimmed(name)
  PROVE  Allowed(scopes, t, policy) <=>
           /\ policy.requiredScopes \ {Blank} \subseteq Implied(scopes)
           /\ t \in DOMAIN policy.toolScopeMap
           /\ name \in Implied(scopes) \/ AdminAll \in scopes
BY HeldIsImplied, HeldOrAdmin DEF Allowed

\* A token with more scopes is refused nothing a smaller one is granted, by either
\* of the two checks.
THEOREM MoreScopesGrantMore ==
  ASSUME NEW few, NEW many, few \subseteq many, NEW t, NEW policy
  PROVE  /\ Allowed(few, t, policy) => Allowed(many, t, policy)
         /\ AdminEndpointAllowed(few, policy) => AdminEndpointAllowed(many, policy)
<1>1. ASSUME NEW required, NEW admin, HasAnyScope(few, required, admin)
      PROVE  HasAnyScope(many, required, admin)
  BY <1>1 DEF HasAnyScope
<1> QED
  BY <1>1 DEF Allowed, AdminEndpointAllowed

\* A blank in the configured scope of a tool lets nobody in who would not be let in
\* without it.
THEOREM PaddingOnlyDenies ==
  ASSUME NEW scopes, NEW t, NEW padded, NEW trimmed,
         padded.requiredScopes = trimmed.requiredScopes,
         DOMAIN padded.toolScopeMap = DOMAIN trimmed.toolScopeMap,
         trimmed.toolScopeMap[t] = Trimmed(padded.toolScopeMap[t].name)
  PROVE  Allowed(scopes, t, padded) => Allowed(scopes, t, trimmed)
<1>1. ASSUME NEW required, HasAnyScope(scopes, required, TRUE)
      PROVE  HasAnyScope(scopes, Trimmed(required.name), TRUE)
  BY <1>1 DEF HasAnyScope, HasScope, Trimmed
<1> QED
  BY <1>1 DEF Allowed

\* Whoever may invoke a tool passes the check of the admin endpoints too, unless a
\* required scope is held by an alias only; and whoever passes that check without
\* admin:* holds what the check of the tools requires.
THEOREM DoorsAgree ==
  ASSUME NEW scopes, NEW t, NEW policy
  PROVE  /\ /\ Allowed(scopes, t, policy)
            /\ policy.requiredScopes \intersect {"read", "gateway:write"} \subseteq scopes
            => AdminEndpointAllowed(scopes, policy)
         /\ /\ AdminEndpointAllowed(scopes, policy)
            /\ AdminAll \notin scopes
            => policy.requiredScopes \ {Blank} \subseteq Implied(scopes)
<1>1. ASSUME Allowed(scopes, t, policy),
             policy.requiredScopes \intersect {"read", "gateway:write"} \subseteq scopes,
             NEW r \in policy.requiredScopes \ {Blank}
      PROVE  r \in scopes
  <2>1. r \in Implied(scopes)
    BY <1>1, HeldIsImplied DEF Allowed
  <2> QED
    BY <1>1, <2>1 DEF Implied
<1>2. Allowed(scopes, t, policy)
        /\ policy.requiredScopes \intersect {"read", "gateway:write"} \subseteq scopes
        => AdminEndpointAllowed(scopes, policy)
  BY <1>1 DEF AdminEndpointAllowed
<1>3. AdminEndpointAllowed(scopes, policy) /\ AdminAll \notin scopes
        => policy.requiredScopes \ {Blank} \subseteq Implied(scopes)
  BY DEF AdminEndpointAllowed, Implied
<1> QED
  BY <1>2, <1>3

-----------------------------------------------------------------------------
\* What was called was called under a configuration that Load accepts.
Inv == /\ file \in Files
       /\ tool # NoTool => tool \in Tools /\ Accepted(file)

USE EntitlementAssumption DEF EntitlementAssumption

LEMMA Invariance == Spec => []Inv
<1>1. Init => Inv
  BY DEF Init, Inv
<1>2. Inv /\ [Next]_vars => Inv'
  BY DEF Inv, Next, Grant, Call, Give, vars
<1> QED
  BY <1>1, <1>2, PTL DEF Spec

\* What Load accepts has required scopes, and none of them is blank.
LEMMA LoadedScopes ==
  ASSUME NEW f \in Files, Accepted(f)
  PROVE  /\ PolicyOf(f).requiredScopes # {}
         /\ Blank \notin PolicyOf(f).requiredScopes
<1>1. Load(f).required_scopes
        = IF f.required_scopes = {} THEN {"mcp:tools"} ELSE f.required_scopes
  BY DEF Load, ApplyDefaults, Fields
<1>2. Unwritten \notin Load(f).required_scopes
  BY DEF Accepted, Load, Valid
<1> QED
  BY <1>1, <1>2 DEF PolicyOf, Unwritten, Blank

\* The two descriptions of what the aliases stand for are the same.
LEMMA StandsForImplied ==
  ASSUME NEW scopes
  PROVE  StandsFor(scopes) = Implied(scopes)
BY DEF StandsFor, Implied, LegacyAliases

(***************************************************************************)
(* Check (authorize/service.go) grants what the implied scopes and admin:*     *)
(* cover, for every accepted configuration, and a blank in it only denies.       *)
(***************************************************************************)
THEOREM DecisionMatches == Spec => []MatchesReference
<1>1. Inv => MatchesReference
  <2> SUFFICES ASSUME Inv, tool # NoTool
               PROVE  LET needed    == Policy.toolScopeMap[tool]
                          reference == /\ RequiredHeld
                                       /\ Registered
                                       /\ StandsFor(held) \intersect {AdminAll, needed.name} # {}
                      IN  /\ Allowed(held, tool, Policy) => reference
                          /\ reference /\ ~needed.padded => Allowed(held, tool, Policy)
    BY DEF MatchesReference
  <2> DEFINE needed == Policy.toolScopeMap[tool]
  <2>1. Policy.requiredScopes \ {Blank} = Policy.requiredScopes
    BY LoadedScopes DEF Inv, Policy
  <2>2. RequiredHeld <=> \A r \in Policy.requiredScopes \ {Blank} :
                            HasAnyScope(held, Trimmed(r), FALSE)
    BY <2>1, HeldIsImplied, StandsForImplied DEF RequiredHeld
  <2>3. AdminAll \in StandsFor(held) <=> AdminAll \in held
    BY DEF StandsFor, AdminAll
  <2>4. HasAnyScope(held, Trimmed(needed.name), TRUE)
          <=> StandsFor(held) \intersect {AdminAll, needed.name} # {}
    BY <2>3, HeldOrAdmin, StandsForImplied
  <2>5. HasAnyScope(held, needed, TRUE) => HasAnyScope(held, Trimmed(needed.name), TRUE)
    BY DEF HasAnyScope, HasScope, Trimmed
  <2>6. ~needed.padded /\ HasAnyScope(held, Trimmed(needed.name), TRUE)
          => HasAnyScope(held, needed, TRUE)
    BY DEF HasAnyScope, HasScope, Trimmed
  <2> HIDE DEF needed
  <2> QED
    BY <2>2, <2>4, <2>5, <2>6 DEF Allowed, Registered, needed
<1> QED
  BY <1>1, Invariance, PTL

\* The check of the tools and the one of the admin endpoints (handlers.go:150) let
\* the same callers in, but for aliases and admin:*.
THEOREM EndpointsDecideAlike == Spec => []EndpointsAgree
<1>1. Inv => EndpointsAgree
  <2> SUFFICES ASSUME Inv, tool # NoTool
               PROVE  EndpointsAgree
    BY DEF EndpointsAgree
  <2>1. Policy.requiredScopes \ {Blank} = Policy.requiredScopes
    BY LoadedScopes DEF Inv, Policy
  <2> QED
    BY <2>1, DoorsAgree, StandsForImplied DEF EndpointsAgree, RequiredHeld
<1> QED
  BY <1>1, Invariance, PTL

\* Under no configuration that Load accepts (config.go Validate) does a token without
\* scopes pass either check.
THEOREM ConfigsAreClosed == Spec => []NoConfigIsOpen
<1>1. Inv => NoConfigIsOpen
  <2> SUFFICES ASSUME Inv, Accepted(file)
               PROVE  /\ ~AdminEndpointAllowed({}, Policy)
                      /\ \A t \in Tools : ~Allowed({}, t, Policy)
    BY DEF NoConfigIsOpen
  <2>1. PICK r \in Policy.requiredScopes : r # Blank
    BY LoadedScopes DEF Inv, Policy
  <2>2. ~AdminEndpointAllowed({}, Policy)
    BY <2>1 DEF AdminEndpointAllowed
  <2>3. ASSUME NEW t \in Tools PROVE ~Allowed({}, t, Policy)
    BY <2>1 DEF Allowed, HasAnyScope
  <2> QED
    BY <2>2, <2>3
<1> QED
  BY <1>1, Invariance, PTL

-----------------------------------------------------------------------------
\* The method of a request is what it is made with.
LEMMA MethodOfRequest ==
  ASSUME NEW method, NEW path, NEW query, NEW body
  PROVE  Request(method, path, query, body).method = method
BY DEF Request

(***************************************************************************)
(* The tools by group.  InvokeTool, BuildRequest and InputSchemaFor each tell   *)
(* the groups apart; no tool belongs to two of them.                             *)
(***************************************************************************)
Export   == <<"export", "bundle">>
History  == <<"history", "list">>
Rollback == <<"history", "rollback">>
Singles  == {Export, History, Rollback, Analyze, Tune}

LEMMA GroupsAreApart ==
  ASSUME NEW t
  PROVE  /\ t \in ListTools => t[1] = "list" /\ t[2] \in Kinds
         /\ t \in ResourceTools => t[1] \in {"get", "put", "patch", "delete"} /\ t[2] \in Nouns
         /\ t \in ImportTools => t[1] \in {"preview", "apply"} /\ t[2] = "import"
         /\ t \in ControlReads =>
              t[1] \in {"get", "list"} /\ t[2] \in {"schema", "plugins", "stats"}
         /\ t \in Singles => t[1] \in {"export", "history", "analyze", "tune"}
BY DEF ListTools, ResourceTools, ImportTools, ControlReads, Singles, Export, History,
       Rollback, Analyze, Tune

LEMMA ListToolsApart ==
  ASSUME NEW t \in ListTools
  PROVE  t \notin ResourceTools /\ t \notin ImportTools /\ t \notin ControlReads /\ t \notin Singles
<1>1. t[1] = "list" /\ t[2] \notin {"schema", "plugins", "stats"}
  BY GroupsAreApart DEF Kinds, Nouns, KindOf
<1> QED
  BY <1>1, GroupsAreApart

LEMMA ResourceToolsApart ==
  ASSUME NEW t \in ResourceTools
  PROVE  t \notin ListTools /\ t \notin ImportTools /\ t \notin ControlReads /\ t \notin Singles
<1>1. t[1] \in {"get", "put", "patch", "delete"} /\ t[2] \notin {"schema", "plugins", "stats"}
  BY GroupsAreApart DEF Nouns, KindOf
<1> QED
  BY <1>1, GroupsAreApart

LEMMA ImportToolsApart ==
  ASSUME NEW t \in ImportTools
  PROVE  t \notin ListTools /\ t \notin ResourceTools /\ t \notin ControlReads /\ t \notin Singles
BY GroupsAreApart

LEMMA ControlReadsApart ==
  ASSUME NEW t \in ControlReads
  PROVE  t \notin ListTools /\ t \notin ResourceTools /\ t \notin ImportTools /\ t \notin Singles
<1>1. t[1] \in {"get", "list"} /\ t[2] \in {"schema", "plugins", "stats"}
  BY GroupsAreApart
<1>2. t \notin ListTools /\ t \notin ResourceTools
  BY <1>1, GroupsAreApart DEF Kinds, Nouns, KindOf
<1> QED
  BY <1>1, <1>2, GroupsAreApart

LEMMA SinglesApart ==
  ASSUME NEW t \in Singles
  PROVE  /\ t \notin ListTools /\ t \notin ResourceTools
         /\ t \notin ImportTools /\ t \notin ControlReads
BY GroupsAreApart

LEMMA SinglesDiffer ==
  /\ Export # History /\ Export # Rollback /\ Export # Analyze /\ Export # Tune
  /\ History # Rollback /\ History # Analyze /\ History # Tune
  /\ Rollback # Analyze /\ Rollback # Tune /\ Analyze # Tune
  /\ Export \in Singles /\ History \in Singles /\ Rollback \in Singles
  /\ Analyze \in Singles /\ Tune \in Singles
BY DEF Export, History, Rollback, Analyze, Tune, Singles

\* What every group is sent as, and what its schema is.
LEMMA ListToolRequest ==
  ASSUME NEW t \in ListTools, NEW given
  PROVE  /\ BuildRequest(t, given) = Request("GET", <<t[2]>>, ListQuery(given), NoBody)
         /\ InputSchemaFor(t)
              = Schema([page |-> "integer", page_size |-> "integer", keyword |-> "string"], {})
<1>1. BuildRequest(t, given) = Request("GET", <<t[2]>>, ListQuery(given), NoBody)
  BY ListToolsApart, Zenon DEF BuildRequest, Singles, Export, History, Rollback
<1>2. InputSchemaFor(t)
        = Schema([page |-> "integer", page_size |-> "integer", keyword |-> "string"], {})
  BY ListToolsApart, Zenon DEF InputSchemaFor, Singles, Export, History, Rollback
<1> QED
  BY <1>1, <1>2

LEMMA ResourceToolRequest ==
  ASSUME NEW t \in ResourceTools, NEW given
  PROVE  /\ BuildRequest(t, given) = ResourceRequest(t[1], t[2], given)
         /\ InputSchemaFor(t) = IF t[1] \in Writes
                                THEN Schema([id |-> "string", body |-> "object"], {"id", "body"})
                                ELSE Schema([id |-> "string"], {"id"})
<1>1. BuildRequest(t, given) = ResourceRequest(t[1], t[2], given)
  BY ResourceToolsApart, Zenon DEF BuildRequest, Singles, Export, History, Rollback
<1>2. InputSchemaFor(t) = IF t[1] \in Writes
                          THEN Schema([id |-> "string", body |-> "object"], {"id", "body"})
                          ELSE Schema([id |-> "string"], {"id"})
  BY ResourceToolsApart, Zenon DEF InputSchemaFor, Singles, Export, History, Rollback
<1> QED
  BY <1>1, <1>2

LEMMA ImportToolRequest ==
  ASSUME NEW t \in ImportTools, NEW given
  PROVE  BuildRequest(t, given) = ImportRequest(t[1], given)
         /\ InputSchemaFor(t) = Schema([request |-> "object"], {})
<1>1. BuildRequest(t, given) = ImportRequest(t[1], given)
  BY ImportToolsApart, Zenon DEF BuildRequest, Singles, Export, History, Rollback
<1>2. InputSchemaFor(t) = Schema([request |-> "object"], {})
  BY ImportToolsApart, Zenon DEF InputSchemaFor, Singles, Export, History, Rollback
<1> QED
  BY <1>1, <1>2

LEMMA ControlReadRequest ==
  ASSUME NEW t \in ControlReads, NEW given
  PROVE  BuildRequest(t, given) = Plain("GET", <<"control", t[2]>>)
         /\ InputSchemaFor(t) = Schema(<<>>, {})
<1>1. BuildRequest(t, given) = Plain("GET", <<"control", t[2]>>)
  BY ControlReadsApart, Zenon DEF BuildRequest, Singles, Export, History, Rollback
<1>2. InputSchemaFor(t) = Schema(<<>>, {})
  BY ControlReadsApart, Zenon DEF InputSchemaFor, Singles, Export, History, Rollback
<1> QED
  BY <1>1, <1>2

LEMMA ExportToolRequest ==
  ASSUME NEW given
  PROVE  BuildRequest(Export, given) = ExportRequest(given)
         /\ InputSchemaFor(Export) = Schema([format |-> "string", kinds |-> "array"], {})
<1>1. BuildRequest(Export, given) = ExportRequest(given)
  BY SinglesApart, SinglesDiffer, Zenon DEF BuildRequest, Export
<1>2. InputSchemaFor(Export) = Schema([format |-> "string", kinds |-> "array"], {})
  BY SinglesApart, SinglesDiffer, Zenon DEF InputSchemaFor, Export
<1> QED
  BY <1>1, <1>2

LEMMA HistoryRequest ==
  ASSUME NEW given
  PROVE  /\ BuildRequest(History, given)
              = Request("GET", <<"control", "history">>,
                        {<<"limit", AsInt(given, "limit", 10)>>}, NoBody)
         /\ InputSchemaFor(History) = Schema([limit |-> "integer"], {})
<1>1. BuildRequest(History, given)
        = Request("GET", <<"control", "history">>,
                  {<<"limit", AsInt(given, "limit", 10)>>}, NoBody)
  BY SinglesApart, SinglesDiffer, Zenon DEF BuildRequest, Export, History
<1>2. InputSchemaFor(History) = Schema([limit |-> "integer"], {})
  BY SinglesApart, SinglesDiffer, Zenon DEF InputSchemaFor, Export, History
<1> QED
  BY <1>1, <1>2

LEMMA RollbackToolRequest ==
  ASSUME NEW given
  PROVE  BuildRequest(Rollback, given) = RollbackRequest(given)
         /\ InputSchemaFor(Rollback) = Schema([id |-> "string"], {"id"})
<1>1. BuildRequest(Rollback, given) = RollbackRequest(given)
  BY SinglesApart, SinglesDiffer, Zenon DEF BuildRequest, Export, History, Rollback
<1>2. InputSchemaFor(Rollback) = Schema([id |-> "string"], {"id"})
  BY SinglesApart, SinglesDiffer, Zenon DEF InputSchemaFor, Export, History, Rollback
<1> QED
  BY <1>1, <1>2

\* What is analyzed or tuned is not sent on as such.
LEMMA TuningRequest ==
  ASSUME NEW t \in {Analyze, Tune}, NEW given
  PROVE  BuildRequest(t, given) = Refused
BY SinglesApart, SinglesDiffer, Zenon DEF BuildRequest, Export, History, Rollback

\* A resource is read by a GET, if by anything.
LEMMA ReadingGets ==
  ASSUME NEW noun, NEW given, ResourceRequest("get", noun, given) # Refused
  PROVE  ResourceRequest("get", noun, given).method = "GET"
<1>1. "get" \notin Writes /\ MethodOf["get"] = "GET"
  BY DEF Writes, MethodOf
<1>2. ResourceRequest("get", noun, given)
        = Request("GET", <<KindOf[noun], AsString(given, "id")>>, {}, NoBody)
  BY <1>1 DEF ResourceRequest
<1> QED
  BY <1>2, MethodOfRequest

\* What is offered for reading is sent as GETs.
LEMMA OfferedReadsGet ==
  ASSUME NEW t \in OfferedReads, NEW given, NEW r \in InvokeTool(t, given)
  PROVE  r.method = "GET"
<1>1. t # Tune
  BY DEF OfferedReads, ListTools, ControlReads, Analyze, Tune
<1>2. CASE t = Analyze
  <2>1. r = Metrics
    BY <1>1, <1>2, Zenon DEF InvokeTool
  <2> QED
    BY <2>1, MethodOfRequest DEF Metrics, Plain
<1>3. CASE t # Analyze
  <2>1. InvokeTool(t, given) = {BuildRequest(t, given)} \ {Refused}
    BY <1>1, <1>3, Zenon DEF InvokeTool
  <2>2. r = BuildRequest(t, given) /\ r # Refused
    BY <2>1
  <2>3. CASE t \in ListTools
    <3>1. r = Request("GET", <<t[2]>>, ListQuery(given), NoBody)
      BY <2>2, <2>3, ListToolRequest
    <3> QED
      BY <3>1, MethodOfRequest, Zenon
  <2>4. CASE t \in ControlReads
    <3>1. r = Request("GET", <<"control", t[2]>>, {}, NoBody)
      BY <2>2, <2>4, ControlReadRequest DEF Plain
    <3> QED
      BY <3>1, MethodOfRequest, Zenon
  <2>5. CASE t = <<"get", "route">>
    <3>1. t \in ResourceTools /\ t[1] = "get"
      BY <2>5 DEF ResourceTools, Nouns, KindOf
    <3> QED
      BY <2>2, <3>1, ResourceToolRequest, ReadingGets
  <2>6. CASE t = Export
    <3>1. r = ExportRequest(given)
      BY <2>2, <2>6, ExportToolRequest, Zenon
    <3> QED
      BY <3>1, MethodOfRequest, Zenon DEF ExportRequest
  <2>7. CASE t = History
    <3>1. BuildRequest(History, given).method = "GET"
      <4>1. BuildRequest(History, given)
              = Request("GET", <<"control", "history">>,
                        {<<"limit", AsInt(given, "limit", 10)>>}, NoBody)
        BY HistoryRequest
      <4> QED
        BY <4>1 DEF Request
    <3> QED
      BY <2>2, <2>7, <3>1
  <2> QED
    BY <1>3, <2>3, <2>4, <2>5, <2>6, <2>7 DEF OfferedReads, Export, History
<1> QED
  BY <1>2, <1>3

\* Reading one upstream is a GET, so a tune that sends anything else is no dry run.
LEMMA TuneWritesOnRequest ==
  ASSUME NEW given, NEW r \in TuneRequests(given), r.method # "GET"
  PROVE  ~AsBool(given, "dry_run", TRUE)
<1>1. Metrics.method = "GET"
  BY MethodOfRequest DEF Metrics, Plain
<1>2. ASSUME NEW id \in Upstreams
      PROVE  BuildRequest(<<"get", "upstream">>, Upstream(id)).method = "GET"
  <2>1. <<"get", "upstream">> \in ResourceTools
    BY DEF ResourceTools, Nouns, KindOf
  <2>2. BuildRequest(<<"get", "upstream">>, Upstream(id))
          = ResourceRequest("get", "upstream", Upstream(id))
    BY <2>1, ResourceToolRequest
  <2>3. AsString(Upstream(id), "id") = id
    BY DEF AsString, Upstream
  <2>4. AsString(Upstream(id), "id") # Empty
    BY <2>3, UpstreamsAssumption DEF Empty
  <2>5. ResourceRequest("get", "upstream", Upstream(id))
          = Request("GET", <<KindOf["upstream"], AsString(Upstream(id), "id")>>, {}, NoBody)
    BY <2>4 DEF ResourceRequest, Writes, MethodOf
  <2> QED
    BY <2>2, <2>5, MethodOfRequest
<1>3. \E u \in Upstreams : ~AsBool(given, "dry_run", TRUE)
  BY <1>1, <1>2 DEF TuneRequests
<1> QED
  BY <1>3

\* A caller without a scope for writing is allowed only what is offered for reading.
LEMMA ReadersReachReads ==
  ASSUME Inv, OffersKept, held \intersect Writing = {}, Allowed(held, tool, Policy)
  PROVE  tool \in OfferedReads
<1>1. SUFFICES ASSUME tool \notin OfferedReads
               PROVE  FALSE
  OBVIOUS
<1>2. Policy.toolScopeMap[tool] = Trimmed("gateway:write")
  BY <1>1 DEF OffersKept, Allowed
<1>3. HasAnyScope(held, Trimmed("gateway:write"), TRUE)
  BY <1>2 DEF Allowed
<1>4. PICK s \in held : s = AdminAll \/ HasScope(Trimmed("gateway:write"), s)
  BY <1>3 DEF HasAnyScope
<1>5. s = "gateway:write" \/ s \in LegacyWrite \/ s = AdminAll
  BY <1>4 DEF HasScope, Trimmed, LegacyAliases
<1> QED
  BY <1>5 DEF Writing

\* Under a configuration that keeps to the catalog, callers without a scope for writing
\* make the server send GETs only, and tune_upstream_timeout writes only when asked to
\* (buildRequest and TuneUpstreamTimeout of the gateway client).
THEOREM ReadersSendGets == Spec => []ReadersOnlyRead
<1>1. Inv => ReadersOnlyRead
  <2>1. ASSUME Inv, OffersKept, held \intersect Writing = {},
               Allowed(held, tool, Policy), NEW r \in InvokeTool(tool, args)
        PROVE  r.method = "GET"
    BY <2>1, ReadersReachReads, OfferedReadsGet
  <2>2. ASSUME tool = Tune, NEW r \in InvokeTool(tool, args), r.method # "GET"
        PROVE  \/ args["dry_run"].type = "boolean" /\ ~args["dry_run"].truth
               \/ AsString(args, "dry_run") \in {"false", "0", "no", "n"}
    <3>1. r \in TuneRequests(args)
      BY <2>2 DEF InvokeTool, Tune, Analyze
    <3>2. ~AsBool(args, "dry_run", TRUE)
      BY <2>2, <3>1, TuneWritesOnRequest
    <3> QED
      BY <3>2, Zenon DEF AsBool
  <2> QED
    BY <2>1, <2>2 DEF ReadersOnlyRead
<1> QED
  BY <1>1, Invariance, PTL

-----------------------------------------------------------------------------
(***************************************************************************)
(* Which tool a request was made for, told by the request alone.               *)
(***************************************************************************)
VerbOf == [GET |-> "get", PUT |-> "put", PATCH |-> "patch", DELETE |-> "delete"]

NounOf == [routes |-> "route", services |-> "service", upstreams |-> "upstream",
           plugin_configs |-> "plugin_config", global_rules |-> "global_rule"]

ControlTool ==
  [schema |-> <<"get", "schema">>, plugins |-> <<"list", "plugins">>,
   stats |-> <<"get", "stats">>, exports |-> Export, history |-> History]

MadeFor(r) ==
  IF Len(r.path) = 1 THEN <<"list", r.path[1]>>
  ELSE IF Len(r.path) = 3 THEN <<r.path[3], "import">>
  ELSE IF Len(r.path) = 4 THEN Rollback
  ELSE IF r.path[1] = "control" THEN ControlTool[r.path[2]]
  ELSE <<VerbOf[r.method], NounOf[r.path[1]]>>

\* A change is addressed to a resource that was named, or to the control operations.
Addressed(r) ==
  /\ r.method \in {"PUT", "PATCH", "DELETE"} =>
       Len(r.path) = 2 /\ r.path[1] \in Kinds /\ r.path[2] # Empty
  /\ r.method = "POST" => r.path[1] = "control"

LEMMA ResourceIsAddressed ==
  ASSUME NEW t \in ResourceTools, NEW given, BuildRequest(t, given) # Refused
  PROVE  LET r == BuildRequest(t, given) IN MadeFor(r) = t /\ Addressed(r)
<1> DEFINE r == BuildRequest(t, given)
<1>1. t[1] \in {"get", "put", "patch", "delete"} /\ t[2] \in Nouns
  BY GroupsAreApart
<1>2. AsString(given, "id") # Empty
  BY ResourceToolRequest DEF ResourceRequest
<1>3. r.method = MethodOf[t[1]] /\ r.path = <<KindOf[t[2]], AsString(given, "id")>>
  BY ResourceToolRequest DEF ResourceRequest, Request
<1>4. /\ KindOf[t[2]] \in Kinds /\ KindOf[t[2]] # "control" /\ NounOf[KindOf[t[2]]] = t[2]
      /\ VerbOf[MethodOf[t[1]]] = t[1] /\ MethodOf[t[1]] # "POST"
  BY <1>1 DEF Kinds, Nouns, KindOf, NounOf, VerbOf, MethodOf
<1>5. t = <<t[1], t[2]>>
  BY DEF ResourceTools
<1> HIDE DEF r
<1>6. Len(r.path) = 2 /\ r.path[1] = KindOf[t[2]] /\ r.path[2] = AsString(given, "id")
  BY <1>3
<1>7. MadeFor(r) = <<t[1], t[2]>>
  BY <1>3, <1>4, <1>6 DEF MadeFor
<1>8. Addressed(r)
  BY <1>2, <1>3, <1>4, <1>6 DEF Addressed
<1> QED
  BY <1>5, <1>7, <1>8 DEF r

\* Every request that is made tells its tool, and where it goes.
LEMMA RequestsTell ==
  ASSUME NEW t \in Tools, NEW given, BuildRequest(t, given) # Refused
  PROVE  MadeFor(BuildRequest(t, given)) = t /\ Addressed(BuildRequest(t, given))
<1> DEFINE r == BuildRequest(t, given)
<1>1. CASE t \in ListTools
  <2>1. r.method = "GET" /\ r.path = <<t[2]>>
    BY <1>1, ListToolRequest DEF Request
  <2>2. t = <<"list", t[2]>>
    BY <1>1 DEF ListTools
  <2> HIDE DEF r
  <2> QED
    BY <2>1, <2>2 DEF r, MadeFor, Addressed
<1>2. CASE t \in ResourceTools
  BY <1>2, ResourceIsAddressed
<1>3. CASE t \in ImportTools
  <2>1. r.method = "POST" /\ r.path = <<"control", "imports", t[1]>>
    <3>1. r = ImportRequest(t[1], given)
      BY <1>3, ImportToolRequest
    <3>2. \E body : r = Request("POST", <<"control", "imports", t[1]>>, {}, body)
      BY <3>1 DEF ImportRequest
    <3> HIDE DEF r
    <3> QED
      BY <3>2 DEF Request
  <2>2. t = <<t[1], "import">>
    BY <1>3 DEF ImportTools
  <2> HIDE DEF r
  <2> QED
    BY <2>1, <2>2 DEF r, MadeFor, Addressed
<1>4. CASE t \in ControlReads
  <2>1. r.method = "GET" /\ r.path = <<"control", t[2]>>
    BY <1>4, ControlReadRequest DEF Plain, Request
  <2>2. ControlTool[t[2]] = t
    BY <1>4 DEF ControlReads, ControlTool
  <2> HIDE DEF r
  <2> QED
    BY <2>1, <2>2 DEF r, MadeFor, Addressed
<1>5. CASE t = Export
  <2>1. r.method = "GET" /\ r.path = <<"control", "exports">>
    BY <1>5, ExportToolRequest DEF ExportRequest, Request
  <2>2. ControlTool["exports"] = t
    BY <1>5 DEF ControlTool
  <2> HIDE DEF r
  <2> QED
    BY <2>1, <2>2 DEF r, MadeFor, Addressed
<1>6. CASE t = History
  <2>1. r.method = "GET" /\ r.path = <<"control", "history">>
    BY <1>6, HistoryRequest DEF Request
  <2>2. ControlTool["history"] = t
    BY <1>6 DEF ControlTool
  <2> HIDE DEF r
  <2> QED
    BY <2>1, <2>2 DEF r, MadeFor, Addressed
<1>7. CASE t = Rollback
  <2>1. r = RollbackRequest(given)
    BY <1>7, RollbackToolRequest
  <2>2. /\ r.method = "POST"
        /\ r.path = <<"control", "history", AsString(given, "id"), "rollback">>
    BY <2>1 DEF RollbackRequest, Request
  <2> HIDE DEF r
  <2> QED
    BY <1>7, <2>2 DEF r, MadeFor, Addressed
<1>8. CASE t \in {Analyze, Tune}
  BY <1>8, TuningRequest
<1> QED
  BY <1>1, <1>2, <1>3, <1>4, <1>5, <1>6, <1>7, <1>8 DEF Tools, Export, History, Rollback

\* Before any tool is named there is no request.
LEMMA NoToolRefused ==
  ASSUME NEW given
  PROVE  BuildRequest(NoTool, given) = Refused
<1>1. /\ NoTool \notin ListTools /\ NoTool \notin ResourceTools
      /\ NoTool \notin ImportTools /\ NoTool \notin ControlReads
  BY DEF NoTool, ListTools, ResourceTools, ImportTools, ControlReads
<1>2. NoTool # Export /\ NoTool # History /\ NoTool # Rollback
  BY DEF NoTool, Export, History, Rollback
<1> QED
  BY <1>1, <1>2, Zenon DEF BuildRequest, Export, History, Rollback

(***************************************************************************)
(* A change goes to the one resource its caller named, or to a control             *)
(* operation, and no two tools are the same request (buildRequest).                *)
(***************************************************************************)
THEOREM TargetsNamed == Spec => []RequestsNameTheirTarget
<1>1. Inv => RequestsNameTheirTarget
  <2> DEFINE r == BuildRequest(tool, args)
  <2> SUFFICES ASSUME Inv, r # Refused
               PROVE  /\ r.method \in {"PUT", "PATCH", "DELETE"} =>
                           /\ Len(r.path) = 2
                           /\ r.path[1] \in Kinds /\ r.path[2] # Empty
                      /\ r.method = "POST" => r.path[1] = "control"
                      /\ \A t \in Tools \ {tool} : BuildRequest(t, args) # r
    BY DEF RequestsNameTheirTarget
  <2>1. tool \in Tools
    BY NoToolRefused DEF Inv
  <2>2. MadeFor(r) = tool /\ Addressed(r)
    BY <2>1, RequestsTell
  <2>3. ASSUME NEW t \in Tools, BuildRequest(t, args) = r PROVE t = tool
    <3>1. MadeFor(BuildRequest(t, args)) = t
      BY <2>3, RequestsTell
    <3> QED
      BY <2>2, <2>3, <3>1
  <2> HIDE DEF r
  <2> QED
    BY <2>2, <2>3 DEF Addressed
<1> QED
  BY <1>1, Invariance, PTL

-----------------------------------------------------------------------------
\* A request with a method is made.
LEMMA RequestIsMade ==
  ASSUME NEW method, method # "none", NEW path, NEW query, NEW body
  PROVE  Request(method, path, query, body) # Refused
<1>1. Request(method, path, query, body).method # Refused.method
  BY DEF Request, Refused
<1> QED
  BY <1>1

\* What a call sends, by what its tool is.
LEMMA InvokeToolSends ==
  ASSUME NEW given
  PROVE  /\ InvokeTool(Analyze, given) = {Metrics}
         /\ InvokeTool(Tune, given) = TuneRequests(given)
         /\ \A t : t \notin {Analyze, Tune} =>
              InvokeTool(t, given) = {BuildRequest(t, given)} \ {Refused}
<1>1. InvokeTool(Analyze, given) = {Metrics}
  BY SinglesDiffer, Zenon DEF InvokeTool
<1>2. InvokeTool(Tune, given) = TuneRequests(given)
  BY SinglesDiffer, Zenon DEF InvokeTool
<1>3. ASSUME NEW t, t \notin {Analyze, Tune}
      PROVE  InvokeTool(t, given) = {BuildRequest(t, given)} \ {Refused}
  <2>1. t # Analyze /\ t # Tune
    BY <1>3
  <2> QED
    BY <2>1, Zenon DEF InvokeTool
<1> QED
  BY <1>1, <1>2, <1>3

LEMMA SentIfMade ==
  ASSUME NEW t, t \notin {Analyze, Tune}, NEW given
  PROVE  InvokeTool(t, given) = {} <=> BuildRequest(t, given) = Refused
BY InvokeToolSends

LEMMA SentAlike ==
  ASSUME NEW t, t \notin {Analyze, Tune}, NEW a, NEW b, BuildRequest(t, a) = BuildRequest(t, b)
  PROVE  InvokeTool(t, a) = InvokeTool(t, b)
<1>1. /\ InvokeTool(t, a) = {BuildRequest(t, a)} \ {Refused}
      /\ InvokeTool(t, b) = {BuildRequest(t, b)} \ {Refused}
  BY InvokeToolSends
<1> QED
  BY <1>1

LEMMA SchemaFields ==
  ASSUME NEW properties, NEW required
  PROVE  /\ Schema(properties, required).properties = properties
         /\ Schema(properties, required).required = required
BY DEF Schema

\* Arguments that conform to a schema with an id, or a body, have one.
LEMMA ConformingHas ==
  ASSUME NEW given, NEW properties, NEW required, Conforms(given, Schema(properties, required)),
         NEW key \in required \intersect DOMAIN properties,
         properties[key] \in {"string", "object"}
  PROVE  key \in DOMAIN given /\ given[key].type = properties[key]
<1>1. key \in DOMAIN given /\ HasType(given[key], properties[key])
  BY SchemaFields DEF Conforms
<1>2. properties[key] # "integer" /\ properties[key] # "array"
  OBVIOUS
<1> QED
  BY <1>1, <1>2, Zenon DEF HasType

\* A resource request is refused without an id, and a write without a body.
LEMMA ResourceRefusal ==
  ASSUME NEW t \in ResourceTools, NEW given
  PROVE  BuildRequest(t, given) = Refused <=>
           AsString(given, "id") = Empty \/ (t[1] \in Writes /\ ~IsObject(given, "body"))
<1>1. t[1] \in {"get", "put", "patch", "delete"}
  BY GroupsAreApart
<1>2. MethodOf[t[1]] # "none"
  BY <1>1 DEF MethodOf
<1> DEFINE blank == AsString(given, "id") = Empty \/ (t[1] \in Writes /\ ~IsObject(given, "body"))
           body == IF t[1] \in Writes THEN given["body"] ELSE NoBody
           made == Request(MethodOf[t[1]], <<KindOf[t[2]], AsString(given, "id")>>, {}, body)
<1>3. BuildRequest(t, given) = IF blank THEN Refused ELSE made
  BY ResourceToolRequest DEF ResourceRequest
<1>4. made # Refused
  <2> HIDE DEF body
  <2> QED
    BY <1>2, RequestIsMade
<1> HIDE DEF made
<1> QED
  BY <1>3, <1>4

LEMMA RollbackRefusal ==
  ASSUME NEW given
  PROVE  BuildRequest(Rollback, given) = Refused <=> AsString(given, "id") = Empty
BY RollbackToolRequest, RequestIsMade DEF RollbackRequest

\* Of the other tools no request is ever refused.
LEMMA OthersAreSent ==
  ASSUME NEW t \in Tools, t \notin ResourceTools, t # Rollback, NEW given
  PROVE  InvokeTool(t, given) # {}
<1>1. CASE t = Analyze
  BY <1>1, InvokeToolSends
<1>2. CASE t = Tune
  <2>1. Metrics \in TuneRequests(given)
    BY DEF TuneRequests
  <2> QED
    BY <1>2, <2>1, InvokeToolSends
<1>3. CASE t \notin {Analyze, Tune}
  <2>1. CASE t \in ListTools
    <3>1. BuildRequest(t, given) = Request("GET", <<t[2]>>, ListQuery(given), NoBody)
      BY <2>1, ListToolRequest
    <3>2. Request("GET", <<t[2]>>, ListQuery(given), NoBody) # Refused
      BY RequestIsMade
    <3> QED
      BY <1>3, <3>1, <3>2, SentIfMade
  <2>2. CASE t \in ImportTools
    <3>1. \E body : BuildRequest(t, given)
                      = Request("POST", <<"control", "imports", t[1]>>, {}, body)
      BY <2>2, ImportToolRequest DEF ImportRequest
    <3> QED
      BY <1>3, <3>1, RequestIsMade, SentIfMade
  <2>3. CASE t \in ControlReads
    BY <1>3, <2>3, ControlReadRequest, RequestIsMade, SentIfMade DEF Plain
  <2>4. CASE t = Export
    <3>1. BuildRequest(t, given) = ExportRequest(given)
      BY <2>4, ExportToolRequest
    <3>2. ExportRequest(given) # Refused
      BY RequestIsMade DEF ExportRequest
    <3> QED
      BY <1>3, <3>1, <3>2, SentIfMade
  <2>5. CASE t = History
    BY <1>3, <2>5, HistoryRequest, RequestIsMade, SentIfMade
  <2> QED
    BY <1>3, <2>1, <2>2, <2>3, <2>4, <2>5 DEF Tools, Export, History, Rollback
<1> QED
  BY <1>1, <1>2, <1>3

\* Arguments that conform make a request unless an id is blank.
LEMMA ConformingIsSent ==
  ASSUME NEW t \in Tools, NEW given, Conforms(given, InputSchemaFor(t)),
         \A key \in InputSchemaFor(t).required :
           ~(given[key].type = "string" /\ given[key].text = Empty)
  PROVE  InvokeTool(t, given) # {}
<1>1. ASSUME NEW properties, NEW required, InputSchemaFor(t) = Schema(properties, required),
             "id" \in required \intersect DOMAIN properties, properties["id"] = "string"
      PROVE  AsString(given, "id") # Empty
  <2>1. Conforms(given, Schema(properties, required)) /\ "id" \in required
    BY <1>1
  <2>2. "id" \in DOMAIN given /\ given["id"].type = "string"
    BY <1>1, <2>1, ConformingHas
  <2>3. given["id"].text # Empty
    BY <1>1, <2>1, <2>2, SchemaFields
  <2> QED
    BY <2>2, <2>3 DEF AsString
<1>2. CASE t \in ResourceTools
  <2>1. t \notin {Analyze, Tune}
    BY <1>2, ResourceToolsApart DEF Singles
  <2>2. CASE t[1] \in Writes
    <3> DEFINE props == [id |-> "string", body |-> "object"]
    <3>1. InputSchemaFor(t) = Schema(props, {"id", "body"})
      BY <1>2, <2>2, ResourceToolRequest
    <3>2. DOMAIN props = {"id", "body"} /\ props["id"] = "string" /\ props["body"] = "object"
      OBVIOUS
    <3> HIDE DEF props
    <3>3. AsString(given, "id") # Empty
      BY <1>1, <3>1, <3>2
    <3>4. Conforms(given, Schema(props, {"id", "body"}))
      BY <3>1
    <3>5. IsObject(given, "body")
      BY <3>2, <3>4, ConformingHas DEF IsObject
    <3> QED
      BY <1>2, <2>1, <3>3, <3>5, ResourceRefusal, SentIfMade
  <2>3. CASE t[1] \notin Writes
    <3> DEFINE props == [id |-> "string"]
    <3>1. InputSchemaFor(t) = Schema(props, {"id"})
      BY <1>2, <2>3, ResourceToolRequest
    <3>2. DOMAIN props = {"id"} /\ props["id"] = "string"
      OBVIOUS
    <3> HIDE DEF props
    <3>3. AsString(given, "id") # Empty
      BY <1>1, <3>1, <3>2
    <3> QED
      BY <1>2, <2>1, <2>3, <3>3, ResourceRefusal, SentIfMade
  <2> QED
    BY <2>2, <2>3
<1>3. CASE t = Rollback
  <2> DEFINE props == [id |-> "string"]
  <2>1. InputSchemaFor(t) = Schema(props, {"id"})
    BY <1>3, RollbackToolRequest
  <2>2. DOMAIN props = {"id"} /\ props["id"] = "string"
    OBVIOUS
  <2> HIDE DEF props
  <2>3. AsString(given, "id") # Empty
    BY <1>1, <2>1, <2>2
  <2>4. t \notin {Analyze, Tune}
    BY <1>3, SinglesDiffer
  <2> QED
    BY <1>3, <2>3, <2>4, RollbackRefusal, SentIfMade
<1>4. CASE t \notin ResourceTools /\ t # Rollback
  BY <1>4, OthersAreSent
<1> QED
  BY <1>2, <1>3, <1>4

\* Only an id and a body are ever required; without them nothing is sent.
LEMMA MissingIsRefused ==
  ASSUME NEW t \in Tools, NEW given, ~(InputSchemaFor(t).required \subseteq DOMAIN given)
  PROVE  InvokeTool(t, given) = {}
<1>1. CASE t \in ResourceTools
  <2>1. t \notin {Analyze, Tune}
    BY <1>1, ResourceToolsApart DEF Singles
  <2>2. "id" \notin DOMAIN given \/ (t[1] \in Writes /\ "body" \notin DOMAIN given)
    BY <1>1, ResourceToolRequest, SchemaFields
  <2> QED
    BY <1>1, <2>1, <2>2, ResourceRefusal, SentIfMade DEF AsString, IsObject
<1>2. CASE t = Rollback
  <2>1. t \notin {Analyze, Tune}
    BY <1>2, SinglesDiffer
  <2>2. "id" \notin DOMAIN given
    BY <1>2, RollbackToolRequest, SchemaFields
  <2> QED
    BY <1>2, <2>1, <2>2, RollbackRefusal, SentIfMade DEF AsString
<1>3. CASE t \in ListTools \/ t \in ImportTools \/ t \in ControlReads
  <2>1. \E props : InputSchemaFor(t) = Schema(props, {})
    <3>1. CASE t \in ListTools
      BY <3>1, ListToolRequest
    <3>2. CASE t \in ImportTools
      BY <3>2, ImportToolRequest
    <3>3. CASE t \in ControlReads
      BY <3>3, ControlReadRequest
    <3> QED
      BY <1>3, <3>1, <3>2, <3>3
  <2> QED
    BY <2>1, SchemaFields
<1>4. CASE t \in {Export, History}
  <2>1. \E props : InputSchemaFor(Export) = Schema(props, {})
    BY ExportToolRequest
  <2>2. \E props : InputSchemaFor(History) = Schema(props, {})
    BY HistoryRequest
  <2> QED
    BY <1>4, <2>1, <2>2, SchemaFields
<1>5. CASE t = Analyze
  <2>1. InputSchemaFor(Analyze) = Schema(TuningProperties, {})
    BY SinglesApart, SinglesDiffer, Zenon DEF InputSchemaFor, Export, History, Rollback
  <2>2. InputSchemaFor(t).required = {}
    BY <1>5, <2>1, SchemaFields
  <2> QED
    BY <2>2
<1>6. CASE t = Tune
  <2>1. \E props : InputSchemaFor(Tune) = Schema(props, {})
    BY SinglesApart, SinglesDiffer, Zenon DEF InputSchemaFor, Export, History, Rollback
  <2>2. InputSchemaFor(t).required = {}
    BY <1>6, <2>1, SchemaFields
  <2> QED
    BY <2>2
<1> QED
  BY <1>1, <1>2, <1>3, <1>4, <1>5, <1>6 DEF Tools, Export, History, Rollback

-----------------------------------------------------------------------------
\* The arguments that a set of keys leaves of a call.
Kept(given, keys) == [key \in DOMAIN given \intersect keys |-> given[key]]

LEMMA KeptArgument ==
  ASSUME NEW given, NEW keys, NEW key \in keys
  PROVE  /\ key \in DOMAIN Kept(given, keys) <=> key \in DOMAIN given
         /\ key \in DOMAIN given => Kept(given, keys)[key] = given[key]
BY DEF Kept

\* What is kept is read alike.
LEMMA KeptTexts ==
  ASSUME NEW given, NEW keys, NEW key \in keys
  PROVE  /\ IsObject(Kept(given, keys), key) <=> IsObject(given, key)
         /\ AsString(Kept(given, keys), key) = AsString(given, key)
         /\ AsStringSlice(Kept(given, keys), key) = AsStringSlice(given, key)
BY KeptArgument DEF IsObject, AsString, AsStringSlice

LEMMA KeptNumbers ==
  ASSUME NEW given, NEW keys, NEW key \in keys, NEW fallback
  PROVE  AsInt(Kept(given, keys), key, fallback) = AsInt(given, key, fallback)
<1> DEFINE kept == Kept(given, keys)
<1>1. key \in DOMAIN kept <=> key \in DOMAIN given
  BY KeptArgument
<1>2. key \in DOMAIN given => kept[key] = given[key]
  BY KeptArgument
<1>3. CASE key \notin DOMAIN given
  BY <1>1, <1>3, Zenon DEF AsInt
<1>4. CASE key \in DOMAIN given
  BY <1>1, <1>2, <1>4, Zenon DEF AsInt
<1> QED
  BY <1>3, <1>4

LEMMA KeptFlags ==
  ASSUME NEW given, NEW keys, NEW key \in keys
  PROVE  AsBool(Kept(given, keys), key, TRUE) = AsBool(given, key, TRUE)
<1> DEFINE kept == Kept(given, keys)
<1>1. key \in DOMAIN kept <=> key \in DOMAIN given
  BY KeptArgument
<1>2. key \in DOMAIN given => kept[key] = given[key]
  BY KeptArgument
<1>3. AsString(kept, key) = AsString(given, key)
  BY KeptTexts
<1>4. CASE key \notin DOMAIN given
  BY <1>1, <1>3, <1>4, Zenon DEF AsBool
<1>5. CASE key \in DOMAIN given
  BY <1>1, <1>2, <1>3, <1>5, Zenon DEF AsBool
<1> QED
  BY <1>4, <1>5

\* The keys of a schema are all its group reads.
LEMMA KeptRequest ==
  ASSUME NEW t \in Tools, t \notin ImportTools, NEW given,
         NEW keys, keys = DOMAIN InputSchemaFor(t).properties
  PROVE  InvokeTool(t, Kept(given, keys)) = InvokeTool(t, given)
<1> DEFINE kept == Kept(given, keys)
<1>0. (t \notin Singles \/ t \in {Export, History, Rollback})
        /\ BuildRequest(t, kept) = BuildRequest(t, given)
        => InvokeTool(t, kept) = InvokeTool(t, given)
  <2>1. t \notin Singles \/ t \in {Export, History, Rollback} => t \notin {Analyze, Tune}
    BY SinglesDiffer
  <2> HIDE DEF kept
  <2> QED
    BY <2>1, SentAlike
<1>1. CASE t \in ListTools
  <2> DEFINE props == [page |-> "integer", page_size |-> "integer", keyword |-> "string"]
  <2>1. InputSchemaFor(t) = Schema(props, {})
    BY <1>1, ListToolRequest
  <2>2. keys = {"page", "page_size", "keyword"}
    BY <2>1, SchemaFields
  <2>3. /\ AsInt(kept, "page", 0) = AsInt(given, "page", 0)
        /\ AsInt(kept, "page_size", 0) = AsInt(given, "page_size", 0)
        /\ AsString(kept, "keyword") = AsString(given, "keyword")
    BY <2>2, KeptNumbers, KeptTexts
  <2> HIDE DEF kept
  <2>4. \A key \in {"page", "page_size"} : AsInt(kept, key, 0) = AsInt(given, key, 0)
    BY <2>3
  <2>5. \A key \in {"keyword"} : AsString(kept, key) = AsString(given, key)
    BY <2>3
  <2>6. ListQuery(kept) = ListQuery(given)
    BY <2>4, <2>5 DEF ListQuery
  <2>7. BuildRequest(t, kept) = BuildRequest(t, given)
    BY <1>1, <2>6, ListToolRequest
  <2> QED
    BY <1>0, <1>1, <2>7, ListToolsApart DEF kept
<1>2. CASE t \in ResourceTools
  <2>1. "id" \in keys /\ (t[1] \in Writes => "body" \in keys)
    <3>1. CASE t[1] \in Writes
      <4> DEFINE props == [id |-> "string", body |-> "object"]
      <4>1. InputSchemaFor(t) = Schema(props, {"id", "body"})
        BY <1>2, <3>1, ResourceToolRequest
      <4> QED
        BY <4>1, SchemaFields
    <3>2. CASE t[1] \notin Writes
      <4> DEFINE props == [id |-> "string"]
      <4>1. InputSchemaFor(t) = Schema(props, {"id"})
        BY <1>2, <3>2, ResourceToolRequest
      <4> QED
        BY <3>2, <4>1, SchemaFields
    <3> QED
      BY <3>1, <3>2
  <2>2. AsString(kept, "id") = AsString(given, "id")
    BY <2>1, KeptTexts
  <2>3. t[1] \in Writes => /\ IsObject(kept, "body") <=> IsObject(given, "body")
                           /\ IsObject(given, "body") => kept["body"] = given["body"]
    BY <2>1, KeptTexts, KeptArgument DEF IsObject
  <2> HIDE DEF kept
  <2>4. ResourceRequest(t[1], t[2], kept) = ResourceRequest(t[1], t[2], given)
    BY <2>2, <2>3 DEF ResourceRequest
  <2>5. BuildRequest(t, kept) = BuildRequest(t, given)
    BY <1>2, <2>4, ResourceToolRequest
  <2> QED
    BY <1>0, <1>2, <2>5, ResourceToolsApart DEF kept
<1>3. CASE t \in ControlReads
  <2>1. BuildRequest(t, kept) = BuildRequest(t, given)
    BY <1>3, ControlReadRequest
  <2> QED
    BY <1>0, <1>3, <2>1, ControlReadsApart
<1>4. CASE t = Export
  <2> DEFINE props == [format |-> "string", kinds |-> "array"]
  <2>1. InputSchemaFor(t) = Schema(props, {})
    BY <1>4, ExportToolRequest
  <2>2. keys = {"format", "kinds"}
    BY <2>1, SchemaFields
  <2>3. /\ AsString(kept, "format") = AsString(given, "format")
        /\ AsStringSlice(kept, "kinds") = AsStringSlice(given, "kinds")
    BY <2>2, KeptTexts
  <2> HIDE DEF kept
  <2>4. \A key \in {"format"} : AsString(kept, key) = AsString(given, key)
    BY <2>3
  <2>5. \A key \in {"kinds"} : AsStringSlice(kept, key) = AsStringSlice(given, key)
    BY <2>3
  <2>6. ExportRequest(kept) = ExportRequest(given)
    BY <2>4, <2>5 DEF ExportRequest
  <2>7. BuildRequest(t, kept) = BuildRequest(t, given)
    BY <1>4, <2>6, ExportToolRequest
  <2> QED
    BY <1>0, <1>4, <2>7 DEF kept
<1>5. CASE t = History
  <2> DEFINE props == [limit |-> "integer"]
  <2>1. InputSchemaFor(t) = Schema(props, {})
    BY <1>5, HistoryRequest
  <2>2. "limit" \in keys
    BY <2>1, SchemaFields
  <2>3. AsInt(kept, "limit", 10) = AsInt(given, "limit", 10)
    BY <2>2, KeptNumbers
  <2> HIDE DEF kept
  <2>4. BuildRequest(History, kept) = BuildRequest(History, given)
    BY <2>3, HistoryRequest
  <2> QED
    BY <1>0, <1>5, <2>4 DEF kept
<1>6. CASE t = Rollback
  <2> DEFINE props == [id |-> "string"]
  <2>1. InputSchemaFor(t) = Schema(props, {"id"})
    BY <1>6, RollbackToolRequest
  <2>2. "id" \in keys
    BY <2>1, SchemaFields
  <2>3. AsString(kept, "id") = AsString(given, "id")
    BY <2>2, KeptTexts
  <2> HIDE DEF kept
  <2>4. RollbackRequest(kept) = RollbackRequest(given)
    BY <2>3 DEF RollbackRequest
  <2>5. BuildRequest(t, kept) = BuildRequest(t, given)
    BY <1>6, <2>4, RollbackToolRequest
  <2> QED
    BY <1>0, <1>6, <2>5 DEF kept
<1>7. CASE t = Analyze
  BY <1>7, InvokeToolSends
<1>8. CASE t = Tune
  <2> DEFINE props == [key \in DOMAIN TuningProperties \union {"dry_run"} |->
                         IF key = "dry_run" THEN "boolean" ELSE TuningProperties[key]]
  <2>1. InputSchemaFor(Tune) = Schema(props, {})
    BY SinglesApart, SinglesDiffer, Zenon DEF InputSchemaFor, Export, History, Rollback
  <2>2. "dry_run" \in keys
    BY <1>8, <2>1, SchemaFields
  <2>3. AsBool(kept, "dry_run", TRUE) = AsBool(given, "dry_run", TRUE)
    BY <2>2, KeptFlags
  <2> HIDE DEF kept
  <2>4. TuneRequests(kept) = TuneRequests(given)
    BY <2>3 DEF TuneRequests
  <2> QED
    BY <1>8, <2>4, InvokeToolSends DEF kept
<1> QED
  BY <1>1, <1>2, <1>3, <1>4, <1>5, <1>6, <1>7, <1>8 DEF Tools, Export, History, Rollback

\* The catalog offers no tool that InvokeTool does not know.
LEMMA CatalogIsKnown == Catalog \subseteq Tools
<1>1. OfferedReads \subseteq Tools
  BY DEF OfferedReads, Tools, ResourceTools, Nouns, KindOf
<1>2. OfferedWrites \subseteq Tools
  BY DEF OfferedWrites, Tools, ResourceTools, Nouns, KindOf
<1> QED
  BY <1>1, <1>2 DEF Catalog

(***************************************************************************)
(* The schema a caller is shown decides what is sent: conforming arguments are  *)
(* sent, incomplete ones are not, and what it does not declare changes nothing     *)
(* (schemas.go against http_client.go), for any values whatever.                  *)
(***************************************************************************)
THEOREM SchemasDecide == Spec => []SchemaDecides
<1>1. SchemaDecides
  <2> SUFFICES ASSUME tool \in Catalog
               PROVE  /\ Conforms(args, InputSchemaFor(tool)) /\ ~Blanked =>
                           InvokeTool(tool, args) # {}
                      /\ ~(InputSchemaFor(tool).required \subseteq DOMAIN args) =>
                           InvokeTool(tool, args) = {}
                      /\ tool \notin ImportTools =>
                           InvokeTool(tool, [key \in DOMAIN args \intersect Declared |-> args[key]])
                             = InvokeTool(tool, args)
    BY DEF SchemaDecides
  <2>1. tool \in Tools
    BY CatalogIsKnown
  <2>2. Conforms(args, InputSchemaFor(tool)) /\ ~Blanked => InvokeTool(tool, args) # {}
    BY <2>1, ConformingIsSent DEF Blanked
  <2>3. ~(InputSchemaFor(tool).required \subseteq DOMAIN args) => InvokeTool(tool, args) = {}
    BY <2>1, MissingIsRefused
  <2>4. tool \notin ImportTools => InvokeTool(tool, Kept(args, Declared)) = InvokeTool(tool, args)
    BY <2>1, KeptRequest DEF Declared
  <2>5. [key \in DOMAIN args \intersect Declared |-> args[key]] = Kept(args, Declared)
    BY DEF Kept
  <2> QED
    BY <2>2, <2>3, <2>4, <2>5
<1> QED
  BY <1>1, PTL

=============================================================================
