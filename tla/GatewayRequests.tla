--------------------------- MODULE GatewayRequests ---------------------------
(***************************************************************************)
(* internal/infrastructure/gatewayclient/http_client.go: the requests a tool  *)
(* call with its arguments becomes (InvokeTool, buildRequest), and beside it    *)
(* what the callers are told: the schemas of interfaces/mcp/schemas.go and the   *)
(* catalog of bootstrap/app.go.                                                *)
(*                                                                           *)
(* A tool is the pair of words its name is made of: put_route is               *)
(* <<"put", "route">>.  An argument is a JSON value: a string by its text         *)
(* without the blanks around it, a number in tenths.  A path is the sequence of    *)
(* its escaped segments after /apisix/admin.                                    *)
(***************************************************************************)
EXTENDS Integers, Sequences

CONSTANTS
  Numerals,    \* the texts that read as integers, as a function to them
  Upstreams    \* the upstream ids that the metrics may name

ASSUME UpstreamsAssumption == "" \notin Upstreams

Empty == ""

KindOf == [route |-> "routes", service |-> "services", upstream |-> "upstreams",
           plugin_config |-> "plugin_configs", global_rule |-> "global_rules"]

Nouns  == DOMAIN KindOf
Kinds  == {KindOf[noun] : noun \in Nouns}
Writes == {"put", "patch"}

ListTools     == {"list"} \X Kinds
ResourceTools == {"get", "put", "patch", "delete"} \X Nouns
ImportTools   == {"preview", "apply"} \X {"import"}
ControlReads  == {<<"get", "schema">>, <<"list", "plugins">>, <<"get", "stats">>}
Analyze       == <<"analyze", "latency">>
Tune          == <<"tune", "upstream_timeout">>

Tools == ListTools \union ResourceTools \union ImportTools \union ControlReads
         \union {<<"export", "bundle">>, <<"history", "list">>,
                 <<"history", "rollback">>, Analyze, Tune}

(***************************************************************************)
(* The catalog that is offered to callers, each tool with the scope it is      *)
(* offered under; the shipped configuration asks for the same scopes.           *)
(***************************************************************************)
OfferedReads ==
  ListTools \union ControlReads \union
  {<<"get", "route">>, <<"export", "bundle">>, <<"history", "list">>, Analyze}

OfferedWrites ==
  ({"put"} \X Nouns) \union ImportTools \union
  {<<"patch", "route">>, <<"delete", "route">>, <<"history", "rollback">>, Tune}

Catalog == OfferedReads \union OfferedWrites

-----------------------------------------------------------------------------
IsObject(args, key) == key \in DOMAIN args /\ args[key].type = "object"

AsString(args, key) ==
  IF key \in DOMAIN args /\ args[key].type = "string" THEN args[key].text ELSE Empty

Texts(items) == SelectSeq(items, LAMBDA v : v.type = "string" /\ v.text # Empty)

AsStringSlice(args, key) ==
  IF key \in DOMAIN args /\ args[key].type = "array" THEN Texts(args[key].items) ELSE <<>>

\* A conversion of Go: towards zero.
Truncated(tenths) == IF tenths < 0 THEN -((-tenths) \div 10) ELSE tenths \div 10

AsInt(args, key, fallback) ==
  IF key \notin DOMAIN args THEN fallback
  ELSE CASE args[key].type = "number" -> Truncated(args[key].tenths)
         [] args[key].type = "string" /\ args[key].text \in DOMAIN Numerals
              -> Numerals[args[key].text]
         [] OTHER -> fallback

\* Mutant of AsBool: whatever is not true is false.
AsBoolStrict(args, key, fallback) ==
  CASE key \notin DOMAIN args       -> fallback
    [] args[key].type = "boolean"   -> args[key].truth
    [] OTHER                        -> AsString(args, key) \in {"true", "1", "yes", "y"}

AsBool(args, key, fallback) ==
  CASE key \in DOMAIN args /\ args[key].type = "boolean"   -> args[key].truth
    [] AsString(args, key) \in {"true", "1", "yes", "y"}   -> TRUE
    [] AsString(args, key) \in {"false", "0", "no", "n"}   -> FALSE
    [] OTHER                                               -> fallback

-----------------------------------------------------------------------------
NoBody  == [type |-> "null"]
Refused == [method |-> "none", path |-> <<>>, query |-> {}, body |-> NoBody]

Request(method, path, query, body) ==
  [method |-> method, path |-> path, query |-> query, body |-> body]

Plain(method, path) == Request(method, path, {}, NoBody)

\* Numbers that are not positive and empty keywords are left out.
ListQuery(args) ==
  {<<key, AsInt(args, key, 0)>> :
     key \in {k \in {"page", "page_size"} : AsInt(args, k, 0) > 0}}
  \union {<<key, AsString(args, key)>> :
     key \in {k \in {"keyword"} : AsString(args, k) # Empty}}

\* Mutant of MethodOf: a patch is put.
PatchIsPut == [get |-> "GET", put |-> "PUT", patch |-> "PUT", delete |-> "DELETE"]

MethodOf == [get |-> "GET", put |-> "PUT", patch |-> "PATCH", delete |-> "DELETE"]

\* Mutant of ResourceRequest: the id is taken as it comes.
AnyResourceRequest(verb, noun, args) ==
  IF verb \in Writes /\ ~IsObject(args, "body") THEN Refused
  ELSE Request(MethodOf[verb], <<KindOf[noun], AsString(args, "id")>>, {},
               IF verb \in Writes THEN args["body"] ELSE NoBody)

\* parseKindAndID and parseWrite: an id and, for a write, an object as body.
ResourceRequest(verb, noun, args) ==
  IF AsString(args, "id") = Empty \/ (verb \in Writes /\ ~IsObject(args, "body"))
  THEN Refused
  ELSE Request(MethodOf[verb], <<KindOf[noun], AsString(args, "id")>>, {},
               IF verb \in Writes THEN args["body"] ELSE NoBody)

\* Without an object under "request" the arguments are the bundle.
ImportRequest(step, args) ==
  Request("POST", <<"control", "imports", step>>, {},
          IF IsObject(args, "request") THEN args["request"]
          ELSE [type |-> "object", fields |-> args])

ExportRequest(args) ==
  Request("GET", <<"control", "exports">>,
          {<<key, AsString(args, key)>> :
             key \in {k \in {"format"} : AsString(args, k) # Empty}}
          \union {<<key, AsStringSlice(args, key)>> :
             key \in {k \in {"kinds"} : AsStringSlice(args, k) # <<>>}},
          NoBody)

RollbackRequest(args) ==
  IF AsString(args, "id") = Empty THEN Refused
  ELSE Request("POST", <<"control", "history", AsString(args, "id"), "rollback">>, {},
               [type |-> "object", fields |-> <<>>])

BuildRequest(tool, args) ==
  CASE tool \in ListTools     -> Request("GET", <<tool[2]>>, ListQuery(args), NoBody)
    [] tool \in ResourceTools -> ResourceRequest(tool[1], tool[2], args)
    [] tool \in ImportTools   -> ImportRequest(tool[1], args)
    [] tool \in ControlReads  -> Plain("GET", <<"control", tool[2]>>)
    [] tool = <<"export", "bundle">>    -> ExportRequest(args)
    [] tool = <<"history", "list">>     ->
         Request("GET", <<"control", "history">>, {<<"limit", AsInt(args, "limit", 10)>>},
                 NoBody)
    [] tool = <<"history", "rollback">> -> RollbackRequest(args)
    [] OTHER -> Refused

Metrics == Plain("GET", <<"metrics">>)

\* What is put back, by the upstream it was read from.
Upstream(id) ==
  [key \in {"id", "body"} |->
     IF key = "id" THEN [type |-> "string", text |-> id]
     ELSE [type |-> "object", fields |-> [upstream |-> id]]]

\* What TuneUpstreamTimeout may send: it reads the metrics and the upstream they
\* name, and unless it is a dry run it puts the upstream.
TuneRequests(args) ==
  {Metrics}
  \union {BuildRequest(<<"get", "upstream">>, Upstream(id)) : id \in Upstreams}
  \union {BuildRequest(<<"put", "upstream">>, Upstream(id)) :
            id \in {u \in Upstreams : ~AsBool(args, "dry_run", TRUE)}}

\* InvokeTool: every request a call may send.
InvokeTool(tool, args) ==
  CASE tool = Analyze -> {Metrics}
    [] tool = Tune    -> TuneRequests(args)
    [] OTHER          -> {BuildRequest(tool, args)} \ {Refused}

-----------------------------------------------------------------------------
Schema(properties, required) == [properties |-> properties, required |-> required]

TuningProperties ==
  [route_id |-> "string", upstream_id |-> "string", min_samples |-> "integer",
   quantile |-> "number", safety_factor |-> "number", include_non_2xx |-> "boolean",
   min_connect_ms |-> "number", min_read_ms |-> "number",
   max_connect_seconds |-> "integer", max_read_seconds |-> "integer"]

InputSchemaFor(tool) ==
  CASE tool \in ListTools ->
         Schema([page |-> "integer", page_size |-> "integer", keyword |-> "string"], {})
    [] tool \in ResourceTools ->
         IF tool[1] \in Writes
         THEN Schema([id |-> "string", body |-> "object"], {"id", "body"})
         ELSE Schema([id |-> "string"], {"id"})
    [] tool \in ImportTools             -> Schema([request |-> "object"], {})
    [] tool = <<"export", "bundle">>    ->
         Schema([format |-> "string", kinds |-> "array"], {})
    [] tool = <<"history", "list">>     -> Schema([limit |-> "integer"], {})
    [] tool = <<"history", "rollback">> -> Schema([id |-> "string"], {"id"})
    [] tool = Analyze                   -> Schema(TuningProperties, {})
    [] tool = Tune                      ->
         Schema([key \in DOMAIN TuningProperties \union {"dry_run"} |->
                   IF key = "dry_run" THEN "boolean" ELSE TuningProperties[key]], {})
    [] OTHER                            -> Schema(<<>>, {})

HasType(value, type) ==
  CASE type = "integer" -> value.type = "number" /\ value.tenths % 10 = 0
    [] type = "array"   -> /\ value.type = "array"
                           /\ \A i \in DOMAIN value.items : value.items[i].type = "string"
    [] OTHER            -> value.type = type

Conforms(args, schema) ==
  /\ schema.required \subseteq DOMAIN args
  /\ \A key \in DOMAIN args \intersect DOMAIN schema.properties :
       HasType(args[key], schema.properties[key])

=============================================================================
