# Lumen MCP server: TLA+ models, checks and proofs

These modules model the Go program under `src/` (the Lumen MCP server): a
process that lets MCP clients and administrators call tools of an API gateway,
after verifying a bearer token against a cached JWKS document, deciding on
scopes, and recording every call in an audit log. TLC checks the models on small
instances; TLAPS proves the central safety properties for every value of the
constants. Paths below are relative to `src/internal/` unless they start with
`src/`.

Run from this directory: `tlc -config <cfg> <module>` for a run of the table
below, `tlapm <module>Proofs.tla` for the proofs.

## 1. Inventory

| component | state | operations | hard behaviour | correct when |
|---|---|---|---|---|
| Token verifier, JWKS cache (`infrastructure/jwkscache/verifier.go`) | `cachedOctHS`, `cachedAt` behind a RWMutex | `VerifyBearer` -> `selectHMACSecret` -> `loadJWKSKeys` | reads and installs are separate critical sections, fetches overlap, the last install wins, the server rotates keys, the endpoint may hang | a verdict rests on one document served within one refresh interval and one fetch; every verification returns |
| Authorization (`application/authorize/service.go`, `handlers.go:134-170`) | policy from the configuration | `Check`, `requireAuthorized` | two checks with different rules: aliases here, `admin:*` for required scopes there; padding in the tool map | decisions are a function of the implied scopes, monotone, and the two doors agree |
| Tool invocation (`application/invoke/service.go`, `interfaces/http/handlers`, `interfaces/mcp/server.go`) | one goroutine per call | admin `InvokeTool`, MCP tool handler, static bearer | a caller leaves, a reply is lost or late, the append fails, the process ends under a call | nothing unentitled reaches the gateway; log and answers tell the truth |
| Gateway client (`infrastructure/gatewayclient/http_client.go`) | none, but it changes the gateway | `InvokeTool`, `buildRequest`, `invokeGatewayTool` | arguments of any JSON type, a table of tools apart from the scopes; timeout of 15 s against a request that is carried out anyway | readers send GETs only, a change names its target, an error never hides behind a success |
| Latency analysis (`gatewayclient/latency_tools.go`) | none | `AnalyzeLatency`: parse, merge, quantile, recommend, choose | shares of small counts, slow requests beyond the last bucket, options out of range, unstable order | timeouts cover 95 percent of the traffic within the caller's limits |
| Upstream tuning (same file, `TuneUpstreamTimeout`) | an upstream at the gateway | get, change, put of a whole object | no version: edits and other tunes in between, puts that arrive late | reports are true; a tune nobody raced with changes the timeout only |
| Audit store (`infrastructure/auditstore`) | memory slice or SQL table | `Append`, `List`, `Close` | outage, close under running calls, context of the caller, INSERTs that overtake each other | an answered call is recorded, and listed to whoever asks later |
| Process life (`bootstrap/app.go`, `src/cmd/lumen-mcp-server/main.go`) | listener, audit store | `Run`, `Shutdown` of 5 s, `cleanup`, `RunStdio` | drain against gateway calls of 15 s, listener failure, kill | the store outlives the calls for the whole drain; a shutdown completes |
| OAuth login (`infrastructure/oauthlogin`) | callback server, channel of one result | `Login`, callback handler, `registerClient`, `exchangeCode` | any number of callbacks against a channel that is read once, cancellation, shutdown of 2 s | only a code with this login's state is exchanged, the first result decides, the login ends |
| HTTP stack (`interfaces/http/middleware`, `routes`), metrics and logging (`platform`) | atomic counters, trace id in the context, access log | `CORS`, `RequestID`, `Recovery`, `AccessLog`, `Metrics`, `ListAudit`, `/debug/vars` | counters added to and read one by one, panics, write deadlines shorter than a call | counters match the access log, every ended request can be traced |
| Configuration (`config`) | read once | `Load`: `ApplyDefaults`, `Validate` | what is checked after which default | no accepted file leaves a door open |
| MCP schemas and catalog (`interfaces/mcp/schemas.go`, `bootstrap/app.go:60`) | none | `inputSchemaFor`, the catalog | written apart from the parser of the arguments | the schema decides which arguments make a request |
| Session service (`application/session`) | none | a stub nothing calls | | |

Interaction. `bootstrap.New` wires one verifier, one authorization service, one
gateway client and one audit store into the use case `invoke.Service`. The admin
handler and the MCP handler both end in `invoke.Service.InvokeTool`, which calls
verifier, authorization, gateway and audit store in that order, in the goroutine
of the request and with its context. The admin endpoints call verifier and a
scope check of their own. Shared state between goroutines: the JWKS cache, the
memory store, the gateway behind HTTP, and the callback channel of the login.

The hazards that follow from this, each at its line, are in `PROJECT.json`
under "hazards", with the properties that would catch it going wrong.

## 2. Modules

| module | models | built from |
|---|---|---|
| `Jwt` | the data of verification: documents, tokens, decoding, key selection, the order of the checks | |
| `TokenVerifier` | abstract: what `ports.TokenVerifier` promises, without a cache | `Jwt` |
| `JwksCache` | `verifier.go` with concurrent calls, rotation and time | `Jwt`, instance of `TokenVerifier` |
| `JwksCacheProofs` | proofs about it, refinement included | `JwksCache` |
| `Authorize` | both scope checks, pure | |
| `ServerConfig` | `Load` and the policy made of the file, pure | |
| `GatewayRequests` | from tools and arguments to requests, the schemas and the catalog, pure | |
| `Entitlement` | a caller put together step by step, through configuration, scopes and arguments to requests | `Authorize`, `ServerConfig`, `GatewayRequests` |
| `EntitlementProofs` | proofs about it and about the operators of `Authorize` | `Entitlement` |
| `ToolInvocation` | handlers, use case, gateway exchange, append, life of the process | `Authorize` |
| `ToolInvocationProofs` | proofs about it | `ToolInvocation` |
| `Serving` | the server put together: tool calls over the cached verifier | instances of `ToolInvocation` and `JwksCache` |
| `ServingProofs` | proofs about it, from those of its two parts | `Serving`, instances of `JwksCacheProofs` and `ToolInvocationProofs` |
| `AuditStore` | the pages of both kinds of store, and the limit of the handler, pure | |
| `HttpStack` | concurrent requests through the middleware chain, the counters, the access log and the audit log | `AuditStore` |
| `HttpStackProofs` | proofs about it | `HttpStack` |
| `LatencyAnalysis` | from histograms to timeouts and target, pure | |
| `LatencyTraffic` | the gateway's histograms as traffic fills them, and what is answered after each batch | `LatencyAnalysis` |
| `LatencyAnalysisProofs` | proofs about both | `LatencyTraffic` |
| `UpstreamTuning` | `TuneUpstreamTimeout` as concurrent read-modify-write | instances of it take findings from `LatencyAnalysis` |
| `UpstreamTuningProofs` | proofs about it | `UpstreamTuning` |
| `OauthLogin` | `RunStdio`, login, callbacks | |
| `OauthLoginProofs` | proofs about it | `OauthLogin` |
| `MC*` | the instances TLC checks | one each |

### JwksCache

`pc[w]` is where goroutine `w` is in `VerifyBearer`; `keys`, `body`, `token`
are its locals; `cachedOctHS` and `cacheAge` the cache. Actions: `VerifyBearer`
(form of the token), `ReadCache` (the read-locked section), `ServeJWKS`,
`FetchFails` (every error return of the fetch, a cancelled request included),
`DecodeJWKS`, `InstallKeys` (the write-locked section), `CheckToken` (select a
secret, signature, issuer, audience, expiry). A token without kid gets whichever
key the Go map yields: `SelectSecrets` is a set. Signing is abstracted to the
secret a token was signed with.

Time is kept as ages, capped where more makes no difference, so behaviours of
any length stay finite. One tick is a second; `Tick` never falls between steps
that only compute (decoded keys to install, keys to verdict), which take
microseconds. Without that rule a verdict could be older by the length of a
pause of the process, which no bound in the code limits.

### ToolInvocation

A call goes `new`, `verify`, `invoke`, `sent`, `append`, `answer`, `done`, or
`dead` with the process. The verifier appears as `TokenVerifier` promises it: a
genuine token may be accepted, any token may be refused. `Cancel` ends the
request context at any moment: a cancelled request is not sent, a SQL append
with it fails, a memory append does not. The gateway keeps what it received in
`inflight` and may carry it out after the client gave up. `Outage` and
`Recovery` are the database; `Signal`, `ServeError`, `ShutdownReturns`,
`CloseAudit`, `Exit` and `Kill` the life of the process, with the 5 s of the
drain as ticks.

Most tools are one exchange with the gateway; `tune_upstream_timeout` takes up to
three, each after the reply to the one before. `sent` and `applied` count the requests
of a call. A reply (`GatewayReplies`) leads to the next request or to the end: after
the last, or after the first when a tune finds nothing to tune. Between two
requests a tune may also give up (`InvokeFails`). What the requests read and put is
`UpstreamTuning`'s matter. The options of a latency tool are numbers, or texts that parse
to one: "NaN" and "Inf" do. They are part of the result, and JSON cannot write them
(`Writable`). Then the MCP handler answers an error (`interfaces/mcp/server.go:82`)
and the admin handler an empty 200 (`handlers.go:112`, which drops the encoder's
error), although "allow" is on record: `ResultsOf` says what may be on record of
each answer.

Two simplifications concern code outside the repository: the MCP library is
taken to pass the context of the HTTP request to the tool handler and to keep
the request open while the handler runs. Events keep the fields the properties tell apart: the time and the message are
left out, and the trace id is a matter of `HttpStack`.

### Serving

`ToolInvocation` models a call against a promise: a genuine token may be accepted, any
token may be refused. `Serving` drops the promise and runs `JwksCache` in its place,
with the calls as its workers: `BeginVerify` hands the bearer to `VerifyBearer`,
`VerifierStep` and `FetchEnds` are the steps of the cache, `Verified` reads its
outcome and goes on with the claims of the token, whatever they are worth (a forger
states what he likes). What a call does before and after is `ToolInvocation`'s own
actions, and nothing happens after the process has ended. Time passes while a call
fetches keys and while it waits for the gateway, each wait bounded by the timeout of
its client (`FetchTimeout`, `GatewayTimeout`; `exchangeAge` is how long a wait has
lasted), and never while a call only computes. So the second and third request of a
tune are sent on a verdict that may be older than the window of the cache, by the
exchanges in between; `servedAge` is history, `lastServed` with a cap that covers a
whole call. `ImplementsToolInvocation` is the refinement: `Claims` of the abstract
module are the claims of the bearers that some published document makes valid
(`Genuine`: a constant, as it depends on constants only, whose value
`ServingAssumption` fixes), everything else is mapped by name.

### Entitlement, ServerConfig and GatewayRequests

Three pure modules and one with a state. The state of `Entitlement` is a file
the server was started with, the scopes of a caller, the tool and the arguments
it has named so far; `Grant`, `Call` and `Give` add to it, so TLC visits every
combination within the bounds. A tool is the pair of words its name is made of,
an argument a JSON value of one of the types, a number in tenths so that the
conversion to int is seen to cut. A text stands for itself without the blanks
around it. An issuer or audience of blanks only passes `Validate` and is then compared
by nobody (`verifier.go:118`); in `Jwt` it is `Unset`. `BuildRequest` is the switch of `buildRequest`; `InvokeTool` is the set of
requests a call may send, three for a tune. `InputSchemaFor` and `Catalog` are the
data that callers are shown, `Conforms` what the MCP library checks.

### HttpStack and AuditStore

`pc[s]` is where the goroutine of a request is: in its `handler`, in `commit` of an
INSERT, in `panic`, then through `count`, `errors` and `log`, the epilogues of
`Metrics` and `AccessLog`, to `flush` and `done`. A tool call is one step that
ends with a result and an event. With Postgres, the id of the row is drawn
(`AppendEvent`) before the row is visible (`Commit`). `LoadCounter` is one atomic
load of a scrape, in the order of the names of the variables. A `WriteTimeout`
under a call makes its answer be cut off and changes nothing else. A limit
that no allocation can serve panics in the SQL stores; `Recovery` answers 500, and
`AccessLog` and `Metrics`, which are inside of it, see nothing. `acknowledged` is
history: which events had been answered for when a request came. `logLevel` is
`logging.level`, any string: `Validate` takes them all, `parseLevel` makes info of what
it does not know, and under warn or error the lines of the access log, which are
written at info, are dropped.

### LatencyAnalysis, LatencyTraffic and UpstreamTuning

`LatencyAnalysis` works on whole milliseconds, integer safety factors and
percents; the text of the scrape, the means and the p99 (which nothing but the
answer uses) are left out. What is computed in float64 has no bound, what is converted
to int has: `ToInt` is the conversion, which the code never checks, and what it makes of a
number out of range is the platform's choice (`AboveRange`, `BelowRange`; on amd64 the
least int for both, on arm64 the nearest). Its sort is not stable and starts from a map, so
`TuningTargets` is the set of all series with the highest p95.

`LatencyTraffic` puts the traffic under it. A stream is what the gateway's labels tell
apart: a key (route, upstream, service) and a class; several streams of one key are
added up. `load[p][s][b]` is the cumulative count of stream `s` in phase `p`, total or
connect, up to the bound `b`. `Observe` counts one batch, in the phase connect only
if it opened connections, and analyses what a scrape would now show (`Analyze`) under
every set of options. The properties count requests (`Within`) and never look into a
histogram, so they check parse, merge, quantile and recommendation together.

`UpstreamTuning` reads an upstream (`GetUpstream`), puts it back whole (`SendPut`), and learns
the outcome (`PutReplied`, `GatewayRefuses`, `RequestFails`); the gateway may
carry a put out late (`GatewayPuts`), operators edit meanwhile (`Edit`). An
upstream is its timeout and "the rest"; versions are history variables, the
code has none. The findings in `MCUpstreamTuning` are computed by
`LatencyAnalysis` from four scrapes.

### OauthLogin

`pc` is where `RunStdio` and `Login` are, `handler[v]` the handler goroutine of
each callback, `codeCh` the buffered channel. A callback brings any combination
of error, state and code. Anybody on the machine may send one while the server
accepts, also during the exchange. The deferred `Shutdown` waits for the
handlers until its 2 s are over.

## 3. Runs

| run | instance | shows |
|---|---|---|
| `jwks_cache` | 2 calls, 3 documents, 5 tokens, interval 2, timeout 1, with fairness | however fetches, installs and rotations interleave, the cache is one recent document (`CacheIsRecentDocument`); a withdrawn key dies after interval + timeout (`WithdrawnKeysExpire`); a key that did not change is never refused (`SettledKeysAreAccepted`); the cache implements `TokenVerifier`, with its liveness: every verification returns; a settled rotation governs all later verdicts (`RotationTakesEffect`) |
| `entitlement` | 30 configurations, subsets of 5 scopes, all tools, up to 2 of 7 arguments with 21 values | decisions equal a reference (`MatchesReference`), the two checks agree but for aliases and `admin:*` (`EndpointsAgree`), under no accepted file does a token without scopes pass either check (`NoConfigIsOpen`), readers send GETs only and a tune writes only when asked to (`ReadersOnlyRead`), a change names its target and no two tools are one request (`RequestsNameTheirTarget`), the schema decides (`SchemaDecides`) |
| `authorize_admin` | the same | violation: `admin:*` alone fails the required scopes |
| `invocation` | 2 calls: tunes of 2 requests whose results cannot be written, a reader, a body that does not decode; SQL store, operator token as static bearer, with fairness | entitlement, truthful log and answers also between two requests of one call, one event per call that agrees with the answer (`OneTrueEventPerCall`), attribution, recording, drain before close; every call returns, a shutdown completes |
| `invocation_recorded` | 2 calls | violation: an applied, answered call may be missing from the log although the store is fine |
| `serving` | 2 calls, memory store, 2 documents (the operator's key is dropped), an operator who tunes in two exchanges, a forger, interval 1, gateway timeout 1 | the server with its cache implements `ToolInvocation`; what is sent, a tune's later requests included, rests on a key that was served within an interval, a fetch and the exchanges before (`WithdrawnKeysReachNothing`); a settled caller is turned away only for an expired token or a failed fetch (`SettledCallersAreServed`) |
| `admin_http` | 3 requests of 6 kinds, Postgres, 2 log levels | no scrape shows more errors than requests (`ScrapesAreConsistent`), the counters are the access log added up where the level lets it be written (`CountersMatchAccessLog`), an event answered for is listed (`AcknowledgedEventsAreListed`), a request that ended is found by its trace id, in the access log or, at any level, in the audit log (`EndedRequestsAreTraceable`) |
| `latency` | 3 streams of 2 keys, 2 bounds, batches of 1 or 20 requests, at most 3 batches, 6 sets of options, an int that ends at 1000 | the p95 is the tightest bound 95 percent of the requests stayed within (`QuantileIsTightest`), timeouts stay within the limits, and cover requests and connects where the seconds fit an int (`TimeoutsCoverTraffic`), nothing slower than what is tuned is passed over (`SlowestIsTuned`), slow traffic never shortens a timeout |
| `latency_quantile` | the same, default options | violation: the quantile option changes nothing |
| `tuning` | 2 tunes, 2 upstreams, 2 edits | reports are true also for late puts, a written timeout stands until the next write, an undisturbed tune keeps the rest |
| `tuning_lost_update` | the same, 1 edit | violation: an edit between get and put is reverted |
| `oauth_login` | 3 callbacks, with fairness | only an own code is exchanged, the first result decides, the login ends although a handler hangs, the first browser is answered |

Why the bounds are enough. Two calls are what races on the cache, the log and an
upstream need; each call is one more copy of the same code, and the proofs hold for
any number. An interval of 2 and a timeout of 1 make every order of expiry, fetch and
install happen; the proofs hold for every interval and timeout. Three documents cover
a replaced key, a dropped one, an entry without kid, an unusable entry and an empty
set. A drain limit of 1 separates a drain that completes from one that runs out;
nothing in the code counts further. Two exchanges are a first request and a later one;
the proofs allow the third, and the admin handler's empty answer, which no call of
`invocation` gets. Batches of 1 and 20 tell a share of 5 percent from more,
`MaxBatches` = 3 lets three streams differ and one grow beyond both bounds. `MaxInt` =
1000 with the least int for all that does not fit stands for 2^63-1 on amd64: a safety
factor of 1000 fits for traffic within 200 ms and no longer for 1500 ms, where one
second is answered. The two log levels are one that drops the access log and one that
`parseLevel` does not know. `MaxEdits` = 2 puts an edit before and after a put. Three
callbacks are one more than the channel (1) and the reader (1) take.

`serving` has a fetch timeout of 0: a fetch and the rotations around it interleave
freely, but no tick falls into one; ticks fall into the exchanges with the gateway.
Its tokens do not expire. Longer fetches and expiry are `jwks_cache`'s matter, whose
bounds the proofs lift. It runs the memory store, the one without outages; the proofs
of `ToolInvocationProofs` hold for both. Two arguments are what any tool reads to
decide whether it sends a request; the values of each key are of the type the schema
names, of another type, empty, null, and for numbers negative, broken and in a text.
Three requests in `admin_http` are a writer, a second writer that overtakes it, and a
reader; a page of one event is full or not, and one reader asks for more than any
allocation serves.

Deadlock is not checked: in every model the environment may stop (calls have all
come, the process has ended), and that things which must go on do is what the
liveness properties say.

### Fairness

* `JwksCache.FairSpec`: each goroutine's own steps are weakly fair (the Go
  scheduler); the timeout of the HTTP client ends a fetch (`TimeoutFires`); time
  passes (`SF` of `Tick`, and `[]<>` that no call is in its computing steps, as
  requests do not follow each other so closely that one computes at every
  instant). Nothing is assumed of the JWKS endpoint, rotations or callers.
* `ToolInvocation.FairSpec`: each call's steps, the gateway client's timeout
  being one of them (`CallFails`) and the answers of the gateway not; the clock
  and the steps of the shutdown. That a verification ends is what `jwks_cache`
  shows. Gateway, database, callers and signals owe nothing. A call begins once,
  so that all return is that at some time none is under way any more (`CallsReturn`).
* `TokenVerifier.Spec`, the abstract one: every verification that has begun is
  answered; `ImplementsFairTokenVerifier` derives it from the fairness of the cache.
* `OauthLogin.FairSpec`: the steps of `Login` with the timeout of the exchange
  and the clock of the shutdown, and those of each handler. Nobody need visit
  or cancel: `LoginEnds` is promised only once somebody does.

## 4. Proofs

The specifications are parameterised by sets of calls, documents, tokens,
policies, callbacks and bounds, with named assumptions on them
(`TimeAssumption`, `TokensAssumption`, `RequestsAssumption`,
`BackendAssumption`, `FindingsAssumption`, `LoginAssumption`,
`EntitlementAssumption`, `UpstreamsAssumption`, `DefaultLimitAssumption`,
`QueriesAssumption`, `RefusalsAssumption`, `TrafficAssumption`, `IntAssumption`,
`ServingAssumption`); the proofs use nothing else.

* `JwksCacheProofs`. The invariant `IInv` joins the types, that the published
  document has just been served, `CacheIsRecentDocument` and
  `HeldKeysAreRecent`. Neither of the last two is inductive alone: an install
  makes the cache as recent as the keys held at that moment, and keys copied
  from a fresh cache are as recent as the cache. The window of the verdict is
  then interval + timeout: `WithdrawnKeys`, `SettledKeys`, and `Refinement`,
  where `Answer` of `TokenVerifier` is simulated by every step that ends a call
  (`AnswerRefines`) and all other steps stutter or are `Begin`, `Rotate`, `Tick`.
* `ToolInvocationProofs`. The properties speak of the log and the answers, which
  are written last; `IInv` carries what is known from step to step: a call that
  is about to invoke is entitled, the event of a call that concluded is true
  (`TrueEvent`), a log entry is the event of a call past its append
  (`EntryInv`), and an append can only have failed for a reason that stays
  visible (`RecordInv`). "Deny" needs that nothing reached the gateway and never
  will, "allow" that every request of the call was carried out; hence the conjunct on
  where a call known to the gateway can stand and how its counts compare
  (`GatewayInv`). From it: `Entitlement`, `TruthfulLog`, `TruthfulAnswers`,
  `FaithfulRecords`, `Attribution`, `Recording`, `DrainFirst`.
* `UpstreamTuningProofs`. `Progress` says where a call stands relative to its
  put, `Copies` that a copy whose version is still current has the upstream's
  rest and that a write which is still the last one left its timeout. From it:
  `TruthfulReports`, `TimeoutsStand`, `UndisturbedTune`.
* `OauthLoginProofs`. `Brought` says that a callback with a handler has a query,
  `Order` that the channel holds the first result until `Login` receives it and
  that nothing but the first is ever received, `Decision` how much `Login` knows
  at each of its steps. From it: `OwnCode`, `FirstDecides`, for any number of
  callbacks.
* `EntitlementProofs` begins without a state, with the two checks: for every set of
  scopes, tool and policy the decision depends on the implied scopes (`DecisionIsOnImpliedScopes`), more
  scopes are never refused more (`MoreScopesGrantMore`), a blank in the tool map
  only denies (`PaddingOnlyDenies`), and the two checks differ by aliases and
  `admin:*` alone (`DoorsAgree`).
  It carries them over to callers of an accepted configuration
  (`DecisionMatches`, `EndpointsDecideAlike`); its invariant says only that a
  tool is called under a file that `Load` accepted, which is where the required
  scopes come from: not empty and none of them blank (`LoadedScopes`), hence
  `ConfigsAreClosed`. `ReadersSendGets` follows the requests: without a scope for
  writing only what is offered for reading is allowed (`ReadersReachReads`),
  every group of tools offered for reading is sent as GETs (`OfferedReadsGet`), and
  a tune that sends a PUT was told `dry_run` is false (`TuneWritesOnRequest`).
  `TargetsNamed` and `SchemasDecide` go by groups of tools (export, history, rollback,
  and those of one resource): within a group two tools differ in method, resource or
  kind, and groups differ in the path (`...Apart`); a resource an argument names is
  one the request carries (`...Request`). That a schema decides needs, for each group,
  that conforming arguments are sent, that one missing is refused, and that arguments
  it does not declare are never read, for any values and any number of them.
* `HttpStackProofs`. A scrape loads the errors first, so the invariant need only
  say that the errors never exceed the requests less those that have still to
  count their error, and that what a scrape has loaded is no more than what is
  there now: `ScrapesConsistent`. `CountersAddUp` counts (`Ledger`): the requests are the
  lines of the access log and the requests between `count` and their line,
  as cardinalities of finite sets; that holds under a level that lets info through, and
  under any other the log is empty (`Books`). `Traceable` follows a request to its line.
  `PagesAgree`: for every log and every limit the handler can ask for, the page of
  a SQL store is the memory store's turned round. `AcknowledgedEvents` rests on the
  invariant `Listing`: what was acknowledged when a request came is among the visible
  rows, and a page that was read has each such row or is full of newer ones. It needs
  what the memory store and the SQL stores have in common, that a page of a set of
  rows is its newest ones.
* `ServingProofs` puts the proofs of the parts together. `JwksCacheProofs` is used
  as an instance, under the assumptions on time and tokens that
  `ServingAssumption` implies: every step of the server is a step of the cache, a
  stutter of it, or takes a verdict out of the hands of a call. Above it
  `TokenInv` says that the goroutine of a call verifies the call's own token,
  `VerdictInv` that a verdict that has not been read rests on a document of the window,
  and `TimeInv` what is left of the time of that document while the call talks to
  the gateway (`HeldInv`): a call that has sent n requests and is about to send another
  is borne by a document younger than interval + fetch + n exchanges, and while it waits
  what it has waited so far counts against the exchange (`Borne`). A tick ages both
  by one, so it needs that the wait is bounded (`MayWait`); `AgesInv` ties the two
  ages of a document together as far as the cache looks back.
  From it: `WithdrawnKeysAreOut`, `SettledCallers` and, as a verdict "ok" makes the
  token genuine (`JudgedIsGenuine`), `CachedVerifierServesCalls`.
  `ServerKeepsItsWord` then carries entitlement, log and answers over from
  `ToolInvocationProofs`.
* `LatencyAnalysisProofs`. The invariant `Traced` is that what is answered is the
  analysis of what was counted; all the work is in the operators. A series adds up
  histograms, a fold over a set of records, where the properties sum over streams.
  The library states no induction that the provers can use here, so the facts of the
  fold (`SumUnfolds`, `SumRemove`, `SumBijection`, `SumMonotonic`) are proved by
  least number: were there a set on which one fails, there would be one of least
  size (`LeastNumber`), and taking an element out of it leaves a smaller. Then
  `SeriesIsTraffic` makes the series of a key its traffic in each phase,
  `QuantileTight` says what a quantile is, `RecommendedCover` and
  `RecommendedMonotonic` what the timeouts are. Both are about any conversion to int:
  a timeout is within its limits for all options (`SecondsBounded`), and covers minimum and
  traffic for those whose seconds fit an int (`SecondsThatFit`). That condition is stated
  of the options and the bounds alone (`Converts`) and holds then of any traffic
  (`TrafficFits`). From them, for any streams, bounds,
  options and traffic: `QuantileHolds`, `TimeoutsHold`, `SlowestHolds`,
  `SlowTrafficHolds`. `TrafficAssumption` asks that streams are finitely many and differ in
  their labels, that bounds lie below the one that stands for infinity, and that options
  have the types the argument parser gives them; `IntAssumption`, that a conversion yields
  some int.

Every invariant and action property of the passing runs is thus proved for all
values of the constants, and both refinements for their safety. Only model-checked:
liveness, which rests on fairness and `ENABLED` and is out of the prover's reach
(`ImplementsFairTokenVerifier`, `RotationTakesEffect`, `CallsReturn`,
`ShutdownCompletes`, `LoginEnds`, `FirstVisitIsAnswered`). The violations of section
5 are counterexamples TLC finds.

## 5. Where the program differs from what is written about it

1. `application/authorize/service.go:20`: `admin:*` does not match required
   scopes, `src/README.md:219` says it matches all (`authorize_admin`).
2. `application/invoke/service.go:32`: the append uses the caller's context and
   its error is dropped; `src/README.md:16` says every call is recorded
   (`invocation_recorded`).
3. `gatewayclient/latency_tools.go:399`: the quantile option is never used;
   `interfaces/mcp/schemas.go:87` says it is used for recommendations
   (`latency_quantile`).
4. `gatewayclient/latency_tools.go:204`: the whole upstream is put back, so a
   concurrent edit is lost; `src/README.md:269` speaks of the timeout only
   (`tuning_lost_update`).

Seen while modelling and stated by no run: MCP calls are recorded without a
trace id (`interfaces/mcp/server.go:77`, against `src/README.md:16`);
`ResourceKind` and `ResourceID` of an event are never filled; a cancelled login
panics because `main.go:27` compares a wrapped error with `!=`; the exchange accepts
an answer without `access_token`; `configs/stdio.config.yaml:21` names an
environment variable that `Load` does not expand; `src/README.md:353` puts the
counters at `/metrics`, the router at `/debug/vars`; `IncToolInvoke` and
`IncToolDeny` are never called; the stdout backend prints nothing;
`src/README.md` counts 22 tools where the catalog has 23; `statusRecorder`
(`access_log.go:10`) hides `http.Flusher` from the MCP handler; a limit beyond the
range of an int is converted from float64 unchecked (`http_client.go:322`), and so are the
seconds of a timeout (`latency_tools.go:411`), where a huge or infinite safety factor can
leave one second; a result with an option that is not finite cannot be written, so a
tune that has put its timeout is answered with an error (`interfaces/mcp/server.go:82`)
or an empty 200 (`handlers.go:112`); `logging.level` warn or error silences the access
log (`access_log.go:26`); `src/README.md:249` aggregates by route and upstream, the key
in the code has the service as well (`latency_tools.go:15`); an issuer or audience of
blanks passes `config.go:111` and is not compared (`verifier.go:118`).

## 6. Not modelled, and why

HTTP and JSON rendering, base64 and HMAC (abstracted to shape and signing
secret), the text of log lines and of URLs, the text format of the metrics, PKCE,
CORS headers, YAML: formatting that no property is about. The protocol of the MCP
library and of its stdio transport is outside the repository; it appears as the
context it passes, the schemas it checks and the answers of status 200. Static
documents (`/healthz`, the resource metadata) change nothing and are requests like
any other to the chain. An upstream that is read and put back goes through
`map[string]any`, whose numbers are float64: the round trip is modelled as the identity,
so an integer above 2^53 in the rest of an upstream, which would lose digits, is not
seen. Integers in the arguments of other tools and in the limit of a page are taken to
fit an int; of the options of the latency tools a NaN is not told apart from a number
out of range. `application/session`
is a stub nothing calls.

## 7. Plan

The order is by what a wrong behaviour would cost.

| step | modules | state |
|---|---|---|
| 1 | `Jwt`, `TokenVerifier`, `JwksCache`, proofs and refinement | done |
| 2 | `Authorize`, `ToolInvocation`, proofs of all its invariants | done |
| 3 | `LatencyAnalysis`, `UpstreamTuning`, proofs | done |
| 4 | `OauthLogin`, proofs; theorems on the checks of `Authorize` | done |
| 5 | `AuditStore`, `HttpStack`, proofs | done |
| 6 | `Serving`: `JwksCache` under `ToolInvocation` in place of the promise, the refinement, and its proof from those of the parts | done |
| 7 | `GatewayRequests`, `ServerConfig`, `Entitlement`, proofs | done |
| 8 | `ToolInvocation`, `Serving`: calls with several gateway requests, results that cannot be written, proofs | done |
| 9 | `LatencyTraffic`: the analysis against the traffic, proofs | done |
| 10 | `ToolInvocation`: MCP calls that outlive their HTTP request | planned |
