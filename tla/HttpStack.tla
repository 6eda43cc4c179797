----------------------------- MODULE HttpStack -----------------------------
(***************************************************************************)
(* The HTTP side of the process: concurrent requests through the middleware    *)
(* chain of interfaces/http/routes/router.go (CORS, RequestID, Recovery,         *)
(* AccessLog, Metrics), the counters of platform/observability and the audit       *)
(* log, which other requests read while they are written.                        *)
(*                                                                           *)
(* What a tool call does inside the use case is ToolInvocation's; here it          *)
(* ends with a result, an event and a status.  The three counters are separate     *)
(* atomics, a scrape loads them one after the other, and the INSERT of a            *)
(* Postgres store draws its id before it becomes visible.                        *)
(***************************************************************************)
EXTENDS AuditStore, FiniteSets

CONSTANTS
  Slots,      \* the requests being served, each in its own goroutine
  Queries,    \* what a request may ask, see QueriesAssumption
  Backend,    \* audit.backend
  Absurd,     \* a limit that no allocation can serve
  Refusals,   \* statuses of requests that are refused before they do anything
  Results,    \* statuses of tool calls
  LogLevels,  \* what logging.level may say: Validate takes any string
  NoQuery, NoTrace

ASSUME QueriesAssumption ==
  /\ \A q \in Queries : /\ q.route \in {"preflight", "invoke", "mcp", "audit", "vars"}
                         /\ q.limit \in Int
  /\ Absurd \in Int
  /\ NoQuery \notin Queries
  /\ Backend \in {"stdout", "sqlite", "postgres"}
  /\ IsFiniteSet(Slots)
  /\ Refusals \union Results \subseteq Int

\* writeError is never given a status that is not an error's.
ASSUME RefusalsAssumption == \A code \in Refusals : code >= 400

VARIABLES
  pc,            \* where the goroutine of each request is
  query,         \* [route, trace, limit], trace NoTrace without X-Request-Id
  trace,         \* the trace id in its context
  status,        \* what its statusRecorder holds
  late,          \* the requests whose WriteTimeout passed before they ended
  answer,        \* what became of its answer: "none" yet, "sent" or "cut" off
  httpRequests, httpErrors,
  seen,          \* what a scrape has loaded so far
  accessLog,     \* its lines [trace, status, of], in whatever order
  logLevel,      \* logging.level, which is read once
  rows,          \* events [trace, status, of] by their id
  committed,     \* the ids that are visible
  page,          \* the ids a ListAudit returned
  acknowledged   \* history: the ids whose requests had been answered before

counters == <<httpRequests, httpErrors, seen>>
logs     == <<accessLog, logLevel>>
audit    == <<rows, committed, page, acknowledged>>
vars == <<pc, query, trace, status, late, answer, httpRequests, httpErrors, seen,
          accessLog, logLevel, rows, committed, page, acknowledged>>

Init ==
  /\ pc = [s \in Slots |-> "new"]
  /\ query = [s \in Slots |-> NoQuery]
  /\ trace = [s \in Slots |-> NoTrace]
  /\ status = [s \in Slots |-> 200]
  /\ late = {}
  /\ answer = [s \in Slots |-> "none"]
  /\ httpRequests = 0 /\ httpErrors = 0
  /\ seen = [s \in Slots |-> <<>>]
  /\ accessLog = {} /\ logLevel \in LogLevels
  /\ rows = <<>> /\ committed = {}
  /\ page = [s \in Slots |-> <<>>]
  /\ acknowledged = [s \in Slots |-> {}]

Goto(s, label) == pc' = [pc EXCEPT ![s] = label]

\* The handler is done: Metrics comes next.
Handled(s, code) == Goto(s, "count") /\ status' = [status EXCEPT ![s] = code]

-----------------------------------------------------------------------------
\* Mutant of TraceOf: an id that was given is not put into the context.
FreshTraceOf(s, q) == IF q.trace = NoTrace THEN <<"random", s>> ELSE NoTrace

\* RequestID: the id of the caller, or a random one.
TraceOf(s, q) == IF q.trace = NoTrace THEN <<"random", s>> ELSE q.trace

\* CORS answers a preflight itself; anything else goes down the chain.
Arrive(s, q) ==
  /\ pc[s] = "new"
  /\ query' = [query EXCEPT ![s] = q]
  /\ IF q.route = "preflight"
     THEN /\ Goto(s, "done")
          /\ status' = [status EXCEPT ![s] = 204]
          /\ answer' = [answer EXCEPT ![s] = "sent"]
          /\ UNCHANGED <<trace, acknowledged>>
     ELSE /\ Goto(s, "handler")
          /\ trace' = [trace EXCEPT ![s] = TraceOf(s, q)]
          /\ acknowledged' = [acknowledged EXCEPT ![s] =
               {id \in committed : pc[rows[id].of] = "done"}]
          /\ UNCHANGED <<status, answer>>
  /\ UNCHANGED <<late, counters, logs, rows, committed, page>>

\* The write deadline of the connection passes under a call that waits for the
\* gateway, whose timeout is longer.
WriteTimeout(s) ==
  /\ pc[s] = "handler" /\ query[s].route \in {"invoke", "mcp"} /\ s \notin late
  /\ late' = late \union {s}
  /\ UNCHANGED <<pc, query, trace, status, answer, counters, logs, audit>>

\* Any handler may refuse before it has done anything.
Refuse(s, code) ==
  /\ pc[s] = "handler" /\ query[s].route # "vars"
  /\ Handled(s, code)
  /\ UNCHANGED <<query, trace, late, answer, counters, logs, audit>>

\* A tool call ends with an event, which carries a trace id if it came by the
\* admin endpoint; the MCP handler answers 200 whatever the result.
AppendEvent(s, code) ==
  /\ pc[s] = "handler" /\ query[s].route \in {"invoke", "mcp"}
  /\ rows' = Append(rows, [trace  |-> IF query[s].route = "mcp" THEN NoTrace ELSE trace[s],
                           status |-> code, of |-> s])
  /\ status' = [status EXCEPT ![s] = IF query[s].route = "mcp" THEN 200 ELSE code]
  /\ IF Backend = "postgres"
     THEN Goto(s, "commit") /\ UNCHANGED committed
     ELSE Goto(s, "count") /\ committed' = committed \union {Len(rows) + 1}
  /\ UNCHANGED <<query, trace, late, answer, counters, logs, page, acknowledged>>

\* The row of the event becomes visible, or its INSERT fails and the error is
\* dropped.
Commit(s) ==
  /\ pc[s] = "commit"
  /\ Goto(s, "count")
  /\ \/ committed' = committed \union {id \in DOMAIN rows : rows[id].of = s}
     \/ UNCHANGED committed
  /\ UNCHANGED <<query, trace, status, late, answer, counters, logs, rows, page,
                 acknowledged>>

\* The committed rows, in the order of their ids.
Visible ==
  CHOOSE list \in [1..Cardinality(committed) -> committed] :
    \A i, j \in DOMAIN list : i < j => list[i] < list[j]

\* ListAudit; a SQL store makes room for as many events as were asked for.
ListAudit(s) ==
  /\ pc[s] = "handler" /\ query[s].route = "audit"
  /\ LET limit == PageLimit(query[s].limit)
     IN  IF Backend = "stdout"
         THEN page' = [page EXCEPT ![s] = MemoryList(Visible, limit)] /\ Handled(s, 200)
         ELSE IF limit < Absurd
         THEN page' = [page EXCEPT ![s] = SqlList(Visible, limit)] /\ Handled(s, 200)
         ELSE Goto(s, "panic") /\ UNCHANGED <<page, status>>
  /\ UNCHANGED <<query, trace, late, answer, counters, logs, rows, committed,
                 acknowledged>>

\* Recovery answers 500; AccessLog and Metrics are inside it and see nothing.
Recover(s) ==
  /\ pc[s] = "panic"
  /\ status' = [status EXCEPT ![s] = 500]
  /\ Goto(s, "flush")
  /\ UNCHANGED <<query, trace, late, answer, counters, logs, audit>>

\* Mutant of ReadOrder: the total comes first.
TotalFirst == <<"requests", "errors">>

\* expvar walks its variables in the order of their names.
ReadOrder == <<"errors", "requests">>

LoadCounter(s) ==
  /\ pc[s] = "handler" /\ query[s].route = "vars"
  /\ seen' = [seen EXCEPT ![s] =
       Append(@, IF ReadOrder[Len(@) + 1] = "errors" THEN httpErrors ELSE httpRequests)]
  /\ IF Len(seen[s]) = 1 THEN Handled(s, 200) ELSE UNCHANGED <<pc, status>>
  /\ UNCHANGED <<query, trace, late, answer, httpRequests, httpErrors, logs, audit>>

-----------------------------------------------------------------------------
\* Mutant of IsError: off by one.
IsAboveError(code) == code > 400

IsError(code) == code >= 400

\* ObserveHTTP: the total first, the errors after it.
CountRequest(s) ==
  /\ pc[s] = "count"
  /\ httpRequests' = httpRequests + 1
  /\ Goto(s, IF IsError(status[s]) THEN "errors" ELSE "log")
  /\ UNCHANGED <<query, trace, status, late, answer, httpErrors, seen, logs, audit>>

CountError(s) ==
  /\ pc[s] = "errors"
  /\ httpErrors' = httpErrors + 1
  /\ Goto(s, "log")
  /\ UNCHANGED <<query, trace, status, late, answer, httpRequests, seen, logs, audit>>

\* parseLevel: what it does not know is info.
ParseLevel(raw) == IF raw \in {"debug", "warn", "error"} THEN raw ELSE "info"

InfoEnabled == ParseLevel(logLevel) \in {"debug", "info"}

LineOf(s) == [trace |-> trace[s], status |-> status[s], of |-> s]

\* AccessLog speaks at level info, which a logger set to warn or error drops.
LogAccess(s) ==
  /\ pc[s] = "log"
  /\ accessLog' = IF InfoEnabled THEN accessLog \union {LineOf(s)} ELSE accessLog
  /\ Goto(s, "flush")
  /\ UNCHANGED <<query, trace, status, late, answer, counters, logLevel, audit>>

\* net/http sends what was written when the chain returns; past the write
\* deadline the connection is closed instead.
Flush(s) ==
  /\ pc[s] = "flush"
  /\ answer' = [answer EXCEPT ![s] = IF s \in late THEN "cut" ELSE "sent"]
  /\ Goto(s, "done")
  /\ UNCHANGED <<query, trace, status, late, counters, logs, audit>>

Next ==
  \E s \in Slots :
    \/ \E q \in Queries : Arrive(s, q)
    \/ WriteTimeout(s)
    \/ \E code \in Refusals : Refuse(s, code)
    \/ \E code \in Results : AppendEvent(s, code)
    \/ Commit(s) \/ ListAudit(s) \/ Recover(s) \/ LoadCounter(s)
    \/ CountRequest(s) \/ CountError(s) \/ LogAccess(s) \/ Flush(s)

Spec == Init /\ [][Next]_vars
-----------------------------------------------------------------------------
Labels == {"new", "handler", "commit", "panic", "count", "errors", "log", "flush", "done"}

Traces == {NoTrace} \union {q.trace : q \in Queries} \union {<<"random", s>> : s \in Slots}

Entries == [trace : Traces, status : Int, of : Slots]

\* Types.
TypeOK ==
  /\ pc \in [Slots -> Labels]
  /\ query \in [Slots -> Queries \union {NoQuery}]
  /\ trace \in [Slots -> Traces]
  /\ status \in [Slots -> Int]
  /\ late \subseteq Slots
  /\ answer \in [Slots -> {"none", "sent", "cut"}]
  /\ httpRequests \in Nat /\ httpErrors \in Nat
  /\ seen \in [Slots -> Seq(Nat)]
  /\ accessLog \subseteq Entries
  /\ logLevel \in LogLevels
  /\ rows \in Seq(Entries)
  /\ committed \subseteq DOMAIN rows
  /\ DOMAIN page = Slots /\ DOMAIN acknowledged = Slots

Ended(s) == answer[s] # "none" /\ query[s].route # "preflight"

Panicked(s) == query[s].route = "audit" /\ PageLimit(query[s].limit) >= Absurd
               /\ status[s] = 500

\* No scrape ever shows more errors than requests, though it loads the counters one
\* by one while requests add to them one by one.
ScrapesAreConsistent ==
  \A s \in Slots :
    Len(seen[s]) = 2 =>
      seen[s][CHOOSE i \in 1..2 : ReadOrder[i] = "errors"]
        <= seen[s][CHOOSE i \in 1..2 : ReadOrder[i] = "requests"]

ErrorLines == {line \in accessLog : line.status >= 400}

\* Whenever no request is between its handler and its line, the counters are the
\* access log added up; with a level that drops info there is no line to add up.
CountersMatchAccessLog ==
  (\A s \in Slots : pc[s] \notin {"count", "errors", "log"}) =>
    IF InfoEnabled THEN /\ httpRequests = Cardinality(accessLog)
                        /\ httpErrors = Cardinality(ErrorLines)
                   ELSE accessLog = {}

\* An event whose call was answered before the log is asked for is on the page, or
\* the page is full of later ones; also with INSERTs that overtake each other.
AcknowledgedEventsAreListed ==
  \A s \in Slots : query[s] # NoQuery /\ query[s].route = "audit" /\ status[s] = 200
                     /\ pc[s] \notin {"new", "handler", "panic"} =>
    \A id \in acknowledged[s] :
      \/ \E i \in DOMAIN page[s] : page[s][i] = id
      \/ /\ Len(page[s]) = PageLimit(query[s].limit)
         /\ \A i \in DOMAIN page[s] : page[s][i] > id

\* Whoever holds the id of a request finds it: if lines are written at all, it has
\* left one in the access log with the status it ended with, also if its answer was
\* cut off, unless it panicked; and the event of an admin call that was stored bears
\* that id, whatever the level.
EndedRequestsAreTraceable ==
  /\ InfoEnabled => \A s \in Slots : Ended(s) /\ ~Panicked(s) => LineOf(s) \in accessLog
  /\ \A id \in committed :
       LET s == rows[id].of
       IN  query[s].route = "invoke" /\ Ended(s) =>
             /\ query[s].trace \in {NoTrace, rows[id].trace}
             /\ InfoEnabled =>
                  [trace |-> rows[id].trace, status |-> rows[id].status, of |-> s]
                    \in accessLog

=============================================================================
