--------------------------- MODULE UpstreamTuning ---------------------------
(***************************************************************************)
(* gatewayclient.Client.TuneUpstreamTimeout: concurrent tool calls that read  *)
(* the metrics, read an upstream, and put it back whole with new timeouts,      *)
(* while operators change upstreams at the gateway.                             *)
(*                                                                           *)
(* Nothing ties the put to the read: the gateway is given no version to         *)
(* compare, and it carries out a put that its sender has given up on.            *)
(***************************************************************************)
EXTENDS Naturals

CONSTANTS
  Tuners,      \* the calls of tune_upstream_timeout, one goroutine each
  Upstreams,
  Timeouts,    \* the values of an upstream's timeout object
  Findings,    \* what the metrics may yield, see FindingsAssumption
  MaxEdits     \* bound on the changes operators make

ASSUME FindingsAssumption ==
  /\ \A f \in Findings : f.verdict \in {"nothing", "no_upstream", "tune"}
  /\ \A f \in Findings : f.verdict = "tune" => /\ f.upstream \in Upstreams
                                               /\ f.timeout \in Timeouts
  /\ MaxEdits \in Nat

VARIABLES
  upstream,    \* what the gateway holds: [timeout, rest] for each upstream
  pc,          \* where each call is in TuneUpstreamTimeout
  dryRun,      \* its dry_run argument
  target,      \* the chosen entry: an upstream and the recommended timeout
  value,       \* the upstream as get_upstream answered
  pending,     \* calls whose put the gateway received and has not handled
  result,      \* what the tool answered, "none" before
  edits,       \* changes made by operators
  version,     \* history: writes to each upstream
  readAt,      \* history: the version a call read
  wroteAt      \* history: the version a call's put made, 0 before

locals  == <<dryRun, target, value, result>>
history == <<version, readAt, wroteAt>>
vars == <<upstream, pc, dryRun, target, value, pending, result, edits, version,
          readAt, wroteAt>>

NoTarget == [verdict |-> "nothing"]
NoValue  == <<>>

Init ==
  /\ upstream \in [Upstreams -> [timeout : Timeouts, rest : {1}]]
  /\ pc = [t \in Tuners |-> "new"]
  /\ dryRun = [t \in Tuners |-> TRUE]
  /\ target = [t \in Tuners |-> NoTarget]
  /\ value = [t \in Tuners |-> NoValue]
  /\ pending = {}
  /\ result = [t \in Tuners |-> "none"]
  /\ edits = 0
  /\ version = [u \in Upstreams |-> 1]
  /\ readAt = [t \in Tuners |-> 0]
  /\ wroteAt = [t \in Tuners |-> 0]

Goto(t, label) == pc' = [pc EXCEPT ![t] = label]

Return(t, r) == Goto(t, "done") /\ result' = [result EXCEPT ![t] = r]

-----------------------------------------------------------------------------
\* The tool is called; an argument that is not given means a dry run.
TuneUpstreamTimeout(t, dry) ==
  /\ pc[t] = "new"
  /\ dryRun' = [dryRun EXCEPT ![t] = dry]
  /\ Goto(t, "metrics")
  /\ UNCHANGED <<upstream, target, value, pending, result, edits, history>>

\* GET /metrics was answered; the entries are built and one is chosen.
ChooseTarget(t, f) ==
  /\ pc[t] = "metrics"
  /\ CASE f.verdict = "nothing"     -> Return(t, "nothing") /\ UNCHANGED target
       [] f.verdict = "no_upstream" -> Return(t, "failed") /\ UNCHANGED target
       [] f.verdict = "tune"        -> /\ target' = [target EXCEPT ![t] = f]
                                       /\ Goto(t, "get")
                                       /\ UNCHANGED result
  /\ UNCHANGED <<upstream, dryRun, value, pending, edits, history>>

\* Mutant of GetUpstream: the answer is decoded into the known fields only.
GetKnownFields(t) ==
  /\ pc[t] = "get"
  /\ value' = [value EXCEPT ![t] = [upstream[target[t].upstream] EXCEPT !.rest = 1]]
  /\ readAt' = [readAt EXCEPT ![t] = version[target[t].upstream]]
  /\ Goto(t, "decide")
  /\ UNCHANGED <<upstream, dryRun, target, pending, result, edits, version, wroteAt>>

\* The gateway answers get_upstream.
GetUpstream(t) ==
  /\ pc[t] = "get"
  /\ value' = [value EXCEPT ![t] = upstream[target[t].upstream]]
  /\ readAt' = [readAt EXCEPT ![t] = version[target[t].upstream]]
  /\ Goto(t, "decide")
  /\ UNCHANGED <<upstream, dryRun, target, pending, result, edits, version, wroteAt>>

\* Mutant of SendPut: the value goes back as it came.
SendUnchanged(t) ==
  /\ pc[t] = "decide"
  /\ IF dryRun[t]
     THEN Return(t, "dry_run") /\ UNCHANGED pending
     ELSE pending' = pending \union {t} /\ Goto(t, "put") /\ UNCHANGED result
  /\ UNCHANGED <<upstream, dryRun, target, value, edits, history>>

\* A dry run ends here, otherwise the value is put back with the new timeout.
SendPut(t) ==
  /\ pc[t] = "decide"
  /\ IF dryRun[t]
     THEN Return(t, "dry_run") /\ UNCHANGED <<value, pending>>
     ELSE /\ value' = [value EXCEPT ![t].timeout = target[t].timeout]
          /\ pending' = pending \union {t}
          /\ Goto(t, "put")
          /\ UNCHANGED result
  /\ UNCHANGED <<upstream, dryRun, target, edits, history>>

Write(u, v) ==
  /\ upstream' = [upstream EXCEPT ![u] = v]
  /\ version' = [version EXCEPT ![u] = @ + 1]

\* The gateway carries out a put it received, also when its sender is gone.
GatewayPuts(t) ==
  /\ t \in pending
  /\ pending' = pending \ {t}
  /\ Write(target[t].upstream, value[t])
  /\ wroteAt' = [wroteAt EXCEPT ![t] = version[target[t].upstream] + 1]
  /\ UNCHANGED <<pc, locals, edits, readAt>>

GatewayRefuses(t) ==
  /\ pc[t] = "put" /\ t \in pending
  /\ pending' = pending \ {t}
  /\ Return(t, "failed")
  /\ UNCHANGED <<upstream, dryRun, target, value, edits, history>>

\* Mutant of PutReplied: the answer to the put is not awaited.
PutAssumed(t) ==
  /\ pc[t] = "put"
  /\ Return(t, "updated")
  /\ UNCHANGED <<upstream, dryRun, target, value, pending, edits, history>>

PutReplied(t) ==
  /\ pc[t] = "put" /\ wroteAt[t] # 0
  /\ Return(t, "updated")
  /\ UNCHANGED <<upstream, dryRun, target, value, pending, edits, history>>

\* Any of the three requests fails, is answered with an error or garbage, or
\* runs into the client's timeout or a cancelled context.
RequestFails(t) ==
  /\ pc[t] \in {"metrics", "get", "put"}
  /\ Return(t, "failed")
  /\ UNCHANGED <<upstream, dryRun, target, value, pending, edits, history>>

\* An operator changes an upstream at the gateway.
Edit(u, timeout) ==
  /\ edits < MaxEdits
  /\ edits' = edits + 1
  /\ Write(u, [timeout |-> timeout, rest |-> edits + 2])
  /\ UNCHANGED <<pc, locals, pending, readAt, wroteAt>>

TunerStep(t) ==
  \/ \E f \in Findings : ChooseTarget(t, f)
  \/ GetUpstream(t) \/ SendPut(t)
  \/ PutReplied(t) \/ GatewayRefuses(t) \/ RequestFails(t)

Next ==
  \/ \E t \in Tuners, dry \in BOOLEAN : TuneUpstreamTimeout(t, dry)
  \/ \E t \in Tuners : TunerStep(t) \/ GatewayPuts(t)
  \/ \E u \in Upstreams, timeout \in Timeouts : Edit(u, timeout)

Spec == Init /\ [][Next]_vars
-----------------------------------------------------------------------------
Values == [timeout : Timeouts, rest : 1..(MaxEdits + 1)]

\* Types; whatever is put back is a whole upstream.
TypeOK ==
  /\ upstream \in [Upstreams -> Values]
  /\ pc \in [Tuners -> {"new", "metrics", "get", "decide", "put", "done"}]
  /\ dryRun \in [Tuners -> BOOLEAN]
  /\ target \in [Tuners -> Findings \union {NoTarget}]
  /\ value \in [Tuners -> Values \union {NoValue}]
  /\ pending \subseteq Tuners
  /\ result \in [Tuners -> {"none", "nothing", "dry_run", "failed", "updated"}]
  /\ edits \in 0..MaxEdits
  /\ version \in [Upstreams -> Nat]
  /\ readAt \in [Tuners -> Nat] /\ wroteAt \in [Tuners -> Nat]

\* What the caller is told is what happened: "updated" was written, and after
\* any other answer but a failure nothing was written or ever will be.
ReportsMatchGateway ==
  \A t \in Tuners :
    /\ result[t] = "updated" => wroteAt[t] # 0 /\ ~dryRun[t]
    /\ result[t] \in {"nothing", "dry_run"} => wroteAt[t] = 0 /\ t \notin pending

\* Until somebody else writes, an upstream a call wrote has the timeout that was
\* recommended for it.
WrittenTimeoutStands ==
  \A t \in Tuners :
    wroteAt[t] # 0 /\ wroteAt[t] = version[target[t].upstream] =>
      upstream[target[t].upstream].timeout = target[t].timeout

Puts(t) == wroteAt[t] = 0 /\ wroteAt'[t] # 0

\* A tune that nobody raced with changes the timeout of its upstream and nothing
\* else, however late its put is carried out.
UndisturbedTuneKeepsRest ==
  [][\A t \in Tuners :
       Puts(t) /\ readAt[t] = version[target[t].upstream] =>
         \A u \in Upstreams : upstream'[u].rest = upstream[u].rest]_vars

\* README.md:269: a tune updates the timeout of the upstream; whatever else the
\* upstream holds is left as it is.
TuneChangesOnlyTimeout ==
  [][\A t \in Tuners : Puts(t) =>
       \A u \in Upstreams : upstream'[u].rest = upstream[u].rest]_vars

=============================================================================
