------------------------ MODULE UpstreamTuningProofs ------------------------
(***************************************************************************)
(* Proofs about UpstreamTuning, for any number of calls, upstreams and edits. *)
(*                                                                           *)
(* The invariant adds to the types where a call stands relative to its put     *)
(* (Progress) and what the versions say of its copy and of its write (Copies):  *)
(* a copy whose version is still current has the upstream's rest, and a write    *)
(* that is still the last one left the recommended timeout.                      *)
(***************************************************************************)
EXTENDS UpstreamTuning, TLAPS

Up(t) == target[t].upstream

Progress(t) ==
  /\ pc[t] \in {"new", "metrics", "get", "decide"} => t \notin pending /\ wroteAt[t] = 0
  /\ pc[t] \in {"get", "decide", "put"} \/ t \in pending \/ wroteAt[t] # 0 =>
       target[t] \in Findings /\ target[t].verdict = "tune"
  /\ pc[t] = "put" \/ t \in pending \/ wroteAt[t] # 0 => ~dryRun[t]
  /\ t \in pending => wroteAt[t] = 0
  /\ result[t] = "updated" => wroteAt[t] # 0
  /\ result[t] \in {"nothing", "dry_run"} =>
       pc[t] = "done" /\ wroteAt[t] = 0 /\ t \notin pending

Copies(t) ==
  /\ pc[t] = "decide" \/ t \in pending =>
       /\ value[t] \in Values
       /\ readAt[t] <= version[Up(t)]
       /\ readAt[t] = version[Up(t)] => value[t].rest = upstream[Up(t)].rest
  /\ t \in pending => value[t].timeout = target[t].timeout
  /\ wroteAt[t] # 0 =>
       /\ wroteAt[t] <= version[Up(t)]
       /\ wroteAt[t] = version[Up(t)] => upstream[Up(t)].timeout = target[t].timeout

Inv == TypeOK /\ \A t \in Tuners : Progress(t) /\ Copies(t)

\* Nothing was read or written yet.
LEMMA InitInv == Init => Inv
<1> SUFFICES ASSUME Init PROVE Inv
  OBVIOUS
<1>1. TypeOK
  <2>1. upstream \in [Upstreams -> Values]
    BY FindingsAssumption DEF Init, Values
  <2> QED
    BY <2>1, FindingsAssumption DEF Init, TypeOK
<1>2. ASSUME NEW t \in Tuners PROVE Progress(t) /\ Copies(t)
  BY DEF Init, Progress, Copies
<1> QED
  BY <1>1, <1>2 DEF Inv

\* A tuned finding names an upstream and a timeout.
LEMMA TunedFinding ==
  ASSUME NEW t \in Tuners, target[t] \in Findings, target[t].verdict = "tune"
  PROVE  Up(t) \in Upstreams /\ target[t].timeout \in Timeouts
BY FindingsAssumption DEF Up

\* Every step keeps the types.
LEMMA TypeStep ==
  ASSUME Inv, [Next]_vars
  PROVE  TypeOK'
<1> USE FindingsAssumption DEF Inv, TypeOK
<1>1. CASE UNCHANGED vars
  BY <1>1 DEF vars
<1>2. ASSUME NEW t \in Tuners, NEW dry \in BOOLEAN, TuneUpstreamTimeout(t, dry)
      PROVE  TypeOK'
  BY <1>2 DEF TuneUpstreamTimeout, Goto, history
<1>3. ASSUME NEW t \in Tuners, NEW f \in Findings, ChooseTarget(t, f)
      PROVE  TypeOK'
  <2>1. pc' \in [Tuners -> {"new", "metrics", "get", "decide", "put", "done"}]
    BY <1>3 DEF ChooseTarget, Goto, Return
  <2>2. target' \in [Tuners -> Findings \union {NoTarget}]
    BY <1>3 DEF ChooseTarget
  <2>3. result' \in [Tuners -> {"none", "nothing", "dry_run", "failed", "updated"}]
    BY <1>3 DEF ChooseTarget, Return
  <2> QED
    BY <1>3, <2>1, <2>2, <2>3 DEF ChooseTarget, history
<1>4. ASSUME NEW t \in Tuners, GetUpstream(t)
      PROVE  TypeOK'
  <2>1. Up(t) \in Upstreams
    BY <1>4, TunedFinding DEF GetUpstream, Progress
  <2> QED
    BY <1>4, <2>1 DEF GetUpstream, Goto, Up
<1>5. ASSUME NEW t \in Tuners, SendPut(t)
      PROVE  TypeOK'
  <2>1. value[t] \in Values /\ target[t].timeout \in Timeouts
    BY <1>5, TunedFinding DEF SendPut, Progress, Copies
  <2>2. [value[t] EXCEPT !.timeout = target[t].timeout] \in Values
    BY <2>1 DEF Values
  <2>3. value' \in [Tuners -> Values \union {NoValue}]
    BY <1>5, <2>2 DEF SendPut
  <2> QED
    BY <1>5, <2>3 DEF SendPut, Goto, Return, history
<1>6. ASSUME NEW t \in Tuners, GatewayPuts(t)
      PROVE  TypeOK'
  <2>1. Up(t) \in Upstreams /\ value[t] \in Values
    BY <1>6, TunedFinding DEF GatewayPuts, Progress, Copies
  <2> QED
    BY <1>6, <2>1 DEF GatewayPuts, Write, Up, locals
<1>7. ASSUME NEW t \in Tuners, GatewayRefuses(t) \/ PutReplied(t) \/ RequestFails(t)
      PROVE  TypeOK'
  BY <1>7 DEF GatewayRefuses, PutReplied, RequestFails, Goto, Return, history
<1>8. ASSUME NEW u \in Upstreams, NEW timeout \in Timeouts, Edit(u, timeout)
      PROVE  TypeOK'
  BY <1>8 DEF Edit, Write, Values, locals
<1> QED
  BY <1>1, <1>2, <1>3, <1>4, <1>5, <1>6, <1>7, <1>8 DEF Next, TunerStep

\* A step of one call that writes to no upstream leaves the others alone.
LEMMA OthersUntouched ==
  ASSUME Inv, NEW t \in Tuners, NEW s \in Tuners, s # t,
         UNCHANGED <<upstream, version>>,
         pc'[s] = pc[s], dryRun'[s] = dryRun[s], target'[s] = target[s],
         value'[s] = value[s], result'[s] = result[s], readAt'[s] = readAt[s],
         wroteAt'[s] = wroteAt[s], (s \in pending') <=> (s \in pending)
  PROVE  Progress(s)' /\ Copies(s)'
BY DEF Inv, Progress, Copies, Up

\* A write to an upstream makes every copy of it old.
LEMMA AfterWrite ==
  ASSUME Inv, NEW s \in Tuners, NEW u \in Upstreams, NEW v, Write(u, v),
         UNCHANGED <<pc, locals, readAt>>,
         wroteAt'[s] = wroteAt[s], (s \in pending') <=> (s \in pending)
  PROVE  Progress(s)' /\ Copies(s)'
<1>1. Progress(s)'
  BY DEF Inv, Progress, locals
<1>2. CASE s \notin pending /\ pc[s] # "decide" /\ wroteAt[s] = 0
  BY <1>1, <1>2 DEF Copies, locals
<1>3. CASE s \in pending \/ pc[s] = "decide" \/ wroteAt[s] # 0
  <2>1. Up(s) \in Upstreams /\ Up(s)' = Up(s)
    BY <1>3, TunedFinding DEF Inv, Progress, Up, locals
  <2>2. CASE u = Up(s)
    <3>1. version'[Up(s)] = version[Up(s)] + 1 /\ version[Up(s)] \in Nat
      BY <2>1, <2>2 DEF Write, Inv, TypeOK
    <3>2. readAt[s] \in Nat /\ wroteAt[s] \in Nat
      BY DEF Inv, TypeOK
    <3> QED
      BY <1>1, <2>1, <3>1, <3>2 DEF Inv, Copies, locals
  <2>3. CASE u # Up(s)
    <3>1. version'[Up(s)] = version[Up(s)] /\ upstream'[Up(s)] = upstream[Up(s)]
      BY <2>1, <2>3 DEF Write, Inv, TypeOK
    <3> QED
      BY <1>1, <2>1, <3>1 DEF Inv, Copies, locals
  <2> QED
    BY <2>2, <2>3
<1> QED
  BY <1>1, <1>2, <1>3

\* The steps of a call keep its progress and the truth of its copy.
LEMMA CallStep ==
  ASSUME Inv, NEW t \in Tuners,
         \/ \E dry \in BOOLEAN : TuneUpstreamTimeout(t, dry)
         \/ TunerStep(t)
  PROVE  \A s \in Tuners : Progress(s)' /\ Copies(s)'
<1> USE DEF Inv, TypeOK
<1>1. ASSUME NEW s \in Tuners, s # t PROVE Progress(s)' /\ Copies(s)'
  <2>1. /\ UNCHANGED <<upstream, version>>
        /\ pc'[s] = pc[s] /\ dryRun'[s] = dryRun[s] /\ target'[s] = target[s]
        /\ value'[s] = value[s] /\ result'[s] = result[s] /\ readAt'[s] = readAt[s]
        /\ wroteAt'[s] = wroteAt[s] /\ ((s \in pending') <=> (s \in pending))
    <3>1. CASE \E dry \in BOOLEAN : TuneUpstreamTimeout(t, dry)
      BY <1>1, <3>1 DEF TuneUpstreamTimeout, Goto, history
    <3>2. CASE \E f \in Findings : ChooseTarget(t, f)
      BY <1>1, <3>2, FindingsAssumption DEF ChooseTarget, Goto, Return, history
    <3>3. CASE GetUpstream(t) \/ SendPut(t)
      BY <1>1, <3>3 DEF GetUpstream, SendPut, Goto, Return, history
    <3>4. CASE PutReplied(t) \/ GatewayRefuses(t) \/ RequestFails(t)
      BY <1>1, <3>4 DEF PutReplied, GatewayRefuses, RequestFails, Goto, Return, history
    <3> QED
      BY <3>1, <3>2, <3>3, <3>4 DEF TunerStep
  <2> QED
    BY <1>1, <2>1, OthersUntouched
<1>2. Progress(t)' /\ Copies(t)'
  <2>1. ASSUME NEW dry \in BOOLEAN, TuneUpstreamTimeout(t, dry)
        PROVE  Progress(t)' /\ Copies(t)'
    BY <2>1 DEF TuneUpstreamTimeout, Goto, history, Progress, Copies
  <2>2. ASSUME NEW f \in Findings, ChooseTarget(t, f)
        PROVE  Progress(t)' /\ Copies(t)'
    <3>1. pc[t] = "metrics" /\ t \notin pending /\ wroteAt[t] = 0 /\ result[t] # "updated"
      BY <2>2 DEF ChooseTarget, Progress
    <3>2. \/ pc'[t] = "done" /\ result'[t] \in {"nothing", "failed"}
          \/ /\ pc'[t] = "get" /\ target'[t] = f /\ f.verdict = "tune"
             /\ result'[t] = result[t]
      BY <2>2, FindingsAssumption DEF ChooseTarget, Goto, Return
    <3>3. pending' = pending /\ wroteAt' = wroteAt
      BY <2>2 DEF ChooseTarget, history
    <3> QED
      BY <3>1, <3>2, <3>3 DEF Progress, Copies
  <2>3. ASSUME GetUpstream(t)
        PROVE  Progress(t)' /\ Copies(t)'
    <3>1. Up(t) \in Upstreams /\ Up(t)' = Up(t)
      BY <2>3, TunedFinding DEF GetUpstream, Progress, Up
    <3>2. value'[t] = upstream[Up(t)] /\ readAt'[t] = version[Up(t)] /\ pc'[t] = "decide"
      BY <2>3 DEF GetUpstream, Goto, Up
    <3>3. upstream[Up(t)] \in Values /\ version[Up(t)] \in Nat
      BY <3>1
    <3>4. t \notin pending /\ wroteAt[t] = 0 /\ UNCHANGED <<upstream, version, pending, wroteAt>>
      BY <2>3 DEF GetUpstream, Progress
    <3>5. Copies(t)'
      BY <3>1, <3>2, <3>3, <3>4 DEF Copies
    <3>6. Progress(t)'
      BY <2>3, <3>2, <3>4 DEF Progress, GetUpstream
    <3> QED
      BY <3>5, <3>6
  <2>4. ASSUME SendPut(t)
        PROVE  Progress(t)' /\ Copies(t)'
    <3>1. /\ pc[t] = "decide" /\ t \notin pending /\ wroteAt[t] = 0
          /\ Up(t)' = Up(t) /\ target[t].timeout \in Timeouts /\ value[t] \in Values
      BY <2>4, TunedFinding DEF SendPut, Progress, Copies, Up
    <3>2. CASE dryRun[t]
      BY <2>4, <3>1, <3>2 DEF SendPut, Return, Goto, Progress, Copies, history
    <3>3. CASE ~dryRun[t]
      <4>1. /\ value'[t] = [value[t] EXCEPT !.timeout = target[t].timeout]
            /\ pc'[t] = "put" /\ pending' = pending \union {t} /\ result' = result
        BY <2>4, <3>3 DEF SendPut, Goto
      <4>2. /\ value'[t] \in Values /\ value'[t].rest = value[t].rest
            /\ value'[t].timeout = target[t].timeout
        BY <3>1, <4>1 DEF Values
      <4>3. Copies(t)'
        BY <2>4, <3>1, <4>1, <4>2 DEF SendPut, Copies, history
      <4>4. Progress(t)'
        BY <2>4, <3>1, <3>3, <4>1 DEF SendPut, Progress, history
      <4> QED
        BY <4>3, <4>4
    <3> QED
      BY <3>2, <3>3
  <2>5. ASSUME GatewayRefuses(t) \/ PutReplied(t) \/ RequestFails(t)
        PROVE  Progress(t)' /\ Copies(t)'
    BY <2>5 DEF GatewayRefuses, PutReplied, RequestFails, Return, Goto, history,
                Progress, Copies, Up
  <2> QED
    BY <2>1, <2>2, <2>3, <2>4, <2>5 DEF TunerStep
<1> QED
  BY <1>1, <1>2

\* A put, however late, leaves the recommended timeout and ages all other copies.
LEMMA PutStep ==
  ASSUME Inv, NEW t \in Tuners, GatewayPuts(t)
  PROVE  \A s \in Tuners : Progress(s)' /\ Copies(s)'
<1>1. /\ Up(t) \in Upstreams /\ Write(Up(t), value[t]) /\ Up(t)' = Up(t)
      /\ value[t].timeout = target[t].timeout /\ UNCHANGED <<pc, locals, readAt>>
  BY TunedFinding DEF GatewayPuts, Inv, Progress, Copies, Up, locals
<1>2. ASSUME NEW s \in Tuners, s # t PROVE Progress(s)' /\ Copies(s)'
  <2>1. wroteAt'[s] = wroteAt[s] /\ ((s \in pending') <=> (s \in pending))
    BY <1>2 DEF GatewayPuts, Inv, TypeOK
  <2> QED
    BY <1>1, <2>1, AfterWrite
<1>3. Progress(t)' /\ Copies(t)'
  <2>1. /\ t \notin pending' /\ pc[t] # "decide" /\ wroteAt'[t] = version[Up(t)] + 1
        /\ version'[Up(t)] = version[Up(t)] + 1 /\ version[Up(t)] \in Nat
        /\ upstream'[Up(t)] = value[t]
    BY <1>1 DEF GatewayPuts, Write, Inv, TypeOK, Progress, Up
  <2>2. Copies(t)'
    BY <1>1, <2>1 DEF Copies, locals
  <2>3. Progress(t)'
    BY <1>1, <2>1 DEF Progress, Inv, GatewayPuts, locals
  <2> QED
    BY <2>2, <2>3
<1> QED
  BY <1>2, <1>3

\* The invariant is inductive.
LEMMA NextInv == Inv /\ [Next]_vars => Inv'
<1> SUFFICES ASSUME Inv, [Next]_vars PROVE Inv'
  OBVIOUS
<1>1. TypeOK'
  BY TypeStep
<1>2. \A s \in Tuners : Progress(s)' /\ Copies(s)'
  <2>1. CASE UNCHANGED vars
    BY <2>1 DEF vars, Inv, Progress, Copies, Up
  <2>2. ASSUME NEW u \in Upstreams, NEW timeout \in Timeouts, Edit(u, timeout)
        PROVE  \A s \in Tuners : Progress(s)' /\ Copies(s)'
    BY <2>2, AfterWrite DEF Edit
  <2> QED
    BY <2>1, <2>2, CallStep, PutStep DEF Next
<1> QED
  BY <1>1, <1>2 DEF Inv

\* The invariant holds in every reachable state.
THEOREM Invariance == Spec => []Inv
BY InitInv, NextInv, PTL DEF Spec

(***************************************************************************)
(* Every variable of TuneUpstreamTimeout and of the gateway keeps its type,    *)
(* for every set of findings.                                                   *)
(***************************************************************************)
THEOREM TypeCorrect == Spec => []TypeOK
<1>1. Inv => TypeOK
  BY DEF Inv
<1> QED
  BY <1>1, Invariance, PTL

(***************************************************************************)
(* The answer of the tool tells what happened at the gateway.                  *)
(***************************************************************************)
THEOREM TruthfulReports == Spec => []ReportsMatchGateway
<1>1. Inv => ReportsMatchGateway
  BY DEF Inv, Progress, ReportsMatchGateway
<1> QED
  BY <1>1, Invariance, PTL

(***************************************************************************)
(* The timeout a tune wrote stands until somebody else writes the upstream.    *)
(***************************************************************************)
THEOREM TimeoutsStand == Spec => []WrittenTimeoutStands
<1>1. Inv => WrittenTimeoutStands
  BY DEF Inv, Copies, WrittenTimeoutStands, Up
<1> QED
  BY <1>1, Invariance, PTL

(***************************************************************************)
(* The read-modify-write of TuneUpstreamTimeout is safe as long as nobody      *)
(* writes the upstream between the read and the put.                            *)
(***************************************************************************)
THEOREM UndisturbedTune == Spec => UndisturbedTuneKeepsRest
<1>1. ASSUME Inv, [Next]_vars, NEW t \in Tuners, Puts(t),
             readAt[t] = version[target[t].upstream], NEW u \in Upstreams
      PROVE  upstream'[u].rest = upstream[u].rest
  <2>1. GatewayPuts(t)
    <3>1. wroteAt'[t] # wroteAt[t]
      BY <1>1 DEF Puts
    <3>2. ASSUME NEW s \in Tuners, GatewayPuts(s) PROVE s = t
      BY <3>1, <3>2 DEF GatewayPuts, Inv, TypeOK
    <3>3. ASSUME NEW s \in Tuners, TunerStep(s) PROVE FALSE
      BY <3>1, <3>3, FindingsAssumption
      DEF TunerStep, ChooseTarget, GetUpstream, SendPut, PutReplied, GatewayRefuses,
          RequestFails, history
    <3>4. ~UNCHANGED vars
      BY <3>1 DEF vars
    <3>5. ASSUME NEW s \in Tuners, NEW dry \in BOOLEAN, TuneUpstreamTimeout(s, dry)
          PROVE  FALSE
      BY <3>1, <3>5 DEF TuneUpstreamTimeout, history
    <3>6. ASSUME NEW x \in Upstreams, NEW timeout \in Timeouts, Edit(x, timeout)
          PROVE  FALSE
      BY <3>1, <3>6 DEF Edit
    <3> QED
      BY <1>1, <3>2, <3>3, <3>4, <3>5, <3>6 DEF Next
  <2>2. value[t].rest = upstream[Up(t)].rest
    BY <1>1, <2>1 DEF GatewayPuts, Inv, Copies, Up
  <2>3. upstream' = [upstream EXCEPT ![Up(t)] = value[t]]
    BY <2>1 DEF GatewayPuts, Write, Up
  <2> QED
    BY <1>1, <2>2, <2>3 DEF Inv, TypeOK
<1>2. Inv /\ [Next]_vars =>
        [\A t \in Tuners :
           Puts(t) /\ readAt[t] = version[target[t].upstream] =>
             \A u \in Upstreams : upstream'[u].rest = upstream[u].rest]_vars
  BY <1>1
<1> QED
  BY <1>2, Invariance, PTL DEF Spec, UndisturbedTuneKeepsRest

=============================================================================
