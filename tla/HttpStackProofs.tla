-------------------------- MODULE HttpStackProofs --------------------------
(***************************************************************************)
(* Proofs about HttpStack and AuditStore for any number of requests and any    *)
(* queries: the pages of the stores, the counters against each other and          *)
(* against the access log, and the traces a request leaves.                       *)
(*                                                                           *)
(* The counters need to be counted against the requests that are between two      *)
(* of them: those that owe an error, and those that owe a line.                    *)
(***************************************************************************)
EXTENDS HttpStack, FiniteSetTheorems, SequenceTheorems, TLAPS

PageSize(log, limit) == IF limit > Len(log) THEN Len(log) ELSE limit

\* What the two kinds of store return of a log: its last rows, in two orders.
LEMMA Pages ==
  ASSUME NEW S, NEW log \in Seq(S), NEW limit \in Nat \ {0}
  PROVE  /\ MemoryList(log, limit) =
               [i \in 1..PageSize(log, limit) |-> log[Len(log) - PageSize(log, limit) + i]]
         /\ SqlList(log, limit) =
               [i \in 1..PageSize(log, limit) |-> log[Len(log) - i + 1]]
<1> DEFINE n == PageSize(log, limit)
<1> USE DEF PageSize
<1>1. n \in Nat /\ n <= Len(log) /\ Len(log) \in Nat
  OBVIOUS
<1>2. n = IF limit <= 0 \/ limit > Len(log) THEN Len(log) ELSE limit
  OBVIOUS
<1>3. SqlList(log, limit) = [i \in 1..n |-> log[Len(log) - i + 1]]
  BY DEF SqlList
<1> HIDE DEF n
<1>4. MemoryList(log, limit) = SubSeq(log, Len(log) - n + 1, Len(log))
  BY <1>2 DEF MemoryList
<1>5. MemoryList(log, limit) = [i \in 1..n |-> log[Len(log) - n + i]]
  BY <1>1, <1>4, SubSeqProperties
<1> QED
  BY <1>3, <1>5 DEF n

\* Nobody asks a store for nothing.
LEMMA LimitIsPositive == \A raw \in Int : PageLimit(raw) \in Nat \ {0}
BY DefaultLimitAssumption DEF PageLimit

(***************************************************************************)
(* Whatever limit a caller asks the handler for, the memory store and a SQL    *)
(* store return the same events, one in the reverse order of the other           *)
(* (handlers.go:70, store.go:27, sql_store.go:40).                               *)
(***************************************************************************)
THEOREM PagesAgree ==
  ASSUME NEW S, NEW log \in Seq(S), NEW raw \in Int
  PROVE  LET sql == SqlList(log, PageLimit(raw))
             mem == MemoryList(log, PageLimit(raw))
         IN  /\ Len(sql) = Len(mem)
             /\ \A i \in 1..Len(sql) : sql[i] = mem[Len(mem) - i + 1]
<1> DEFINE limit == PageLimit(raw)
           n     == PageSize(log, limit)
           sql   == SqlList(log, limit)
           mem   == MemoryList(log, limit)
<1>1. limit \in Nat \ {0}
  BY LimitIsPositive
<1>2. n \in Nat /\ n <= Len(log) /\ Len(log) \in Nat
  BY <1>1 DEF PageSize
<1> HIDE DEF limit
<1>3. /\ sql = [i \in 1..n |-> log[Len(log) - i + 1]]
      /\ mem = [i \in 1..n |-> log[Len(log) - n + i]]
  BY <1>1, Pages
<1> HIDE DEF n, sql, mem
<1>4. Len(sql) = n /\ Len(mem) = n
  BY <1>2, <1>3
<1>5. ASSUME NEW i \in 1..n PROVE sql[i] = mem[n - i + 1]
  <2>1. n - i + 1 \in 1..n
    BY <1>2
  <2>2. mem[n - i + 1] = log[Len(log) - n + (n - i + 1)]
    BY <1>3, <2>1
  <2>3. Len(log) - n + (n - i + 1) = Len(log) - i + 1
    BY <1>2
  <2> QED
    BY <1>3, <2>2, <2>3
<1> QED
  BY <1>4, <1>5 DEF limit, sql, mem

\* A set of naturals has a least element.
LEMMA LeastNumber ==
  ASSUME NEW T \in SUBSET Nat, T # {}
  PROVE  \E x \in T : \A y \in T : x <= y
<1>1. IsWellFoundedOn(OpToRel(<, Nat), Nat)
  BY NatLessThanWellFounded
<1>2. PICK x \in T : \A y \in T : ~ (<<y, x>> \in OpToRel(<, Nat))
  BY <1>1, WFMin, Zenon
<1>3. \A y \in T : ~(y < x)
  BY <1>2 DEF OpToRel
<1> QED
  BY <1>3

\* A list of ids in their order.
Ascending(list) == \A i, j \in DOMAIN list : i < j => list[i] < list[j]

(***************************************************************************)
(* The rows of a table can be listed in the order of their ids: otherwise a    *)
(* smallest table could not, and removing its first row would leave a smaller.   *)
(***************************************************************************)
LEMMA AscendingListExists ==
  ASSUME NEW S \in SUBSET Nat, IsFiniteSet(S)
  PROVE  \E list \in [1..Cardinality(S) -> S] : Ascending(list)
<1> DEFINE Fails(n) == \E T \in SUBSET Nat : /\ IsFiniteSet(T) /\ Cardinality(T) = n
                                  /\ ~ \E list \in [1..n -> T] : Ascending(list)
           Bad == {n \in Nat : Fails(n)}
<1>1. SUFFICES Bad = {}
  <2>1. Cardinality(S) \in Nat
    BY FS_CardinalityType
  <2> QED
    BY <1>1, <2>1
<1>2. SUFFICES ASSUME Bad # {} PROVE FALSE
  OBVIOUS
<1>3. PICK n \in Bad : \A m \in Bad : n <= m
  <2>1. Bad \in SUBSET Nat
    OBVIOUS
  <2> HIDE DEF Bad
  <2> QED
    BY <1>2, <2>1, LeastNumber
<1>4. PICK T \in SUBSET Nat : /\ IsFiniteSet(T) /\ Cardinality(T) = n
                              /\ ~ \E list \in [1..n -> T] : Ascending(list)
  BY <1>3
<1>5. n \in Nat
  OBVIOUS
<1>6. CASE n = 0
  <2> DEFINE none == [i \in 1..0 |-> 0]
  <2>1. none \in [1..n -> T] /\ Ascending(none)
    BY <1>6 DEF Ascending
  <2> QED
    BY <1>4, <2>1
<1>7. CASE n # 0
  <2>1. T # {}
    BY <1>4, <1>7, FS_EmptySet
  <2>2. PICK low \in T : \A y \in T : low <= y
    BY <2>1, LeastNumber
  <2>3. IsFiniteSet(T \ {low}) /\ Cardinality(T \ {low}) = n - 1
    BY <1>4, FS_RemoveElement
  <2>4. n - 1 \in Nat /\ n - 1 \notin Bad
    BY <1>3, <1>5, <1>7
  <2>5. PICK rest \in [1..n - 1 -> T \ {low}] : Ascending(rest)
    BY <2>3, <2>4
  <2> DEFINE list == [i \in 1..n |-> IF i = 1 THEN low ELSE rest[i - 1]]
  <2>6. ASSUME NEW i \in 1..n, i # 1
        PROVE  i - 1 \in 1..n - 1 /\ rest[i - 1] \in T \ {low}
    BY <1>5, <2>6
  <2>7. list \in [1..n -> T]
    BY <2>6
  <2>8. ASSUME NEW i \in 1..n, NEW j \in 1..n, i < j PROVE list[i] < list[j]
    <3>1. j # 1 /\ rest[j - 1] \in T /\ rest[j - 1] # low
      BY <2>6, <2>8
    <3>2. CASE i = 1
      <4>1. list[i] = low /\ list[j] = rest[j - 1]
        BY <3>1, <3>2
      <4>2. low \in Nat /\ rest[j - 1] \in Nat /\ low <= rest[j - 1]
        BY <2>2, <3>1
      <4> HIDE DEF list
      <4> QED
        BY <3>1, <4>1, <4>2
    <3>3. CASE i # 1
      <4>1. rest[i - 1] < rest[j - 1]
        BY <2>5, <2>6, <2>8, <3>1, <3>3 DEF Ascending
      <4> QED
        BY <3>1, <3>3, <4>1
    <3> QED
      BY <3>2, <3>3
  <2>9. Ascending(list)
    BY <2>8 DEF Ascending
  <2> QED
    BY <1>4, <2>7, <2>9
<1> QED
  BY <1>6, <1>7

\* Visible lists the committed ids in their order, and all of them.
LEMMA VisibleRows ==
  ASSUME committed \in SUBSET Nat, IsFiniteSet(committed)
  PROVE  /\ Visible \in Seq(committed) /\ Ascending(Visible)
         /\ \A id \in committed : \E k \in 1..Len(Visible) : Visible[k] = id
<1> DEFINE n == Cardinality(committed)
<1>1. n \in Nat
  BY FS_CardinalityType
<1>2. Visible \in [1..n -> committed] /\ Ascending(Visible)
  <2>1. \E list \in [1..n -> committed] : Ascending(list)
    BY AscendingListExists
  <2> QED
    BY <2>1 DEF Visible, Ascending
<1>3. Visible \in Injection(1..n, committed)
  <2>1. \A i, j \in 1..n : Visible[i] = Visible[j] => i = j
    <3> SUFFICES ASSUME NEW i \in 1..n, NEW j \in 1..n, Visible[i] = Visible[j], i # j
                 PROVE  FALSE
      OBVIOUS
    <3>1. Visible[i] \in Nat /\ Visible[j] \in Nat
      BY <1>2
    <3>2. (i < j => Visible[i] < Visible[j]) /\ (j < i => Visible[j] < Visible[i])
      BY <1>2 DEF Ascending
    <3> QED
      BY <3>1, <3>2
  <2> QED
    BY <1>2, <2>1 DEF Injection, IsInjective
<1>4. IsFiniteSet(1..n) /\ Cardinality(1..n) = n
  BY <1>1, FS_Interval
<1>5. Visible \in Surjection(1..n, committed)
  BY <1>3, <1>4, FS_Injection
<1>6. Visible \in Seq(committed) /\ Len(Visible) = n
  BY <1>1, <1>2
<1> QED
  BY <1>2, <1>5, <1>6 DEF Surjection

\* A row of the log is on its last page, or the page is full and all of it later.
LEMMA OnPageOrOlder ==
  ASSUME NEW list \in Seq(Nat), Ascending(list), NEW limit \in Nat \ {0},
         NEW k \in 1..Len(list),
         NEW p, p = MemoryList(list, limit) \/ p = SqlList(list, limit)
  PROVE  \/ \E i \in DOMAIN p : p[i] = list[k]
         \/ Len(p) = limit /\ \A i \in DOMAIN p : p[i] > list[k]
<1> DEFINE n == PageSize(list, limit)
<1>1. n \in Nat /\ n <= Len(list) /\ Len(list) \in Nat /\ (n = limit \/ n = Len(list))
  BY DEF PageSize
<1>2. \/ p = [i \in 1..n |-> list[Len(list) - n + i]]
      \/ p = [i \in 1..n |-> list[Len(list) - i + 1]]
  BY Pages
<1> HIDE DEF n
<1>3. CASE k > Len(list) - n
  <2>1. k - (Len(list) - n) \in 1..n /\ Len(list) - k + 1 \in 1..n
    BY <1>1, <1>3
  <2>2. /\ Len(list) - n + (k - (Len(list) - n)) = k
        /\ Len(list) - (Len(list) - k + 1) + 1 = k
    BY <1>1
  <2>3. CASE p = [i \in 1..n |-> list[Len(list) - n + i]]
    BY <2>1, <2>2, <2>3
  <2>4. CASE p = [i \in 1..n |-> list[Len(list) - i + 1]]
    BY <2>1, <2>2, <2>4
  <2> QED
    BY <1>2, <2>3, <2>4
<1>4. CASE k <= Len(list) - n
  <2>1. Len(p) = limit /\ DOMAIN p = 1..n
    BY <1>1, <1>2, <1>4
  <2>2. ASSUME NEW i \in 1..n PROVE p[i] > list[k]
    <3>1. PICK j \in 1..Len(list) : j > k /\ p[i] = list[j]
      <4>1. /\ Len(list) - n + i \in 1..Len(list) /\ Len(list) - n + i > k
            /\ Len(list) - i + 1 \in 1..Len(list) /\ Len(list) - i + 1 > k
        BY <1>1, <1>4
      <4> QED
        BY <1>2, <4>1
    <3>2. list[k] < list[j] /\ list[k] \in Nat /\ list[j] \in Nat
      BY <3>1 DEF Ascending
    <3> QED
      BY <3>1, <3>2
  <2> QED
    BY <2>1, <2>2
<1> QED
  BY <1>1, <1>3, <1>4

-----------------------------------------------------------------------------
\* A query and what it leads to.
Went(s) ==
  /\ pc[s] = "new" <=> query[s] = NoQuery
  /\ pc[s] \notin {"new", "done"} => query[s].route # "preflight"
  /\ pc[s] # "done" => answer[s] = "none"
  /\ pc[s] # "new" /\ query[s].route # "preflight" => trace[s] = TraceOf(s, query[s])
  /\ pc[s] = "panic" => query[s].route = "audit" /\ PageLimit(query[s].limit) >= Absurd

\* Who has left the chain has left a line, if lines are written at all.
Logged(s) ==
  InfoEnabled /\ pc[s] \in {"flush", "done"} /\ query[s].route # "preflight" /\ ~Panicked(s)
    => LineOf(s) \in accessLog

\* An event is that of its request.
Recorded(id) ==
  LET s == rows[id].of
  IN  /\ pc[s] \notin {"new", "handler", "panic"}
      /\ query[s].route \in {"invoke", "mcp"}
      /\ query[s].route = "invoke" =>
           rows[id].trace = trace[s] /\ rows[id].status = status[s]

Tracing ==
  /\ \A s \in Slots : Went(s) /\ Logged(s)
  /\ \A id \in DOMAIN rows : Recorded(id)

\* The errors still owed are among the requests counted.
OweError == {s \in Slots : pc[s] = "errors"}

ErrorsBehind == httpErrors + Cardinality(OweError) <= httpRequests

\* What a scrape has read.
Reading(s) ==
  /\ pc[s] = "new" => seen[s] = <<>>
  /\ pc[s] = "handler" => Len(seen[s]) < 2
  /\ Len(seen[s]) <= 2
  /\ Len(seen[s]) > 0 => seen[s][1] <= httpRequests
  /\ Len(seen[s]) = 2 => seen[s][1] <= seen[s][2]

Scraping == ErrorsBehind /\ \A s \in Slots : Reading(s)

\* The requests and the errors that are counted and have no line yet.
OweLine == {s \in Slots : pc[s] \in {"errors", "log"}}
OweErrorLine == {s \in Slots : pc[s] = "log" /\ IsError(status[s])}

ErrorsOwed == \A s \in Slots : pc[s] = "errors" => IsError(status[s])

Ledger ==
  /\ IsFiniteSet(accessLog)
  /\ \A line \in accessLog : pc[line.of] \in {"flush", "done"}
  /\ httpRequests = Cardinality(accessLog) + Cardinality(OweLine)
  /\ httpErrors = Cardinality(ErrorLines) + Cardinality(OweErrorLine)

Books == ErrorsOwed /\ IF InfoEnabled THEN Ledger ELSE accessLog = {}

\* The readers of the log that were given a page, and what it must hold.
Reader(s) ==
  /\ pc[s] \notin {"new", "handler", "panic"}
  /\ query[s] # NoQuery /\ query[s].route = "audit" /\ status[s] = 200

Holds(s) ==
  \A id \in acknowledged[s] :
    \/ \E i \in DOMAIN page[s] : page[s][i] = id
    \/ /\ Len(page[s]) = PageLimit(query[s].limit)
       /\ \A i \in DOMAIN page[s] : page[s][i] > id

Listing ==
  \A s \in Slots : acknowledged[s] \subseteq committed /\ (Reader(s) => Holds(s))

Inv == TypeOK /\ Tracing /\ Scraping /\ Books /\ Listing

USE QueriesAssumption DEF QueriesAssumption, logs

\* Sets of requests and of lines are finite and have a size.
LEMMA Sizes ==
  ASSUME NEW P \in SUBSET Slots
  PROVE  IsFiniteSet(P) /\ Cardinality(P) \in Nat
BY FS_Subset, FS_CardinalityType

\* Nothing has happened.
LEMMA InitInv == Init => Inv
<1> SUFFICES ASSUME Init PROVE Inv
  OBVIOUS
<1>1. TypeOK
  <2>1. query \in [Slots -> Queries \union {NoQuery}] /\ trace \in [Slots -> Traces]
    BY DEF Init, Traces
  <2>2. seen \in [Slots -> Seq(Nat)]
    BY DEF Init
  <2>3. rows \in Seq(Entries) /\ committed \subseteq DOMAIN rows
    BY DEF Init
  <2> QED
    BY <2>1, <2>2, <2>3 DEF Init, TypeOK, Labels
<1>2. Tracing
  BY DEF Init, Tracing, Went, Logged
<1>3. OweError = {} /\ OweLine = {} /\ OweErrorLine = {} /\ ErrorLines = {}
  BY DEF Init, OweError, OweLine, OweErrorLine, ErrorLines
<1>4. Scraping
  BY <1>3, FS_EmptySet DEF Init, Scraping, ErrorsBehind, Reading
<1>5. Books
  BY <1>3, FS_EmptySet DEF Init, Books, ErrorsOwed, Ledger
<1>6. Listing
  BY DEF Init, Listing, Reader
<1> QED
  BY <1>1, <1>2, <1>4, <1>5, <1>6 DEF Inv

(***************************************************************************)
(* Every action keeps the types.                                              *)
(***************************************************************************)
LEMMA StepType == Inv /\ [Next]_vars => TypeOK'
<1> SUFFICES ASSUME TypeOK, Tracing, Scraping, [Next]_vars PROVE TypeOK'
  BY DEF Inv
<1> USE DEF TypeOK
<1>1. ASSUME NEW s \in Slots, NEW q \in Queries, Arrive(s, q) PROVE TypeOK'
  <2>1. TraceOf(s, q) \in Traces
    BY DEF TraceOf, Traces
  <2>2. query' \in [Slots -> Queries \union {NoQuery}]
    BY <1>1 DEF Arrive
  <2>3. CASE q.route = "preflight"
    <3>1. /\ pc' = [pc EXCEPT ![s] = "done"] /\ status' = [status EXCEPT ![s] = 204]
          /\ answer' = [answer EXCEPT ![s] = "sent"]
          /\ UNCHANGED <<trace, acknowledged>>
      BY <1>1, <2>3 DEF Arrive, Goto
    <3>2. "done" \in Labels
      BY DEF Labels
    <3> QED
      BY <1>1, <2>2, <3>1, <3>2 DEF Arrive, counters
  <2>4. CASE q.route # "preflight"
    <3>1. /\ pc' = [pc EXCEPT ![s] = "handler"] /\ trace' = [trace EXCEPT ![s] = TraceOf(s, q)]
          /\ UNCHANGED <<status, answer>>
      BY <1>1, <2>4 DEF Arrive, Goto
    <3>2. "handler" \in Labels
      BY DEF Labels
    <3>3. DOMAIN acknowledged' = Slots
      <4> DEFINE before == {id \in committed : pc[rows[id].of] = "done"}
      <4>1. acknowledged' = [acknowledged EXCEPT ![s] = before]
        BY <1>1, <2>4 DEF Arrive
      <4> HIDE DEF before
      <4> QED
        BY <4>1
    <3> QED
      BY <1>1, <2>1, <2>2, <3>1, <3>2, <3>3 DEF Arrive, counters
  <2> QED
    BY <2>3, <2>4
<1>2. ASSUME NEW s \in Slots, WriteTimeout(s) PROVE TypeOK'
  BY <1>2 DEF WriteTimeout, counters, audit
<1>3. ASSUME NEW s \in Slots, NEW code \in Refusals, Refuse(s, code) PROVE TypeOK'
  BY <1>3 DEF Refuse, Handled, Goto, Labels, counters, audit
<1>4. ASSUME NEW s \in Slots, NEW code \in Results, AppendEvent(s, code) PROVE TypeOK'
  <2> DEFINE row == [trace  |-> IF query[s].route = "mcp" THEN NoTrace ELSE trace[s],
                     status |-> code, of |-> s]
  <2>1. row \in Entries
    BY DEF Entries, Traces
  <2>2. rows' = Append(rows, row)
    BY <1>4 DEF AppendEvent
  <2> HIDE DEF row
  <2>3. rows' \in Seq(Entries) /\ Len(rows') = Len(rows) + 1 /\ Len(rows) \in Nat
    BY <2>1, <2>2
  <2>4. committed' \subseteq committed \union {Len(rows) + 1}
    BY <1>4 DEF AppendEvent
  <2>5. DOMAIN rows = 1..Len(rows) /\ DOMAIN rows' = 1..(Len(rows) + 1)
    BY <2>3
  <2>6. committed' \subseteq DOMAIN rows'
    <3>1. \A n \in Nat : 1..n \subseteq 1..(n + 1) /\ n + 1 \in 1..(n + 1)
      OBVIOUS
    <3>2. committed \subseteq 1..Len(rows)
      BY <2>5
    <3> QED
      BY <2>3, <2>4, <2>5, <3>1, <3>2
  <2>7. \E label \in {"commit", "count"} : pc' = [pc EXCEPT ![s] = label]
    BY <1>4 DEF AppendEvent, Goto
  <2>8. pc' \in [Slots -> Labels]
    BY <2>7 DEF Labels
  <2>9. status' \in [Slots -> Int]
    <3>1. status' = [status EXCEPT ![s] = IF query[s].route = "mcp" THEN 200 ELSE code]
      BY <1>4 DEF AppendEvent
    <3>2. (IF query[s].route = "mcp" THEN 200 ELSE code) \in Int
      OBVIOUS
    <3> QED
      BY <3>1, <3>2
  <2> QED
    BY <1>4, <2>3, <2>6, <2>8, <2>9 DEF AppendEvent, counters
<1>5. ASSUME NEW s \in Slots, Commit(s) PROVE TypeOK'
  <2>1. committed' \subseteq DOMAIN rows
    BY <1>5 DEF Commit
  <2> QED
    BY <1>5, <2>1 DEF Commit, Goto, Labels, counters
<1>6. ASSUME NEW s \in Slots, ListAudit(s) PROVE TypeOK'
  <2>1. \E label \in {"count", "panic"} : pc' = [pc EXCEPT ![s] = label]
    BY <1>6 DEF ListAudit, Handled, Goto
  <2>2. pc' \in [Slots -> Labels]
    BY <2>1 DEF Labels
  <2>3. status' = [status EXCEPT ![s] = 200] \/ status' = status
    BY <1>6 DEF ListAudit, Handled
  <2>4. DOMAIN page' = Slots
    BY <1>6 DEF ListAudit
  <2> QED
    BY <1>6, <2>2, <2>3, <2>4 DEF ListAudit, counters
<1>7. ASSUME NEW s \in Slots, Recover(s) PROVE TypeOK'
  BY <1>7 DEF Recover, Goto, Labels, counters, audit
<1>8. ASSUME NEW s \in Slots, LoadCounter(s) PROVE TypeOK'
  <2>1. \E value \in {httpErrors, httpRequests} :
          seen' = [seen EXCEPT ![s] = Append(seen[s], value)]
    BY <1>8 DEF LoadCounter
  <2>2. seen' \in [Slots -> Seq(Nat)]
    BY <2>1
  <2>3. pc' = [pc EXCEPT ![s] = "count"] \/ pc' = pc
    BY <1>8 DEF LoadCounter, Handled, Goto
  <2>4. pc' \in [Slots -> Labels]
    BY <2>3 DEF Labels
  <2>5. status' = [status EXCEPT ![s] = 200] \/ status' = status
    BY <1>8 DEF LoadCounter, Handled
  <2> QED
    BY <1>8, <2>2, <2>4, <2>5 DEF LoadCounter, audit
<1>9. ASSUME NEW s \in Slots, CountRequest(s) PROVE TypeOK'
  BY <1>9 DEF CountRequest, Goto, Labels, audit
<1>10. ASSUME NEW s \in Slots, CountError(s) PROVE TypeOK'
  BY <1>10 DEF CountError, Goto, Labels, audit
<1>11. ASSUME NEW s \in Slots, LogAccess(s) PROVE TypeOK'
  <2>1. accessLog' \subseteq Entries
    BY <1>11 DEF LogAccess, LineOf, Entries
  <2> QED
    BY <1>11, <2>1 DEF LogAccess, Goto, Labels, counters, audit
<1>12. ASSUME NEW s \in Slots, Flush(s) PROVE TypeOK'
  BY <1>12 DEF Flush, Goto, Labels, counters, audit
<1>13. CASE UNCHANGED vars
  BY <1>13 DEF vars
<1> QED
  BY <1>1, <1>2, <1>3, <1>4, <1>5, <1>6, <1>7, <1>8, <1>9, <1>10, <1>11, <1>12, <1>13
     DEF Next

-----------------------------------------------------------------------------
(***************************************************************************)
(* What a step of request s leaves alone of the others: their place in the     *)
(* chain, what they asked, their trace, status and answer.                      *)
(***************************************************************************)
Untouched(r) ==
  /\ pc'[r] = pc[r] /\ query'[r] = query[r] /\ trace'[r] = trace[r]
  /\ status'[r] = status[r] /\ answer'[r] = answer[r] /\ seen'[r] = seen[r]

StepOf(s) ==
  \/ \E q \in Queries : Arrive(s, q)
  \/ WriteTimeout(s)
  \/ \E code \in Refusals : Refuse(s, code)
  \/ \E code \in Results : AppendEvent(s, code)
  \/ Commit(s) \/ ListAudit(s) \/ Recover(s) \/ LoadCounter(s)
  \/ CountRequest(s) \/ CountError(s) \/ LogAccess(s) \/ Flush(s)

\* A request steps for itself.
LEMMA OthersUntouched ==
  ASSUME TypeOK, NEW s \in Slots, StepOf(s), NEW r \in Slots, r # s
  PROVE  Untouched(r)
<1> USE DEF TypeOK, Untouched
<1>1. ASSUME NEW q \in Queries, Arrive(s, q) PROVE Untouched(r)
  BY <1>1 DEF Arrive, Goto, counters
<1>2. CASE WriteTimeout(s) \/ Commit(s) \/ Recover(s)
  BY <1>2 DEF WriteTimeout, Commit, Recover, Goto, counters
<1>3. ASSUME NEW code \in Refusals, Refuse(s, code) PROVE Untouched(r)
  BY <1>3 DEF Refuse, Handled, Goto, counters
<1>4. ASSUME NEW code \in Results, AppendEvent(s, code) PROVE Untouched(r)
  BY <1>4 DEF AppendEvent, Goto, counters
<1>5. CASE ListAudit(s)
  BY <1>5 DEF ListAudit, Handled, Goto, counters
<1>6. CASE LoadCounter(s)
  BY <1>6 DEF LoadCounter, Handled, Goto
<1>7. CASE CountRequest(s) \/ CountError(s) \/ LogAccess(s) \/ Flush(s)
  BY <1>7 DEF CountRequest, CountError, LogAccess, Flush, Goto, counters
<1> QED
  BY <1>1, <1>2, <1>3, <1>4, <1>5, <1>6, <1>7 DEF StepOf

\* No line is ever lost.
LEMMA LogGrows ==
  ASSUME NEW s \in Slots, StepOf(s)
  PROVE  accessLog \subseteq accessLog'
BY DEF StepOf, Arrive, WriteTimeout, Refuse, AppendEvent, Commit, ListAudit, Recover,
       LoadCounter, CountRequest, CountError, LogAccess, Flush, logs

\* The level is what New was given.
LEMMA LevelStays ==
  ASSUME NEW s \in Slots, StepOf(s)
  PROVE  logLevel' = logLevel /\ InfoEnabled' = InfoEnabled
<1>1. logLevel' = logLevel
  BY DEF StepOf, Arrive, WriteTimeout, Refuse, AppendEvent, Commit, ListAudit, Recover,
         LoadCounter, CountRequest, CountError, LogAccess, Flush, logs
<1> QED
  BY <1>1 DEF InfoEnabled

\* The step of a request keeps what is known of itself.
LEMMA StepWent ==
  ASSUME TypeOK, NEW s \in Slots, Went(s), StepOf(s)
  PROVE  Went(s)'
<1> USE DEF TypeOK, Went, Goto
<1>1. ASSUME NEW q \in Queries, Arrive(s, q) PROVE Went(s)'
  <2>1. query'[s] = q /\ q # NoQuery /\ pc[s] = "new" /\ answer[s] = "none"
    BY <1>1 DEF Arrive
  <2>2. CASE q.route = "preflight"
    BY <1>1, <2>1, <2>2 DEF Arrive
  <2>3. CASE q.route # "preflight"
    <3>1. pc'[s] = "handler" /\ trace'[s] = TraceOf(s, q) /\ answer'[s] = "none"
      BY <1>1, <2>1, <2>3 DEF Arrive
    <3> QED
      BY <2>1, <2>3, <3>1 DEF TraceOf
  <2> QED
    BY <2>2, <2>3
<1>2. CASE WriteTimeout(s)
  BY <1>2 DEF WriteTimeout, TraceOf
<1>3. ASSUME NEW code \in Refusals, Refuse(s, code) PROVE Went(s)'
  BY <1>3 DEF Refuse, Handled, TraceOf
<1>4. ASSUME NEW code \in Results, AppendEvent(s, code) PROVE Went(s)'
  <2>1. pc'[s] \in {"commit", "count"} /\ pc[s] = "handler"
    BY <1>4 DEF AppendEvent
  <2>2. UNCHANGED <<query, trace, answer>>
    BY <1>4 DEF AppendEvent
  <2> QED
    BY <2>1, <2>2 DEF TraceOf
<1>5. CASE Commit(s)
  BY <1>5 DEF Commit, TraceOf
<1>6. CASE ListAudit(s)
  <2>1. UNCHANGED <<query, trace, answer>> /\ pc[s] = "handler"
    BY <1>6 DEF ListAudit
  <2>2. \/ pc'[s] = "count"
        \/ pc'[s] = "panic" /\ query[s].route = "audit"
           /\ ~(PageLimit(query[s].limit) < Absurd)
    BY <1>6 DEF ListAudit, Handled
  <2>3. PageLimit(query[s].limit) \in Int
    BY <2>1, DefaultLimitAssumption DEF PageLimit
  <2>4. pc'[s] = "panic" => PageLimit(query[s].limit) >= Absurd
    BY <2>2, <2>3
  <2> QED
    BY <2>1, <2>2, <2>4 DEF TraceOf
<1>7. CASE Recover(s)
  BY <1>7 DEF Recover, TraceOf
<1>8. CASE LoadCounter(s)
  <2>1. UNCHANGED <<query, trace, answer>> /\ pc[s] = "handler" /\ pc'[s] \in {"handler", "count"}
    BY <1>8 DEF LoadCounter, Handled
  <2> QED
    BY <2>1 DEF TraceOf
<1>9. CASE CountRequest(s)
  BY <1>9 DEF CountRequest, TraceOf
<1>10. CASE CountError(s) \/ LogAccess(s) \/ Flush(s)
  BY <1>10 DEF CountError, LogAccess, Flush, TraceOf
<1> QED
  BY <1>1, <1>2, <1>3, <1>4, <1>5, <1>6, <1>7, <1>8, <1>9, <1>10 DEF StepOf

\* The step of a request leaves its line when it leaves the chain.
LEMMA StepLogged ==
  ASSUME TypeOK, NEW s \in Slots, Went(s), Logged(s), StepOf(s)
  PROVE  Logged(s)'
<1>0. InfoEnabled' = InfoEnabled
  BY LevelStays
<1> USE <1>0 DEF TypeOK, Logged, Goto, logs
<1>1. CASE LogAccess(s)
  BY <1>1 DEF LogAccess, LineOf
<1>2. CASE Flush(s)
  BY <1>2 DEF Flush, LineOf, Panicked
<1>3. CASE Recover(s)
  BY <1>3 DEF Recover, LineOf, Panicked, Went
<1>4. CASE \E q \in Queries : Arrive(s, q)
  <2>1. PICK q \in Queries : Arrive(s, q)
    BY <1>4
  <2>2. query'[s] = q
    BY <2>1 DEF Arrive
  <2>3. q.route # "preflight" => pc'[s] = "handler"
    BY <2>1 DEF Arrive
  <2> QED
    BY <2>2, <2>3
<1>5. CASE ListAudit(s)
  <2>1. pc'[s] \in {"count", "panic"}
    BY <1>5 DEF ListAudit, Handled
  <2> QED
    BY <2>1
<1>6. CASE LoadCounter(s)
  <2>1. pc'[s] \in {"count", "handler"}
    BY <1>6 DEF LoadCounter, Handled
  <2> QED
    BY <2>1
<1>7. CASE \E code \in Results : AppendEvent(s, code)
  <2>1. pc'[s] \in {"count", "commit"}
    BY <1>7 DEF AppendEvent
  <2> QED
    BY <2>1
<1>8. CASE \E code \in Refusals : Refuse(s, code)
  BY <1>8 DEF Refuse, Handled
<1>9. CASE Commit(s)
  BY <1>9 DEF Commit
<1>10. CASE CountRequest(s) \/ CountError(s)
  <2>1. pc'[s] \in {"errors", "log"}
    BY <1>10 DEF CountRequest, CountError
  <2> QED
    BY <2>1
<1>11. CASE WriteTimeout(s)
  BY <1>11 DEF WriteTimeout
<1> QED
  BY <1>1, <1>2, <1>3, <1>4, <1>5, <1>6, <1>7, <1>8, <1>9, <1>10, <1>11 DEF StepOf

\* An event stays that of its request, and a new one is.
LEMMA StepRecorded ==
  ASSUME TypeOK, Tracing, NEW s \in Slots, StepOf(s)
  PROVE  \A id \in DOMAIN rows' : Recorded(id)'
<1> USE DEF TypeOK
<1>1. ASSUME NEW id \in DOMAIN rows, rows'[id] = rows[id] PROVE Recorded(id)'
  <2> DEFINE r == rows[id].of
  <2>0. rows[id] \in Entries
    OBVIOUS
  <2>1. r \in Slots /\ Recorded(id)
    BY <2>0 DEF Entries, Tracing
  <2>2. CASE r # s
    BY <1>1, <2>1, <2>2, OthersUntouched DEF Recorded, Untouched
  <2>3. CASE r = s
    <3>1. pc[s] \notin {"new", "handler", "panic"}
      BY <2>1, <2>3 DEF Recorded
    <3>2. Commit(s) \/ CountRequest(s) \/ CountError(s) \/ LogAccess(s) \/ Flush(s)
      BY <3>1 DEF StepOf, Arrive, WriteTimeout, Refuse, AppendEvent, ListAudit, Recover,
                  LoadCounter
    <3>3. UNCHANGED <<query, trace, status>>
      BY <3>2 DEF Commit, CountRequest, CountError, LogAccess, Flush
    <3>4. pc'[s] \in {"count", "errors", "log", "flush", "done"}
      BY <3>2 DEF Commit, CountRequest, CountError, LogAccess, Flush, Goto
    <3> QED
      BY <1>1, <2>1, <2>3, <3>3, <3>4 DEF Recorded
  <2> QED
    BY <2>2, <2>3
<1>2. CASE \E code \in Results : AppendEvent(s, code)
  <2>1. PICK code \in Results : AppendEvent(s, code)
    BY <1>2
  <2> DEFINE row == [trace  |-> IF query[s].route = "mcp" THEN NoTrace ELSE trace[s],
                     status |-> code, of |-> s]
  <2>2. rows' = Append(rows, row)
    BY <2>1 DEF AppendEvent
  <2>3. /\ UNCHANGED <<query, trace>> /\ query[s].route \in {"invoke", "mcp"}
        /\ status'[s] = IF query[s].route = "mcp" THEN 200 ELSE code
    BY <2>1 DEF AppendEvent
  <2>4. pc'[s] \in {"commit", "count"}
    BY <2>1 DEF AppendEvent, Goto
  <2>5. /\ row.of = s
        /\ query[s].route = "invoke" => row.trace = trace[s] /\ row.status = code
    OBVIOUS
  <2> HIDE DEF row
  <2>6. /\ \A id \in DOMAIN rows : rows'[id] = rows[id]
        /\ \A id \in DOMAIN rows' : id \in DOMAIN rows \/ rows'[id] = row
    <3>1. /\ Len(rows') = Len(rows) + 1 /\ DOMAIN rows = 1..Len(rows)
          /\ DOMAIN rows' = 1..Len(rows') /\ Len(rows) \in Nat
          /\ \A i \in 1..Len(rows) : rows'[i] = rows[i]
          /\ rows'[Len(rows) + 1] = row
      BY <2>2
    <3> QED
      BY <3>1
  <2>7. ASSUME NEW id, rows'[id] = row PROVE Recorded(id)'
    BY <2>3, <2>4, <2>5, <2>7 DEF Recorded
  <2> QED
    BY <1>1, <2>6, <2>7
<1>3. CASE rows' = rows
  BY <1>1, <1>3
<1> QED
  BY <1>2, <1>3
     DEF StepOf, Arrive, WriteTimeout, Refuse, Commit, ListAudit, Recover, LoadCounter,
         CountRequest, CountError, LogAccess, Flush, audit

\* Every step keeps the traces requests leave.
LEMMA StepTracing ==
  ASSUME TypeOK, Tracing, NEW s \in Slots, StepOf(s)
  PROVE  Tracing'
<1>1. ASSUME NEW r \in Slots PROVE (Went(r) /\ Logged(r))'
  <2>1. CASE r = s
    BY <2>1, StepWent, StepLogged DEF Tracing
  <2>2. CASE r # s
    <3>1. Untouched(r) /\ Went(r) /\ Logged(r)
      BY <2>2, OthersUntouched DEF Tracing
    <3>2. accessLog \subseteq accessLog'
      BY LogGrows
    <3>3. InfoEnabled' = InfoEnabled
      BY LevelStays
    <3> QED
      BY <3>1, <3>2, <3>3 DEF Untouched, Went, Logged, LineOf, Panicked, TraceOf
  <2> QED
    BY <2>1, <2>2
<1> QED
  BY <1>1, StepRecorded DEF Tracing

-----------------------------------------------------------------------------
\* The steps that count nothing and write no line.
Plain(s) ==
  /\ UNCHANGED <<httpRequests, httpErrors, accessLog>>
  /\ pc[s] \notin {"errors", "log"} /\ pc'[s] \notin {"errors", "log"}
  /\ pc[s] \in {"flush", "done"} => pc'[s] \in {"flush", "done"}

\* All steps but three are plain.
LEMMA MostArePlain ==
  ASSUME TypeOK, NEW s \in Slots, StepOf(s)
  PROVE  CountRequest(s) \/ CountError(s) \/ LogAccess(s) \/ Plain(s)
<1> USE DEF TypeOK, Plain, Goto, counters
<1>1. ASSUME NEW q \in Queries, Arrive(s, q) PROVE Plain(s)
  <2>1. pc[s] = "new" /\ pc'[s] \in {"done", "handler"}
    BY <1>1 DEF Arrive
  <2> QED
    BY <1>1, <2>1 DEF Arrive
<1>2. CASE WriteTimeout(s) \/ Commit(s) \/ Recover(s) \/ Flush(s)
  BY <1>2 DEF WriteTimeout, Commit, Recover, Flush
<1>3. ASSUME NEW code \in Refusals, Refuse(s, code) PROVE Plain(s)
  BY <1>3 DEF Refuse, Handled
<1>4. ASSUME NEW code \in Results, AppendEvent(s, code) PROVE Plain(s)
  <2>1. pc[s] = "handler" /\ pc'[s] \in {"commit", "count"}
    BY <1>4 DEF AppendEvent
  <2> QED
    BY <1>4, <2>1 DEF AppendEvent
<1>5. CASE ListAudit(s)
  <2>1. pc[s] = "handler" /\ pc'[s] \in {"count", "panic"}
    BY <1>5 DEF ListAudit, Handled
  <2> QED
    BY <1>5, <2>1 DEF ListAudit
<1>6. CASE LoadCounter(s)
  <2>1. pc[s] = "handler" /\ pc'[s] \in {"count", "handler"}
    BY <1>6 DEF LoadCounter, Handled
  <2> QED
    BY <1>6, <2>1 DEF LoadCounter
<1> QED
  BY <1>1, <1>2, <1>3, <1>4, <1>5, <1>6 DEF StepOf

\* A scrape goes on reading as long as it is in its handler.
LEMMA StepReading ==
  ASSUME TypeOK, NEW s \in Slots, Reading(s), ErrorsBehind, StepOf(s)
  PROVE  Reading(s)'
<1> USE DEF TypeOK
<1>0. httpErrors <= httpRequests
  <2>1. Cardinality(OweError) \in Nat
    BY Sizes DEF OweError
  <2> QED
    BY <2>1 DEF ErrorsBehind
<1>1. CASE LoadCounter(s)
  <2> DEFINE value == IF ReadOrder[Len(seen[s]) + 1] = "errors"
                      THEN httpErrors ELSE httpRequests
  <2>1. /\ pc[s] = "handler" /\ UNCHANGED httpRequests
        /\ seen'[s] = Append(seen[s], value)
        /\ pc'[s] = IF Len(seen[s]) = 1 THEN "count" ELSE "handler"
    BY <1>1 DEF LoadCounter, Handled, Goto
  <2>2. Len(seen[s]) \in {0, 1} /\ seen[s] \in Seq(Nat)
    <3>1. seen[s] \in Seq(Nat) /\ Len(seen[s]) \in Nat
      OBVIOUS
    <3>2. Len(seen[s]) < 2
      BY <2>1 DEF Reading
    <3>3. \A k \in Nat : k < 2 => k \in {0, 1}
      OBVIOUS
    <3> QED
      BY <3>1, <3>2, <3>3
  <2>3. value \in Nat /\ value <= httpRequests
    BY <1>0
  <2>4. Len(seen[s]) = 1 => value = httpRequests
    BY DEF ReadOrder
  <2> HIDE DEF value
  <2>5. /\ Len(seen'[s]) = Len(seen[s]) + 1
        /\ Len(seen[s]) = 0 => seen'[s][1] = value
        /\ Len(seen[s]) = 1 => seen'[s][1] = seen[s][1] /\ seen'[s][2] = value
    BY <2>1, <2>2, <2>3
  <2> QED
    BY <2>1, <2>2, <2>3, <2>4, <2>5 DEF Reading
<1>2. CASE ~LoadCounter(s)
  <2>1. seen'[s] = seen[s] /\ seen[s] \in Seq(Nat)
    BY <1>2 DEF StepOf, Arrive, WriteTimeout, Refuse, AppendEvent, Commit, ListAudit,
                Recover, CountRequest, CountError, LogAccess, Flush, counters
  <2>2. httpRequests <= httpRequests' /\ httpRequests' \in Nat
    <3>1. CASE CountRequest(s)
      BY <3>1 DEF CountRequest
    <3>2. CASE CountError(s) \/ LogAccess(s) \/ Plain(s)
      BY <3>2 DEF CountError, LogAccess, Plain, counters
    <3> QED
      BY <3>1, <3>2, MostArePlain
  <2>3. pc'[s] # "new"
    BY <1>2 DEF StepOf, Arrive, WriteTimeout, Refuse, AppendEvent, Commit, ListAudit,
                Recover, CountRequest, CountError, LogAccess, Flush, Handled, Goto
  <2>4. pc'[s] = "handler" => pc[s] = "handler" \/ pc[s] = "new"
    BY <1>2 DEF StepOf, Arrive, WriteTimeout, Refuse, AppendEvent, Commit, ListAudit,
                Recover, CountRequest, CountError, LogAccess, Flush, Handled, Goto
  <2>5. seen[s] = <<>> => Len(seen[s]) = 0
    OBVIOUS
  <2>6. Len(seen[s]) > 0 => seen[s][1] \in Nat
    BY <2>1
  <2>7. pc'[s] = "handler" => Len(seen[s]) < 2
    BY <2>4, <2>5 DEF Reading
  <2> QED
    BY <2>1, <2>2, <2>3, <2>6, <2>7 DEF Reading
<1> QED
  BY <1>1, <1>2

\* Errors are counted only after their requests.
LEMMA StepErrorsBehind ==
  ASSUME TypeOK, ErrorsBehind, NEW s \in Slots, StepOf(s)
  PROVE  ErrorsBehind'
<1> USE DEF TypeOK
<1>1. \A r \in Slots : r # s => pc'[r] = pc[r]
  BY OthersUntouched DEF Untouched
<1>2. IsFiniteSet(OweError) /\ Cardinality(OweError) \in Nat
  BY Sizes DEF OweError
<1>3. CASE CountRequest(s)
  <2>1. OweError' = OweError \/ OweError' = OweError \union {s}
    <3>1. CASE pc'[s] = "errors"
      BY <1>1, <3>1 DEF OweError
    <3>2. CASE pc'[s] # "errors"
      <4>1. pc[s] # "errors"
        BY <1>3 DEF CountRequest
      <4> QED
        BY <1>1, <3>2, <4>1 DEF OweError
    <3> QED
      BY <3>1, <3>2
  <2>2. Cardinality(OweError') <= Cardinality(OweError) + 1 /\ Cardinality(OweError') \in Nat
    <3>1. Cardinality(OweError \union {s})
            = IF s \in OweError THEN Cardinality(OweError) ELSE Cardinality(OweError) + 1
      BY <1>2, FS_AddElement
    <3>2. Cardinality(OweError') \in {Cardinality(OweError), Cardinality(OweError) + 1}
      BY <2>1, <3>1
    <3>3. \A n \in Nat : \A k \in {n, n + 1} : k \in Nat /\ k <= n + 1
      OBVIOUS
    <3> QED
      BY <1>2, <3>2, <3>3
  <2>3. httpRequests' = httpRequests + 1 /\ httpErrors' = httpErrors
    BY <1>3 DEF CountRequest
  <2> QED
    BY <1>2, <2>2, <2>3 DEF ErrorsBehind
<1>4. CASE CountError(s)
  <2>1. OweError' = OweError \ {s} /\ s \in OweError
    BY <1>1, <1>4 DEF OweError, CountError, Goto
  <2>2. Cardinality(OweError') = Cardinality(OweError) - 1
    BY <1>2, <2>1, FS_RemoveElement
  <2>3. httpRequests' = httpRequests /\ httpErrors' = httpErrors + 1
    BY <1>4 DEF CountError
  <2> QED
    BY <1>2, <2>2, <2>3 DEF ErrorsBehind
<1>5. CASE LogAccess(s) \/ Plain(s)
  <2>1. pc[s] # "errors" /\ pc'[s] # "errors" /\ UNCHANGED <<httpRequests, httpErrors>>
    BY <1>5 DEF LogAccess, Plain, Goto, counters
  <2>2. OweError' = OweError
    BY <1>1, <2>1 DEF OweError
  <2> QED
    BY <2>1, <2>2 DEF ErrorsBehind
<1> QED
  BY <1>3, <1>4, <1>5, MostArePlain

LEMMA StepScraping ==
  ASSUME TypeOK, Scraping, NEW s \in Slots, StepOf(s)
  PROVE  Scraping'
<1>1. ASSUME NEW r \in Slots PROVE Reading(r)'
  <2>1. CASE r = s
    BY <2>1, StepReading DEF Scraping
  <2>2. CASE r # s
    <3>1. Untouched(r) /\ Reading(r) /\ seen[r] \in Seq(Nat)
      BY <2>2, OthersUntouched DEF Scraping, TypeOK
    <3>2. httpRequests <= httpRequests' /\ httpRequests \in Nat /\ httpRequests' \in Nat
      <4>1. CASE CountRequest(s)
        BY <4>1 DEF CountRequest, TypeOK
      <4>2. CASE CountError(s) \/ LogAccess(s) \/ Plain(s)
        BY <4>2 DEF CountError, LogAccess, Plain, counters, TypeOK
      <4> QED
        BY <4>1, <4>2, MostArePlain
    <3>3. Len(seen[r]) > 0 => seen[r][1] \in Nat
      BY <3>1
    <3> QED
      BY <3>1, <3>2, <3>3 DEF Untouched, Reading
  <2> QED
    BY <2>1, <2>2
<1> QED
  BY <1>1, StepErrorsBehind DEF Scraping

\* Who is about to count an error has one.
LEMMA StepErrorsOwed ==
  ASSUME TypeOK, ErrorsOwed, NEW s \in Slots, StepOf(s)
  PROVE  ErrorsOwed'
<1> USE DEF TypeOK, ErrorsOwed
<1>1. \A r \in Slots : r # s => pc'[r] = pc[r] /\ status'[r] = status[r]
  BY OthersUntouched DEF Untouched
<1>2. CASE CountRequest(s)
  BY <1>1, <1>2 DEF CountRequest, Goto
<1>3. CASE CountError(s) \/ LogAccess(s)
  BY <1>1, <1>3 DEF CountError, LogAccess, Goto
<1>4. CASE Plain(s)
  BY <1>1, <1>4 DEF Plain
<1> QED
  BY <1>2, <1>3, <1>4, MostArePlain

\* Every step keeps the counters and the lines that are written in step.
LEMMA StepLedger ==
  ASSUME TypeOK, ErrorsOwed, Ledger, InfoEnabled, NEW s \in Slots, StepOf(s)
  PROVE  Ledger'
<1> USE DEF TypeOK
<1>1. \A r \in Slots : r # s => pc'[r] = pc[r] /\ status'[r] = status[r]
  BY OthersUntouched DEF Untouched
<1>2. /\ IsFiniteSet(accessLog) /\ Cardinality(accessLog) \in Nat
      /\ IsFiniteSet(ErrorLines) /\ Cardinality(ErrorLines) \in Nat
  BY FS_Subset, FS_CardinalityType DEF Ledger, ErrorLines
<1>3. /\ IsFiniteSet(OweLine) /\ Cardinality(OweLine) \in Nat
      /\ IsFiniteSet(OweErrorLine) /\ Cardinality(OweErrorLine) \in Nat
  BY Sizes DEF OweLine, OweErrorLine
<1>4. \A line \in accessLog : line.of \in Slots /\ pc[line.of] \in {"flush", "done"}
  BY DEF Ledger, Entries
<1>5. CASE CountRequest(s)
  <2>1. /\ pc[s] = "count" /\ status'[s] = status[s]
        /\ pc'[s] = IF IsError(status[s]) THEN "errors" ELSE "log"
        /\ httpRequests' = httpRequests + 1 /\ httpErrors' = httpErrors
        /\ accessLog' = accessLog
    BY <1>5 DEF CountRequest, Goto
  <2>2. OweLine' = OweLine \union {s} /\ s \notin OweLine
    BY <1>1, <2>1 DEF OweLine
  <2>3. OweErrorLine' = OweErrorLine
    BY <1>1, <2>1 DEF OweErrorLine
  <2>4. Cardinality(OweLine') = Cardinality(OweLine) + 1
    BY <1>3, <2>2, FS_AddElement
  <2>5. ErrorLines' = ErrorLines
    BY <2>1 DEF ErrorLines
  <2>6. \A line \in accessLog' : pc'[line.of] \in {"flush", "done"}
    BY <1>1, <1>4, <2>1
  <2> QED
    BY <1>2, <1>3, <2>1, <2>3, <2>4, <2>5, <2>6 DEF Ledger
<1>6. CASE CountError(s)
  <2>1. /\ pc[s] = "errors" /\ status'[s] = status[s] /\ pc'[s] = "log"
        /\ httpRequests' = httpRequests /\ httpErrors' = httpErrors + 1
        /\ accessLog' = accessLog
    BY <1>6 DEF CountError, Goto
  <2>2. OweLine' = OweLine
    BY <1>1, <2>1 DEF OweLine
  <2>3. OweErrorLine' = OweErrorLine \union {s} /\ s \notin OweErrorLine
    BY <1>1, <2>1 DEF OweErrorLine, ErrorsOwed
  <2>4. Cardinality(OweErrorLine') = Cardinality(OweErrorLine) + 1
    BY <1>3, <2>3, FS_AddElement
  <2>5. ErrorLines' = ErrorLines
    BY <2>1 DEF ErrorLines
  <2>6. \A line \in accessLog' : pc'[line.of] \in {"flush", "done"}
    BY <1>1, <1>4, <2>1
  <2> QED
    BY <1>2, <1>3, <2>1, <2>2, <2>4, <2>5, <2>6 DEF Ledger
<1>7. CASE LogAccess(s)
  <2> DEFINE line == LineOf(s)
  <2>1. /\ pc[s] = "log" /\ status'[s] = status[s] /\ pc'[s] = "flush"
        /\ httpRequests' = httpRequests /\ httpErrors' = httpErrors
        /\ accessLog' = accessLog \union {line}
    BY <1>7 DEF LogAccess, Goto, counters
  <2>2. line.of = s /\ line.status = status[s] /\ line \notin accessLog
    BY <1>4, <2>1 DEF LineOf
  <2> HIDE DEF line
  <2>3. /\ IsFiniteSet(accessLog') /\ Cardinality(accessLog') = Cardinality(accessLog) + 1
    BY <1>2, <2>1, <2>2, FS_AddElement
  <2>4. OweLine' = OweLine \ {s} /\ s \in OweLine
    BY <1>1, <2>1 DEF OweLine
  <2>5. Cardinality(OweLine') = Cardinality(OweLine) - 1
    BY <1>3, <2>4, FS_RemoveElement
  <2>6. Cardinality(ErrorLines') + Cardinality(OweErrorLine')
          = Cardinality(ErrorLines) + Cardinality(OweErrorLine)
    <3>1. CASE IsError(status[s])
      <4>1. ErrorLines' = ErrorLines \union {line} /\ line \notin ErrorLines
        BY <2>1, <2>2, <3>1 DEF ErrorLines, IsError
      <4>2. OweErrorLine' = OweErrorLine \ {s} /\ s \in OweErrorLine
        BY <1>1, <2>1, <3>1 DEF OweErrorLine
      <4> QED
        <5>1. Cardinality(ErrorLines') = Cardinality(ErrorLines) + 1
          BY <1>2, <4>1, FS_AddElement
        <5>2. Cardinality(OweErrorLine') = Cardinality(OweErrorLine) - 1
          BY <1>3, <4>2, FS_RemoveElement
        <5> QED
          BY <1>2, <1>3, <5>1, <5>2
    <3>2. CASE ~IsError(status[s])
      <4>1. ErrorLines' = ErrorLines
        BY <2>1, <2>2, <3>2 DEF ErrorLines, IsError
      <4>2. OweErrorLine' = OweErrorLine
        BY <1>1, <2>1, <3>2 DEF OweErrorLine
      <4> QED
        BY <4>1, <4>2
    <3> QED
      BY <3>1, <3>2
  <2>7. \A l \in accessLog' : pc'[l.of] \in {"flush", "done"}
    BY <1>1, <1>4, <2>1, <2>2
  <2>9. /\ httpRequests' = Cardinality(accessLog') + Cardinality(OweLine')
        /\ httpErrors' = Cardinality(ErrorLines') + Cardinality(OweErrorLine')
    BY <1>2, <1>3, <2>1, <2>3, <2>5, <2>6 DEF Ledger
  <2> QED
    BY <2>3, <2>7, <2>9 DEF Ledger
<1>8. CASE Plain(s)
  <2>1. OweLine' = OweLine /\ OweErrorLine' = OweErrorLine
    BY <1>1, <1>8 DEF Plain, OweLine, OweErrorLine
  <2>2. ErrorLines' = ErrorLines
    BY <1>8 DEF Plain, ErrorLines
  <2>3. \A line \in accessLog' : pc'[line.of] \in {"flush", "done"}
    BY <1>1, <1>4, <1>8 DEF Plain
  <2> QED
    BY <1>8, <2>1, <2>2, <2>3 DEF Plain, Ledger
<1> QED
  BY <1>5, <1>6, <1>7, <1>8, MostArePlain

LEMMA StepBooks ==
  ASSUME TypeOK, Books, NEW s \in Slots, StepOf(s)
  PROVE  Books'
<1>1. InfoEnabled' = InfoEnabled
  BY LevelStays
<1>2. ErrorsOwed'
  BY StepErrorsOwed DEF Books
<1>3. CASE InfoEnabled
  BY <1>1, <1>2, <1>3, StepLedger DEF Books
<1>4. CASE ~InfoEnabled
  <2>1. accessLog' = accessLog
    BY <1>4, MostArePlain DEF Plain, CountRequest, CountError, LogAccess, logs
  <2> QED
    BY <1>1, <1>2, <1>4, <2>1 DEF Books
<1> QED
  BY <1>3, <1>4

-----------------------------------------------------------------------------
\* What a request is given when it asks for the log shows what was acknowledged.
LEMMA ReadersHold ==
  ASSUME TypeOK, Tracing, Listing, NEW s \in Slots, ListAudit(s), pc'[s] # "panic"
  PROVE  Holds(s)'
<1> USE DEF TypeOK
<1> DEFINE limit == PageLimit(query[s].limit)
<1>1. query[s] \in Queries
  BY DEF ListAudit, Tracing, Went
<1>2. limit \in Nat \ {0}
  BY <1>1, LimitIsPositive
<1>3. /\ committed \in SUBSET Nat /\ IsFiniteSet(committed)
      /\ acknowledged[s] \subseteq committed
  <2>1. DOMAIN rows = 1..Len(rows) /\ Len(rows) \in Nat
    OBVIOUS
  <2>2. IsFiniteSet(1..Len(rows))
    BY <2>1, FS_Interval
  <2> QED
    BY <2>1, <2>2, FS_Subset DEF Listing
<1>4. Visible \in Seq(Nat) /\ Ascending(Visible)
      /\ \A id \in committed : \E k \in 1..Len(Visible) : Visible[k] = id
  <2>1. /\ Visible \in Seq(committed) /\ Ascending(Visible)
        /\ \A id \in committed : \E k \in 1..Len(Visible) : Visible[k] = id
    BY <1>3, VisibleRows
  <2> QED
    BY <1>3, <2>1
<1>5. page'[s] = MemoryList(Visible, limit) \/ page'[s] = SqlList(Visible, limit)
  BY DEF ListAudit, Goto
<1>6. query' = query /\ acknowledged' = acknowledged
  BY DEF ListAudit
<1> HIDE DEF limit
<1>7. ASSUME NEW id \in acknowledged[s]
      PROVE  \/ \E i \in DOMAIN page'[s] : page'[s][i] = id
             \/ Len(page'[s]) = limit /\ \A i \in DOMAIN page'[s] : page'[s][i] > id
  <2>1. PICK k \in 1..Len(Visible) : Visible[k] = id
    BY <1>3, <1>4
  <2> QED
    BY <1>2, <1>4, <1>5, <2>1, OnPageOrOlder
<1> QED
  BY <1>6, <1>7 DEF Holds, limit

\* Nobody else's page, and nobody else's history.
LEMMA OthersListing ==
  ASSUME TypeOK, NEW s \in Slots, StepOf(s), NEW r \in Slots, r # s
  PROVE  page'[r] = page[r] /\ acknowledged'[r] = acknowledged[r]
<1> USE DEF TypeOK
<1>1. CASE \E q \in Queries : Arrive(s, q)
  BY <1>1 DEF Arrive
<1>2. CASE ListAudit(s)
  BY <1>2 DEF ListAudit
<1>3. CASE ~ListAudit(s) /\ ~\E q \in Queries : Arrive(s, q)
  BY <1>3 DEF StepOf, WriteTimeout, Refuse, AppendEvent, Commit, Recover, LoadCounter,
              CountRequest, CountError, LogAccess, Flush, audit
<1> QED
  BY <1>1, <1>2, <1>3

\* A committed row stays so.
LEMMA CommittedStays ==
  ASSUME NEW s \in Slots, StepOf(s)
  PROVE  committed \subseteq committed'
BY DEF StepOf, Arrive, WriteTimeout, Refuse, AppendEvent, Commit, ListAudit, Recover,
       LoadCounter, CountRequest, CountError, LogAccess, Flush, audit, counters

\* A request that did not just ask for the log is a reader only if it was one.
LEMMA OldReader ==
  ASSUME TypeOK, NEW s \in Slots, StepOf(s), ~ListAudit(s), Reader(s)'
  PROVE  Reader(s) /\ UNCHANGED <<query, page, acknowledged>>
<1> USE DEF TypeOK, Reader, Goto, Handled
<1>1. ASSUME NEW q \in Queries, Arrive(s, q) PROVE FALSE
  BY <1>1 DEF Arrive
<1>2. CASE WriteTimeout(s)
  BY <1>2 DEF WriteTimeout, audit
<1>3. ASSUME NEW code \in Refusals, Refuse(s, code) PROVE FALSE
  BY <1>3, RefusalsAssumption DEF Refuse
<1>4. ASSUME NEW code \in Results, AppendEvent(s, code) PROVE FALSE
  BY <1>4 DEF AppendEvent
<1>5. CASE Commit(s)
  BY <1>5 DEF Commit
<1>6. CASE Recover(s)
  BY <1>6 DEF Recover
<1>7. CASE LoadCounter(s)
  BY <1>7 DEF LoadCounter, audit
<1>8. CASE CountRequest(s) \/ CountError(s) \/ LogAccess(s) \/ Flush(s)
  BY <1>8 DEF CountRequest, CountError, LogAccess, Flush, audit
<1> QED
  BY <1>1, <1>2, <1>3, <1>4, <1>5, <1>6, <1>7, <1>8 DEF StepOf

\* Every step keeps what readers hold.
LEMMA StepListing ==
  ASSUME TypeOK, Tracing, Listing, NEW s \in Slots, StepOf(s)
  PROVE  Listing'
<1>1. ASSUME NEW r \in Slots PROVE acknowledged'[r] \subseteq committed'
  <2>1. ASSUME NEW q \in Queries, Arrive(s, q)
        PROVE  acknowledged'[r] \subseteq committed'
    <3>1. committed' = committed
      BY <2>1 DEF Arrive
    <3>2. \/ acknowledged' = acknowledged
          \/ acknowledged' = [acknowledged EXCEPT ![s] =
                                {id \in committed : pc[rows[id].of] = "done"}]
      BY <2>1 DEF Arrive
    <3>3. \/ acknowledged'[r] = acknowledged[r]
          \/ acknowledged'[r] = {id \in committed : pc[rows[id].of] = "done"}
      BY <3>2 DEF TypeOK
    <3> QED
      BY <3>1, <3>3 DEF Listing
  <2>2. CASE ~\E q \in Queries : Arrive(s, q)
    <3>1. acknowledged' = acknowledged
      BY <2>2 DEF StepOf, WriteTimeout, Refuse, AppendEvent, Commit, ListAudit, Recover,
                  LoadCounter, CountRequest, CountError, LogAccess, Flush, audit
    <3> QED
      BY <3>1, CommittedStays DEF Listing
  <2> QED
    BY <2>1, <2>2
<1>2. ASSUME NEW r \in Slots, Reader(r)' PROVE Holds(r)'
  <2>1. CASE r # s
    <3>1. Untouched(r) /\ page'[r] = page[r] /\ acknowledged'[r] = acknowledged[r]
      BY <2>1, OthersUntouched, OthersListing
    <3>2. Reader(r)
      BY <1>2, <3>1 DEF Untouched, Reader
    <3> QED
      BY <3>1, <3>2 DEF Untouched, Listing, Holds
  <2>2. CASE r = s /\ ListAudit(s)
    BY <1>2, <2>2, ReadersHold DEF Reader
  <2>3. CASE r = s /\ ~ListAudit(s)
    BY <1>2, <2>3, OldReader DEF Listing, Holds
  <2> QED
    BY <2>1, <2>2, <2>3
<1> QED
  BY <1>1, <1>2 DEF Listing

LEMMA StepInv == Inv /\ [Next]_vars => Inv'
<1> SUFFICES ASSUME Inv, [Next]_vars PROVE Inv'
  OBVIOUS
<1>1. TypeOK'
  BY StepType
<1>2. ASSUME NEW s \in Slots, StepOf(s) PROVE Inv'
  BY <1>1, <1>2, StepTracing, StepScraping, StepBooks, StepListing DEF Inv
<1>3. CASE UNCHANGED vars
  <2>1. OweError' = OweError /\ OweLine' = OweLine /\ OweErrorLine' = OweErrorLine
        /\ ErrorLines' = ErrorLines
    BY <1>3 DEF vars, OweError, OweLine, OweErrorLine, ErrorLines
  <2>0. InfoEnabled' = InfoEnabled
    BY <1>3 DEF vars, InfoEnabled
  <2>2. Tracing'
    BY <1>3, <2>0 DEF Inv, vars, Tracing, Went, Logged, Recorded, LineOf, Panicked, TraceOf
  <2>3. Scraping'
    BY <1>3, <2>1 DEF Inv, vars, Scraping, ErrorsBehind, Reading
  <2>4. Books'
    BY <1>3, <2>0, <2>1 DEF Inv, vars, Books, ErrorsOwed, Ledger
  <2>5. Listing'
    BY <1>3 DEF Inv, vars, Listing, Reader, Holds
  <2> QED
    BY <1>1, <2>2, <2>3, <2>4, <2>5 DEF Inv
<1> QED
  BY <1>2, <1>3 DEF Next, StepOf

LEMMA Invariance == Spec => []Inv
BY InitInv, StepInv, PTL DEF Spec

(***************************************************************************)
(* However many requests are counted while it reads, a scrape of /debug/vars   *)
(* never shows more errors than requests (metrics.go:27).                       *)
(***************************************************************************)
THEOREM ScrapesConsistent == Spec => []ScrapesAreConsistent
<1>1. Inv => ScrapesAreConsistent
  <2> SUFFICES ASSUME Inv, NEW s \in Slots, Len(seen[s]) = 2
               PROVE  seen[s][CHOOSE i \in 1..2 : ReadOrder[i] = "errors"]
                        <= seen[s][CHOOSE i \in 1..2 : ReadOrder[i] = "requests"]
    BY DEF ScrapesAreConsistent
  <2>1. (CHOOSE i \in 1..2 : ReadOrder[i] = "errors") = 1
    <3>1. \A i \in 1..2 : ReadOrder[i] = "errors" <=> i = 1
      BY DEF ReadOrder
    <3> QED
      BY <3>1
  <2>2. (CHOOSE i \in 1..2 : ReadOrder[i] = "requests") = 2
    <3>1. \A i \in 1..2 : ReadOrder[i] = "requests" <=> i = 2
      BY DEF ReadOrder
    <3> QED
      BY <3>1
  <2> QED
    BY <2>1, <2>2 DEF Inv, Scraping, Reading
<1> QED
  BY <1>1, Invariance, PTL

(***************************************************************************)
(* Whenever no request is between its handler and its line, the counters are   *)
(* the access log added up, for any number of requests, if the level lets info   *)
(* through (logger.go parseLevel); otherwise nothing is written.                  *)
(***************************************************************************)
THEOREM CountersAddUp == Spec => []CountersMatchAccessLog
<1>1. Inv => CountersMatchAccessLog
  <2>1. CASE ~InfoEnabled
    BY <2>1 DEF Inv, Books, CountersMatchAccessLog
  <2>2. CASE InfoEnabled
    <3> SUFFICES ASSUME Inv, \A s \in Slots : pc[s] \notin {"count", "errors", "log"}
                 PROVE  httpRequests = Cardinality(accessLog)
                        /\ httpErrors = Cardinality(ErrorLines)
      BY <2>2 DEF CountersMatchAccessLog
    <3>1. OweLine = {} /\ OweErrorLine = {}
      BY DEF OweLine, OweErrorLine
    <3>2. Cardinality(OweLine) = 0 /\ Cardinality(OweErrorLine) = 0
      BY <3>1, FS_EmptySet
    <3>3. Ledger
      BY <2>2 DEF Inv, Books
    <3>4. Cardinality(accessLog) \in Nat /\ Cardinality(ErrorLines) \in Nat
      BY <3>3, FS_Subset, FS_CardinalityType DEF Ledger, ErrorLines
    <3> QED
      BY <3>2, <3>3, <3>4 DEF Ledger
  <2> QED
    BY <2>1, <2>2
<1> QED
  BY <1>1, Invariance, PTL

(***************************************************************************)
(* Every request that ended without a panic has left its line, if the level    *)
(* lets lines through and also if its answer was cut off; and the stored event of *)
(* an admin call bears its id at any level.                                         *)
(***************************************************************************)
THEOREM Traceable == Spec => []EndedRequestsAreTraceable
<1>1. Inv => EndedRequestsAreTraceable
  <2> SUFFICES ASSUME Inv PROVE EndedRequestsAreTraceable
    OBVIOUS
  <2>1. ASSUME InfoEnabled, NEW s \in Slots, Ended(s), ~Panicked(s)
        PROVE  LineOf(s) \in accessLog
    BY <2>1 DEF Inv, Tracing, Went, Logged, Ended
  <2>2. ASSUME NEW id \in committed, query[rows[id].of].route = "invoke",
               Ended(rows[id].of)
        PROVE  /\ query[rows[id].of].trace \in {NoTrace, rows[id].trace}
               /\ InfoEnabled =>
                    [trace |-> rows[id].trace, status |-> rows[id].status,
                     of |-> rows[id].of] \in accessLog
    <3> DEFINE s == rows[id].of
    <3>1. id \in DOMAIN rows /\ rows[id] \in Entries
      BY DEF Inv, TypeOK
    <3>2. s \in Slots /\ Recorded(id) /\ Went(s)
      BY <3>1 DEF Entries, Inv, Tracing
    <3>3. rows[id].trace = trace[s] /\ rows[id].status = status[s]
      BY <2>2, <3>2 DEF Recorded
    <3>4. InfoEnabled => LineOf(s) \in accessLog
      BY <2>1, <2>2, <3>2 DEF Panicked
    <3>5. trace[s] = TraceOf(s, query[s])
      BY <2>2, <3>2 DEF Went, Recorded
    <3> QED
      BY <3>3, <3>4, <3>5 DEF LineOf, TraceOf
  <2> QED
    BY <2>1, <2>2 DEF EndedRequestsAreTraceable
<1> QED
  BY <1>1, Invariance, PTL

(***************************************************************************)
(* Whoever asks for the audit log after a call was answered finds its event    *)
(* on the page, or a page full of later ones, whatever the store, the limit       *)
(* and the order in which concurrent INSERTs become visible (sql_store.go:40).     *)
(***************************************************************************)
THEOREM AcknowledgedEvents == Spec => []AcknowledgedEventsAreListed
<1>1. Inv => AcknowledgedEventsAreListed
  BY DEF Inv, Listing, Reader, Holds, AcknowledgedEventsAreListed
<1> QED
  BY <1>1, Invariance, PTL

=============================================================================
