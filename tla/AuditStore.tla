----------------------------- MODULE AuditStore -----------------------------
(***************************************************************************)
(* internal/infrastructure/auditstore: the pages of the audit log the two      *)
(* kinds of store return, and the limit ListAudit of the handlers asks them      *)
(* for.  Rows are given oldest first.                                            *)
(***************************************************************************)
EXTENDS Integers, Sequences

CONSTANT DefaultLimit   \* 20, in the handler and in the SQL stores

ASSUME DefaultLimitAssumption == DefaultLimit \in Nat \ {0}

\* The limit of ListAudit; raw is 0 when the query has none or no number.
PageLimit(raw) == IF raw > 0 THEN raw ELSE DefaultLimit

\* MemoryStore.List: the last of the events, oldest first.
MemoryList(rows, limit) ==
  LET n == IF limit <= 0 \/ limit > Len(rows) THEN Len(rows) ELSE limit
  IN  SubSeq(rows, Len(rows) - n + 1, Len(rows))

\* Mutant of SqlList: the order is left to the id as it is.
SqlListAscending(rows, limit) ==
  LET asked == IF limit <= 0 THEN DefaultLimit ELSE limit
  IN  SubSeq(rows, 1, IF asked > Len(rows) THEN Len(rows) ELSE asked)

\* sqlStore.List: ORDER BY id DESC LIMIT.
SqlList(rows, limit) ==
  LET asked == IF limit <= 0 THEN DefaultLimit ELSE limit
      n     == IF asked > Len(rows) THEN Len(rows) ELSE asked
  IN  [i \in 1..n |-> rows[Len(rows) - i + 1]]

=============================================================================
