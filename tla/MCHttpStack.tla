---------------------------- MODULE MCHttpStack ----------------------------
(***************************************************************************)
(* An instance of HttpStack: admin calls that share an id, an MCP call, a       *)
(* preflight, a scrape, and readers of the log, one of them with a limit that no   *)
(* allocation can serve; with and without lines in the access log.                 *)
(***************************************************************************)
EXTENDS HttpStack, TLC

Ask(route, id, limit) == [route |-> route, trace |-> id, limit |-> limit]

MCQueries ==
  {Ask("invoke", <<"given">>, 0), Ask("mcp", NoTrace, 0),
   Ask("preflight", NoTrace, 0), Ask("vars", NoTrace, 0),
   Ask("audit", <<"given">>, 1), Ask("audit", NoTrace, 9)}

\* One level that drops the lines, and one that parseLevel does not know.
MCLogLevels == {"error", "verbose"}

Perms == Permutations(Slots)

=============================================================================
