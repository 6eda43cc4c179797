SPECIFICATION Spec
CONSTANTS
  Calls = {c1, c2}
  Requests <- FewRequests
  Claims <- MCClaims
  NoBearer = "none"
  StaticBearer = "none"
  Policy <- MCPolicy
  SqlBackend = TRUE
  DrainLimit = 1
  NoRequest = NoRequest
  NoActor = NoActor
INVARIANTS EveryAppliedCallIsRecorded
CHECK_DEADLOCK FALSE
