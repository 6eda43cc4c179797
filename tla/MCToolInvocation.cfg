SPECIFICATION FairSpec
CONSTANTS
  Calls = {c1, c2}
  Requests <- MCRequests
  Claims <- MCClaims
  NoBearer = "none"
  StaticBearer = "operator"
  Policy <- MCPolicy
  SqlBackend = TRUE
  DrainLimit = 1
  NoRequest = NoRequest
  NoActor = NoActor
INVARIANTS OnlyEntitledCallsReachGateway AuditMatchesGateway AnswerMatchesGateway OneTrueEventPerCall EventsNameTheCaller AnsweredCallsAreRecorded DrainBeforeClose
PROPERTIES CallsReturn ShutdownCompletes
CHECK_DEADLOCK FALSE
