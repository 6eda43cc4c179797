SPECIFICATION Spec
CONSTANTS
  DefaultLimit = 2
  Slots = {s1, s2, s3}
  Queries <- MCQueries
  Backend = "postgres"
  Absurd = 9
  Refusals = {400}
  Results = {200, 403}
  LogLevels <- MCLogLevels
  NoQuery = NoQuery
  NoTrace = NoTrace
SYMMETRY Perms
INVARIANTS ScrapesAreConsistent CountersMatchAccessLog AcknowledgedEventsAreListed EndedRequestsAreTraceable
CHECK_DEADLOCK FALSE
