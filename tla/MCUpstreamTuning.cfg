SPECIFICATION Spec
CONSTANTS
  Tuners = {t1, t2}
  Upstreams = {"u1", "u2"}
  Timeouts <- MCTimeouts
  Findings <- MCFindings
  MaxEdits = 2
SYMMETRY Perms
INVARIANTS ReportsMatchGateway WrittenTimeoutStands
PROPERTIES UndisturbedTuneKeepsRest
CHECK_DEADLOCK FALSE
