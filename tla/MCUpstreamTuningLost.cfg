SPECIFICATION Spec
CONSTANTS
  Tuners = {t1, t2}
  Upstreams = {"u1", "u2"}
  Timeouts <- MCTimeouts
  Findings <- MCFindings
  MaxEdits = 1
PROPERTIES TuneChangesOnlyTimeout
CHECK_DEADLOCK FALSE
