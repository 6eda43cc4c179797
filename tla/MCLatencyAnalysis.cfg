SPECIFICATION Spec
CONSTANTS
  Streams = {"fast", "slow", "errors"}
  Label <- MCLabel
  Bounds = {200, 1500}
  BatchSizes = {1, 20}
  RawOptions <- MCRawOptions
  MaxBatches = 3
  MaxInt = 1000
  AboveRange <- MCLeastInt
  BelowRange <- MCLeastInt
INVARIANTS QuantileIsTightest TimeoutsCoverTraffic SlowestIsTuned
PROPERTIES SlowTrafficNeverShortens
CHECK_DEADLOCK FALSE
