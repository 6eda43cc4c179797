SPECIFICATION Spec
CONSTANTS
  Streams = {"fast", "slow", "errors"}
  Label <- MCLabel
  Bounds = {200, 1500}
  BatchSizes = {1, 20}
  RawOptions <- MCDefaultOptions
  MaxBatches = 3
  MaxInt = 1000
  AboveRange <- MCLeastInt
  BelowRange <- MCLeastInt
INVARIANTS QuantileOptionIsUsed
CHECK_DEADLOCK FALSE
