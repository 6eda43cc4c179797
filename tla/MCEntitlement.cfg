SPECIFICATION Spec
CONSTANTS
  Numerals <- MCNumerals
  Upstreams = {"u1"}
  Spaces = " "
  Files <- MCFiles
  Scopes <- MCScopes
  Values <- MCValues
  MaxArguments = 2
INVARIANTS MatchesReference EndpointsAgree NoConfigIsOpen ReadersOnlyRead RequestsNameTheirTarget SchemaDecides
CHECK_DEADLOCK FALSE
