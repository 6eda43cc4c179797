SPECIFICATION Spec
CONSTANTS
  Calls = {c1, c2}
  Requests <- MCRequests
  NoBearer = "none"
  StaticBearer = "none"
  Policy <- MCPolicy
  SqlBackend = FALSE
  DrainLimit = 0
  NoRequest = NoRequest
  NoActor = NoActor
  Documents <- MCDocuments
  IndexKid <- MCIndexKid
  NoKid = "none"
  Issuer = "i"
  Audience = "a"
  Unset = "unset"
  NoToken = NoToken
  Lifetimes <- MCLifetimes
  RefreshInterval = 1
  FetchTimeout = 0
  GatewayTimeout = 1
  MaxExchanges = 2
  TokenOf <- MCTokenOf
  ClaimsOf <- MCClaimsOf
  Genuine <- MCGenuine
SYMMETRY Perms
PROPERTIES ImplementsToolInvocation WithdrawnKeysReachNothing SettledCallersAreServed
CHECK_DEADLOCK FALSE
