SPECIFICATION FairSpec
CONSTANTS
  Workers = {w1, w2}
  Documents <- MCDocuments
  Tokens <- MCTokens
  IndexKid <- MCIndexKid
  NoKid = "none"
  Issuer = "i"
  Audience = "a"
  Unset = "unset"
  NoToken = NoToken
  Lifetimes <- MCLifetimes
  RefreshInterval = 2
  FetchTimeout = 1
INVARIANTS TypeOK CacheIsRecentDocument
PROPERTIES WithdrawnKeysExpire SettledKeysAreAccepted ImplementsTokenVerifier RotationTakesEffect ImplementsFairTokenVerifier
CHECK_DEADLOCK FALSE
