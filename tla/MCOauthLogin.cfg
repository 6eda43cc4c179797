SPECIFICATION FairSpec
CONSTANTS
  Visits <- ThreeVisits
  Codes = {"code"}
  NoCode = NoCode
  Tokens = {"token", "empty"}
  Configured = FALSE
  NoToken = NoToken
  NoVisit = NoVisit
  DrainLimit = 1
INVARIANTS OnlyOwnCodeIsExchanged FirstCallbackDecides
PROPERTIES LoginEnds FirstVisitIsAnswered
CHECK_DEADLOCK FALSE
