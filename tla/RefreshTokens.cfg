SPECIFICATION Spec
CONSTANTS
  Handlers = {h1, h2}
  Users = {ali}
  None = None
  Lifetime = 0
  MaxTokens = 3
  MaxClock = 1
INVARIANTS
  DeliveredReplacesParent
  SingleLiveToken
PROPERTIES
  RevocationStaysLocal
  ReuseEndsTheSession
  RequestsEnd
