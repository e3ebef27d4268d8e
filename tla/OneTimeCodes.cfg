SPECIFICATION OtpSpec
CONSTANTS
  Handlers = {h1, h2}
  Dests = {d1}
  Ips = {ip1}
  None = None
  Limit <- LimitValues
  MaxAttempts = 2
  MaxRows = 2
INVARIANTS
  OneTimeUse
  AttemptsLimited
  LimitsHold
PROPERTIES
  SettledStays
  BlockEnds
