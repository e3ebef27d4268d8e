SPECIFICATION BrowserSpec
CONSTANTS
  Handlers = {h1, h2}
  Users = {ali}
  None = None
  Lifetime = 0
  MaxTokens = 2
  MaxClock = 0
  Tabs = {t1, t2}
  NoTab = NoTab
  Visitor = ali
INVARIANTS
  CookieInStep
  OnlyDisturbedSessionsFlagged
PROPERTY PromiseSettles
