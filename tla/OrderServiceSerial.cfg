SPECIFICATION Spec
CONSTANTS
  Handlers = {h1}
  paid = paid
  free = free
  room = room
  elsewhere = elsewhere
  e1 = e1
  e2 = e2
  own = own
  site = site
  TEN = TEN
  NoLimit = NoLimit
  None = None
  Events = {e1, e2}
  TicketTypes = {paid, free}
  Sessions = {room, elsewhere}
  Codes = {own, site}
  CodeStrings = {TEN}
  EventOfType <- MCEventOfType
  EventOfSession <- MCEventOfSession
  QuantityTotal <- MCQuantityTotal
  Capacity <- MCCapacity
  MaxUses <- MCMaxUses
  UsableAt <- MCUsableAt
  EventCode <- MCEventCode
  PlatformCode <- MCPlatformCode
  FreeTypes <- MCFreeTypes
  EarlyBirdTypes <- MCEarlyBirdTypes
  EarlyBirdEnds <- MCEarlyBirdEnds
  MaxOrders = 2
  MaxRegs = 3
  MaxClock = 1
INVARIANTS
  CountersExact
PROPERTY ImplementsTicketSale
