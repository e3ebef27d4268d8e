\* Both surfaces, one ticket type that may be an early-bird one whose time is over, one failing call.
CONSTANTS
    NumTypes = 1
    EarlyBird = {1}
    MaxGen = 2
    MaxClicks = 2
    MaxFaults = 1
    MaxJobs = 3
SPECIFICATION Spec
CHECK_DEADLOCK FALSE
INVARIANTS
    SecondTicketExplained
    SuccessIsReal
    NoOrderForgotten
PROPERTIES
    CheckoutSettles
