\* One attendee at the desk.
CONSTANTS
    NumRows = 1
    MaxGen = 1
    MaxClicks = 1
    MaxAdminClicks = 0
    MaxFaults = 0
    MaxJobs = 1
SPECIFICATION DeskSpec
CHECK_DEADLOCK FALSE
INVARIANT ScannedTicketAccepted
