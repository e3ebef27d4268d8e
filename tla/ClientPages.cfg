\* Lists of two rows, three clicks (two rows and the first again), two tokens.
CONSTANTS
    NumRows = 2
    MaxGen = 2
    MaxClicks = 3
    MaxAdminClicks = 2
    MaxFaults = 1
    MaxJobs = 3
    ChunkSize = 1
    MaxLen = 3
    MaxMoves = 3
    MaxKpis = 3
SPECIFICATION PagesSpec
CHECK_DEADLOCK FALSE
INVARIANTS
    ShownIsCurrent
    DoubleCallExplained
    ErrorExplained
    NoticeIsForTheCode
    PausedScannerExplained
    MonthlyTotalsAgree
PROPERTIES
    PagesSettle
    ListEndReached
