CONSTANTS
    RawTitles <- MCRawTitles
    RawDescriptions <- MCRawDescriptions
    Titles <- MCTitles
    Descriptions <- MCDescriptions
    Priorities <- MCPriorities
    CleanTitle <- MCCleanTitle
    CleanDescription <- MCCleanDescription
    Invalid = Invalid
    None = None
    NoTask = NoTask
    NoWork = NoWork
    Threads = {t1, t2}
    Ids = {i1, i2}
    Strict = TRUE
    EventSourcing = TRUE
    MayCrash = TRUE
    MaxRequests = 4
SYMMETRY MCSymmetry
SPECIFICATION Spec
INVARIANTS TypeOK RowsConsistent RowIffLive DeletionIsFinal HistoryIsLegal PublishedWasCommitted
PROPERTIES LedgerSpec
