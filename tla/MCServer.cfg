CONSTANTS
    RawTitles <- MCTitles
    RawDescriptions <- MCDescriptions
    Titles <- MCTitles
    Descriptions <- MCDescriptions
    Priorities <- MCPriorities
    CleanTitle <- MCCleanTitle
    CleanDescription <- MCCleanDescription
    Invalid = Invalid
    None = None
    NoTask = NoTask
    NoWork = NoWork
    NoHead = NoHead
    NoTx = NoTx
    Threads = {t1, t2}
    Callers = {t1, t2}
    Nobody = Nobody
    MaxResets = 2
    Ids = {i1, i2}
    Strict = TRUE
    EventSourcing = TRUE
    MayCrash = TRUE
    MaxRequests = 3
SPECIFICATION ServerSpec
INVARIANTS RowStillThere BuiltOnce NoneOnlyByReset
PROPERTIES ImplementsService KeepsChain EveryRequestEnds
