CONSTANTS
    RawTitles <- MCRawTitles
    RawDescriptions <- MCRawDescriptions
    Titles <- MCTitles
    Descriptions <- MCDescriptions
    Priorities <- MCPriorities
    CleanTitle <- MCCleanTitle
    CleanDescription <- MCCleanDescription
    Invalid = Invalid
    None = None
    NoTask = NoTask
    NoWork = NoWork
    NoRow = NoRow
    Threads = {t1}
    Ids = {i1, i2}
    Strict = TRUE
    EventSourcing = TRUE
    MayCrash = FALSE
    MayFail = FALSE
    RebuildAnytime = TRUE
    MaxRequests = 4
SPECIFICATION ProjectionSpec
INVARIANTS NoDriftAtRest
