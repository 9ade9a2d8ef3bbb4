CONSTANTS
    RawTitles <- MCTwoTitles
    RawDescriptions <- MCTooLong
    Titles <- MCTwoTitles
    Descriptions <- MCDescriptions
    Priorities <- MCPriorities
    CleanTitle <- MCCleanTwoTitles
    CleanDescription <- MCCleanTooLong
    Invalid = Invalid
    None = None
    NoTask = NoTask
    NoWork = NoWork
    NoRow = NoRow
    Threads = {t1}
    Ids = {i1, i2}
    Strict = TRUE
    EventSourcing = TRUE
    MayCrash = TRUE
    MayFail = TRUE
    RebuildAnytime = FALSE
    MaxRequests = 4
SPECIFICATION ProjectionSpec
INVARIANTS RowIsReplay DeletedOnce CountsMatchRows
PROPERTIES ArchivedIsTerminal RowChangeIsRecorded RebuildHeals
