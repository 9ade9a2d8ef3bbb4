CONSTANTS
    RawTitles <- MCRawTitles
    RawDescriptions <- MCRawDescriptions
    Titles <- MCTitles
    Descriptions <- MCDescriptions
    Priorities <- MCPriorities
    CleanTitle <- MCCleanTitle
    CleanDescription <- MCCleanDescription
    Invalid = Invalid
    None = None
    NoTask = NoTask
    NoWork = NoWork
    NoRow = NoRow
    Threads = {t1, t2}
    Ids = {i1, i2}
    Strict = TRUE
    EventSourcing = TRUE
    MayCrash = FALSE
    MayFail = TRUE
    RebuildAnytime = FALSE
    MaxRequests = 3
SPECIFICATION FairProjectionSpec
INVARIANTS ProjectionTypeOK CountedOnce
PROPERTIES StoredIsPublished CatchesUp
