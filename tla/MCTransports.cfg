CONSTANTS
    RawTitles <- MCRawTitles
    RawDescriptions <- MCRawDescriptions
    Titles <- MCTitles
    Descriptions <- MCDescriptions
    Priorities <- MCPriorities
    CleanTitle <- MCCleanTitle
    CleanDescription <- MCCleanDescription
    Invalid = Invalid
    None = None
    NoTask = NoTask
    NoWork = NoWork
    NoCall = NoCall
    Threads = {t1, t2}
    Ids = {i1}
    Strict = TRUE
    EventSourcing = TRUE
    MayCrash = FALSE
    MaxRequests = 3
    MaxDocument = 2
SYMMETRY MCSymmetry
SPECIFICATION TransportSpec
INVARIANTS AnswerIsHonest RetryRecordsNothing ConflictMeansStale MissingMeansDeleted
PROPERTIES ImplementsService
