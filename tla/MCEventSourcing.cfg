CONSTANTS
    RawTitles <- MCTitles
    RawDescriptions <- MCDescriptions
    Titles <- MCTitles
    Descriptions <- MCDescriptions
    Priorities <- MCPriorities
    CleanTitle <- MCCleanTitle
    CleanDescription <- MCCleanDescription
    Invalid = Invalid
    None = None
    NoTask = NoTask
    NoSnapshot = NoSnapshot
    NotFound = NotFound
    Ids = {i1}
    Strict = FALSE
    Readers = {r1}
    MaxEvents = 3
SPECIFICATION Spec
INVARIANTS TypeOK AnySnapshotWillDo
VIEW MCView
