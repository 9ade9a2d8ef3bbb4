CONSTANTS
    RawTitles <- MCRawTitles
    RawDescriptions <- MCRawDescriptions
    Titles <- MCTitles
    Descriptions <- MCDescriptions
    Priorities <- MCPriorities
    CleanTitle <- MCCleanTitle
    CleanDescription <- MCCleanDescription
    Invalid = Invalid
    None = None
    NoTask = NoTask
    Strict = TRUE
    MaxEvents = 5
SPECIFICATION Spec
INVARIANTS TypeOK CompletedAtFollowsStatus ReplayYieldsTask EveryPrefixRebuilds StatusEventsFormAWalk
