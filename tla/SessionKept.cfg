SPECIFICATION Spec
CONSTANTS
    Actors = {"run", "model", "compact", "title", "touch", "delete"}
    Budget = 2
    KeepRecent = 2
    MaxEntries = 5
    MaxRuns = 2
    MaxCommands = 2
    MaxFaults = 1
    NoHeader = NoHeader
    Nobody = Nobody
INVARIANT RecentMessagesKept
CHECK_DEADLOCK FALSE
