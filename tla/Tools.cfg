SPECIFICATION FairSpec
CONSTANTS
    bash = bash
    remote = remote
    Tool = {bash, remote}
    Mcp = {remote}
    Write = {bash}
    Parallel = {remote}
    Gated = {bash}
    Forced <- Tiers
    MaxCalls = 3
    MaxBatch = 2
    Threshold = 2
    MaxClicks = 2
    MaxChanges = 1
CHECK_DEADLOCK FALSE
INVARIANT CallsAreSettled
PROPERTIES TurnsEnd
