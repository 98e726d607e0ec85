SPECIFICATION FairSpec
CONSTANTS
    Client = {c1, c2}
    a = a
    Session = {a}
    NoSession = NoSession
    Turns = 3
    In <- Sessions
    Tools <- Calls
    k1 = k1
    k2 = k2
    Kind = {k1, k2}
    About <- Kinds
    Synthetic = {2}
    MinToolCalls = 2
    MaxCandidates = 2
    EvictionBatch = 1
    MaxSops = 2
    MaxExtractions = 3
    MaxEvents = 2
CHECK_DEADLOCK FALSE
INVARIANTS ExtractionIsSafe ExtractionsBounded
PROPERTIES LockComesFree
