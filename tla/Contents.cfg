SPECIFICATION Spec
CONSTANTS
    c1 = c1
    c2 = c2
    main = main
    other = other
    a1 = a1
    a2 = a2
    Entries = 3
    MaxEntries = 2
    MaxChars = 2
    MaxArchives = 2
    MaxCalls = 5
    v1 = v1
    v2 = v2
    Sop = Sop
    Absent = Absent
    here = here
    local = local
    shared = shared
    claude = claude
    i1 = i1
    i2 = i2
    Slugs = 2
    Hashed = {2}
    MaxCandidates = 2
    MaxLoaded = 2
    MaxInstalls = 2
    t1 = t1
    t2 = t2
    p1 = p1
    n1 = n1
    r1 = r1
    r2 = r2
    k1 = k1
    k2 = k2
    None = None
    TextSize = 2
    MaxMemory = 3
    MaxCached = 1
    MaxWorld = 1
    MaxRuns = 2
    MaxUpdates = 2
    f1 = f1
    f2 = f2
    MaxImages = 1
    MaxSent = 1
    MaxHandled = 1
    MaxChunks = 1
    ann = ann
    bob = bob
    x1 = x1
    x2 = x2
    Low = Low
    High = High
    MaxCommands = 3
    MaxEvents = 1
INVARIANTS StoresAgree CatalogIsSound PromptsFit AnswersReachUsers
    TiersHold
CHECK_DEADLOCK FALSE
