SPECIFICATION ServicesSpec
CONSTANTS
    p1 = p1
    p2 = p2
    listed = listed
    blind = blind
    prefixed = prefixed
    stray = stray
    Model = {listed, blind, prefixed, stray}
    Provider = {p1, p2}
    Nobody = Nobody
    UnknownPrefix = "default"
    DefaultProvider = p1
    Client = "sse"
    Timers = {"idle", "run"}
    MaxTurns = 3
    RetryLimit = 1
    MaxSent = 2
    MaxFaults = 1
    Tasks = {1, 2, 3, 4}
    Events = {e1}
    Sockets = {w1, w2}
    MaxConnections = 1
    first = first
    second = second
    read = read
    find = find
    Server = {first, second}
    Tool = {read, find}
    Task = {t1, t2}
    None = None
    MaxSessions = 2
    MaxDeaths = 1
    MaxCommands = 2
    m1 = m1
    m2 = m2
    m3 = m3
    Message = {m1, m2, m3}
    Steer = {}
    NoMessage = NoMessage
    Size <- Sizes
    CapCount = 2
    CapChars = 4
    MaxIterations = 2
    Environment = {"abort", "disconnect"}
INVARIANTS OneAnswer RunsTellTheTruth ShutdownIsClean SocketsAreCounted ToolsFitServers
PROPERTIES EveryMessageAnswered ImplementsSerialSession RunEnds ShutdownEnds PlaceComesFree DeadToolsLeave
CHECK_DEADLOCK FALSE
