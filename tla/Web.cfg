SPECIFICATION Spec
CONSTANTS
    m1 = m1
    m2 = m2
    s1 = s1
    s2 = s2
    Message = {m1, m2}
    Steer = {s1, s2}
    NoMessage = NoMessage
    Size <- Sizes
    CapCount = 2
    CapChars = 3
    MaxIterations = 2
    Environment = {"stop", "abort", "steer", "disconnect", "idle"}
INVARIANT RunsStayApart
CHECK_DEADLOCK FALSE
