SPECIFICATION FairSpec
CONSTANTS
    m1 = m1
    m2 = m2
    m3 = m3
    Message = {m1, m2, m3}
    MaxSessions = 5
    Kinds <- AnyKinds
INVARIANTS StopStaysInSession SessionsAreServed
PROPERTIES EveryEventSettles ImplementsRotatingSessions
CHECK_DEADLOCK FALSE
