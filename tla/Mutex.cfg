SPECIFICATION FairSpec
CONSTANTS
    c1 = c1
    c2 = c2
    c3 = c3
    Client = {c1, c2, c3}
    Token = {t1, t2, t3}
    NoToken = NoToken
    TTL = 5
    Interval = 2
    Delay <- Delays
    Faults = {"error", "crash", "shutdown"}
PROPERTIES LockIsKept LossIsNoticed LockComesFree ImplementsCriticalSection
CHECK_DEADLOCK FALSE
