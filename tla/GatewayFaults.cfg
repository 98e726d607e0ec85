\* Three copies of one message; any two faults; handlers of any speed.
SPECIFICATION Spec
CONSTANTS
    s1 = s1
    m1 = m1
    m2 = m2
    d3 = d3
    Nobody = Nobody
    Session = {s1}
    SessionOf <- MCSessionOf
    MessageOf <- MCMessageOf
    Worker = {w1, w2}
    Message = {m1}
    Delivery = {d1, d2, d3}
    TTL = 1
    RenewalInterval = 1
    Faults = {"crash", "hostloss", "unsubscribe", "outage"}
    MaxFaults = 2
    RedisErrors = {"builtin", "client"}
    PromptHandlers = FALSE
    SubscribeFirst = FALSE
INVARIANTS CopiesAreJudged ForwardReachesReadyWorker
SYMMETRY CopySymmetry
