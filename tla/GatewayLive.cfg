\* Two messages, one delivered twice; one fault; handlers are prompt, so only runs take time.
SPECIFICATION FairSpec
CONSTANTS
    s1 = s1
    m1 = m1
    m2 = m2
    d3 = d3
    Nobody = Nobody
    Session = {s1}
    SessionOf <- MCSessionOf
    MessageOf <- MCMessageOf
    Worker = {w1, w2}
    Message = {m1, m2}
    Delivery = {d1, d2, d3}
    TTL = 2
    RenewalInterval = 1
    Faults = {"crash", "hostloss", "unsubscribe"}
    MaxFaults = 1
    RedisErrors = {}
    PromptHandlers = TRUE
    SubscribeFirst = TRUE
PROPERTIES EngagedOwnsKey DeliverySettles ImplementsMessageOnce
