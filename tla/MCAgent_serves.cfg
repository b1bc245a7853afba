SPECIFICATION FairAgent
CONSTANTS
    DNS1035Labels <- SvcNames
    ResolvableIPs <- OneIP
    Loopback = lo
    Keys <- TwoKeys
    ServiceKeys <- OneService
    TCPServerSpecs <- OneSpec
    ServiceSpecs <- NoneOf
    EndpointsSpecs <- NoneOf
    Pods <- NoneOf
    Workers = {w1, w2}
    Absent = Absent
    Truncated = Truncated
    Churn = {"tcpserver"}
    MaxDisturbances = 1
    MaxRetries = 1
    Faults = {"command", "bind"}
    MaxCalls = 9
    ip1 = ip1
    lo = lo
    w1 = w1
    w2 = w2
INVARIANTS
    AgentTypeOK
    ServedAtRest
PROPERTIES
    ImplementsManager
    EventuallyServed
    ReloadsReturn
CHECK_DEADLOCK FALSE
