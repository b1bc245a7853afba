SPECIFICATION FairAgent
CONSTANTS
    DNS1035Labels <- SvcNames
    ResolvableIPs <- OneIP
    Loopback = lo
    Keys <- OneKey
    ServiceKeys <- OneService
    TCPServerSpecs <- OneSpec
    ServiceSpecs <- OnePortService
    EndpointsSpecs <- OneEndpoint
    Pods <- NoneOf
    Workers = {w1, w2}
    Absent = Absent
    Truncated = Truncated
    Churn = {"tcpserver", "endpoints", "listerError", "restart"}
    MaxDisturbances = 2
    MaxRetries = 1
    Faults = {"bind", "poll", "oldWorker"}
    MaxCalls = 12
    ip1 = ip1
    lo = lo
    w1 = w1
    w2 = w2
PROPERTY Converges
CHECK_DEADLOCK FALSE
