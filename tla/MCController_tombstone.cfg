SPECIFICATION Spec
CONSTANTS
    DNS1035Labels <- Names
    ResolvableIPs <- TwoIPs
    Loopback = lo
    Keys <- OneKey
    ServiceKeys <- OneService
    TCPServerSpecs <- OneSpec
    ServiceSpecs <- OnePortService
    EndpointsSpecs <- OneEndpoint
    Pods <- NoPods
    Workers = {w1}
    Absent = Absent
    Truncated = Truncated
    Churn = {"tcpserver", "relist"}
    MaxDisturbances = 1
    ip1 = ip1
    ip2 = ip2
    lo = lo
    w1 = w1
    w2 = w2
INVARIANT DeletedIsRemoved
CHECK_DEADLOCK FALSE
