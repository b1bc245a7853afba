SPECIFICATION Spec
CONSTANTS
    DNS1035Labels <- Names
    ResolvableIPs <- TwoIPs
    Loopback = lo
    Keys <- TwoKeys
    ServiceKeys <- OneService
    TCPServerSpecs <- OneSpec
    ServiceSpecs <- OnePortService
    EndpointsSpecs <- OneEndpoint
    Pods <- NoPods
    Workers = {w1, w2}
    Absent = Absent
    Truncated = Truncated
    Churn = {"tcpserver", "endpoints"}
    MaxDisturbances = 2
    ip1 = ip1
    ip2 = ip2
    lo = lo
    w1 = w1
    w2 = w2
SYMMETRY WorkerSymmetry
INVARIANTS
    OneWorkerPerKey
    TruncatedIsOwned
    ExistingIsCurrent
    DeletedIsRemoved
PROPERTY ImplementsReconciler
CHECK_DEADLOCK FALSE
