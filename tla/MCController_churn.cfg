SPECIFICATION Spec
CONSTANTS
    DNS1035Labels <- Names
    ResolvableIPs <- TwoIPs
    Loopback = lo
    Keys <- OneKey
    ServiceKeys <- OneService
    TCPServerSpecs <- ValidOrInvalid
    ServiceSpecs <- NamedPortService
    EndpointsSpecs <- OneEndpoint
    Pods <- OnePod
    Workers = {w1, w2}
    Absent = Absent
    Truncated = Truncated
    Churn = {"tcpserver", "relist", "service", "endpoints", "pod", "resync", "listerError", "restart"}
    MaxDisturbances = 2
    ip1 = ip1
    ip2 = ip2
    lo = lo
    w1 = w1
    w2 = w2
SYMMETRY WorkerSymmetry
INVARIANTS
    TypeOK
    WorkIsCurrent
    ExistingIsCurrent
PROPERTY FilesChangeOnlyInProcess
CHECK_DEADLOCK FALSE
