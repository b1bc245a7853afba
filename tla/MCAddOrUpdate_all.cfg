SPECIFICATION Spec
CONSTANTS
    DNS1035Labels <- Labels
    ResolvableIPs <- IPv4Only
    Loopback = lo
    Inputs <- AllInputs
    Nothing = nothing
    ip1 = ip1
    ip2 = ip2
    ip3 = ip3
    ip6 = ip6
    lo = lo
    nothing = nothing
INVARIANTS
    NeverEmptyUpstream
    ServersAreListed
    WholeSubsetServed
    AgreesWithRendering
CHECK_DEADLOCK FALSE
