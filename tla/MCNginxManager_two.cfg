SPECIFICATION HistorySpec
CONSTANTS
    Callers = {c1, c2}
    Names = {coffee, tea}
    Contents = {a, b}
    ListenPort <- OnPort
    Absent = Absent
    Truncated = Truncated
    MaxRetries = 2
    Faults = {"command", "poll", "oldWorker", "bind"}
    MaxCalls = 3
    a = a
    b = b
SYMMETRY CallerSymmetry
INVARIANTS
    TypeOK
    AppliedWhenQuiet
PROPERTIES
    SuccessUnlessRaced
    ImplementsReloader
CHECK_DEADLOCK FALSE
