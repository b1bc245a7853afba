SPECIFICATION HistorySpec
CONSTANTS
    Callers = {c1, c2}
    Names = {coffee, tea}
    Contents = {a}
    ListenPort <- OnPort
    Absent = Absent
    Truncated = Truncated
    MaxRetries = 2
    Faults = {}
    MaxCalls = 3
    a = a
    b = b
PROPERTY SuccessIsApplied
CHECK_DEADLOCK FALSE
