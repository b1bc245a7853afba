SPECIFICATION Spec
INVARIANT FailureIsReported
CHECK_DEADLOCK FALSE
