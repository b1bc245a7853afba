SPECIFICATION FairSpec
INVARIANTS
    TypeOK
    StopHasReason
    SharedInformersRun
PROPERTY Terminates
CHECK_DEADLOCK FALSE
