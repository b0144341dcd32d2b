SPECIFICATION FairSpec
CONSTANTS
    Calls = {c1}
    Budget = 8
    Codes = {"Internal", "PermissionDenied", "401", "503"}
INVARIANTS
    TypeOK
    OkWasIngested
    GivesUpWithCause
    RetriesOnlyTransient
    BackoffRespected
    RetryIsNoReplay
PROPERTIES
    ForwardReturns
CHECK_DEADLOCK FALSE
