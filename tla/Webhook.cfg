SPECIFICATION FairSpec
CONSTANTS
    Requests = {r1, r2, r3}
    MaxBatch = 2
    MaxConcurrent = 0
    DefaultConcurrent = 2
    MaxRestarts = 1
INVARIANTS
    SlotsMatchWorkers
    CeilingHolds
    AckedIsAccounted
PROPERTIES
    DropOnlyWhenBusy
    NeverWedged
CHECK_DEADLOCK FALSE
