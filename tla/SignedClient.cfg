SPECIFICATION FairSpec
CONSTANTS
    Callers = {c1, c2}
    Endpoints = {"bootstrap", "ingest"}
    None = None
    MaxKey = 3
INVARIANTS
    TypeOK
    RotationIsTransparent
    AcceptedAsSent
PROPERTIES
    CacheNeverRegresses
    SignedCallReturns
    ImplementsCall
CHECK_DEADLOCK FALSE
