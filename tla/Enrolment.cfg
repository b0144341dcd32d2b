SPECIFICATION Spec
CONSTANTS
    Boots = {b1, b2}
    Renews = {r1, r2}
    None = None
    Bad = Bad
    Backends = {"secret", "file"}
    RenewBeforeOn = TRUE
    MaxOps = 1
SYMMETRY Symmetry
INVARIANTS
    TypeOK
    StoredPairMatches
PROPERTIES
    TokenSparedWhenEnrolled
    PairOnceStoredStays
    CANeverLost
CHECK_DEADLOCK FALSE
