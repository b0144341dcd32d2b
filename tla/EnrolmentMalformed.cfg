SPECIFICATION Spec
CONSTANTS
    Boots = {b1}
    Renews = {r1}
    None = None
    Bad = Bad
    Backends = {"secret"}
    RenewBeforeOn = TRUE
    MaxOps = 1
PROPERTIES
    MalformedIsRotated
CHECK_DEADLOCK FALSE
