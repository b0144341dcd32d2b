SPECIFICATION LifeFairSpec
CONSTANTS
    Boots = {b1}
    Renews = {r1}
    None = None
    Bad = Bad
    Backends = {"secret"}
    RenewBeforeOn = TRUE
    MaxOps = 1
    Handshakes = {h1}
    Main = main
    NoCert = NoCert
    Err = Err
    MaxGen = 3
    MaxVanish = 1
    MaxCrashes = 1
INVARIANTS
    PresentsIssuedPair
PROPERTIES
    RestartIsSafe
    StoredCertIsServed
CHECK_DEADLOCK FALSE
