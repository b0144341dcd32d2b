SPECIFICATION FairSpec
CONSTANTS
    Handshakes = {h1, h2}
    Main = main
    NoCert = NoCert
    Err = Err
    MaxGen = 3
    MaxVanish = 1
    MaxCrashes = 1
INVARIANTS
    CacheCoherent
PROPERTIES
    NextHandshakeUsesRotated
    RotationNeverFailsHandshake
    RotationPickedUp
CHECK_DEADLOCK FALSE
