SPECIFICATION RunwaySpec
CONSTANTS
    Life = 168
    RenewBefore = 48
    Period = 24
    MaxFails = 1
INVARIANTS
    NeverExpires
