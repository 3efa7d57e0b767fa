SPECIFICATION Spec
CONSTANTS
    Document <- MCDocument
    Garbage = {0, 1, 2, 7, 12, 33, 300}
    Beyond = {0, 34, 99}
    Magic <- MCMagic
    StringWindow = 81
    StringLimit = 40
    MaxCount = 200
CHECK_DEADLOCK FALSE
INVARIANTS
    TypeOK
    RoundTrip
    DamageIsRefused
    AcceptedIsWellFormed
    SecondTripIsExact
