SPECIFICATION Spec
CONSTANTS
    r1 = r1
    r2 = r2
    r3 = r3
    p1 = p1
    p2 = p2
    b1 = b1
    b2 = b2
    ReservationId <- MCIds
    PathId <- MCPaths
    Boot <- MCBoots
    Generation <- MCGenerations
    Epoch <- MCEpochs
    Bytes <- MCBytes
    Capacity <- MCCapacity
    Word = 8
SYMMETRY MCSymmetry
INVARIANTS
    TypeOK
    AccountingCloses
    LedgerClosesToZero
    ReleaseVerdict
PROPERTIES
    OvercommitsOnlyByWrapping
    IdentityIsSpent
