SPECIFICATION Spec
CONSTANTS
    None = None
    b1 = b1
    b2 = b2
    b3 = b3
    MaxId = 3
    MaxGeneration = 2
    MaxOps = 5
    NewGeneration = {1}
    Bdf <- MCBdf
    ValidBdf <- MCValidBdf
    AddedKind <- MCAddedKind
SYMMETRY MCSymmetry
CHECK_DEADLOCK FALSE
INVARIANTS
    TypeOK
    LinksAgree
    
    PathsAreSound
PROPERTIES
    IdentityIsForEver
    CyclesAreFound
