SPECIFICATION Spec
CONSTANTS
    None = None
    t1 = t1
    t2 = t2
    Saver <- MCSaver
    Snapshot <- SnapshotRecord
    MaxSaves = 3
    MaxCrashes = 1
    MaxId = 7
    MaxGeneration = 2
    MaxOps = 4
    MaxAge = 1
    Bdf <- MCBdf
    EndpointKind <- MCEndpointKind
    Epoch = {1, 2}
    Boot = {1}
    Device <- MCDevice
    Machine <- MCMachine
    Report <- MCReport
    InitialFile <- MCInitialFile
    AgeLimit = 0
    HostBase = 100
SYMMETRY MCSymmetry
CHECK_DEADLOCK FALSE
INVARIANTS
    TypeOK
    RecoveredIsNotSelected
    MeasuredIsEvidence
    PublishedIsWhole
    SavedIsPublished
PROPERTIES
    EveryPairIsBuilt
    HierarchyIsTheMachines
