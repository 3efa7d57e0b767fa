SPECIFICATION Spec
CONSTANTS
    None = None
    t1 = t1
    t2 = t2
    Saver <- MCSaver
    Snapshot <- SnapshotRecord
    MaxSaves = 0
    MaxCrashes = 0
    MaxId = 7
    MaxGeneration = 2
    MaxOps = 5
    MaxAge = 1
    Bdf <- MCBdf
    EndpointKind <- MCEndpointKind
    Epoch = {1, 2}
    Boot = {1}
    Device = {}
    Machine <- MCUnplugged
    Report <- MCReport
    InitialFile = {None}
    AgeLimit = 0
    HostBase = 100
CHECK_DEADLOCK FALSE
INVARIANT PriorIncarnationStaysBehind
