SPECIFICATION FairSpec
CONSTANTS
    None = None
    r1 = r1
    p1 = p1
    m1 = m1
    n1 = n1
    n2 = n2
    ReservationId <- MCReservationId
    PathId <- MCPathId
    NodeId <- MCNodeId
    MeasurementId <- MCMeasurementId
    MeasurementGeneration = {1, 2}
    Ops <- MCLifecycleOps
    NumWorkers = 1
    MaxConn = 2
    MaxBoot = 2
    MaxEpoch = 0
    MaxCalls = 3
    Bytes = {1}
    Capacity = {1}
    Word = 8
CHECK_DEADLOCK FALSE
PROPERTIES
    RequestsReturn
    StoppedThreadsEnd
