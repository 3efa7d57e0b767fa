SPECIFICATION Spec
CONSTANTS
    None = None
    r1 = r1
    p1 = p1
    m1 = m1
    n1 = n1
    n2 = n2
    ReservationId <- MCReservationId
    PathId <- MCPathId
    NodeId <- MCNodeId
    MeasurementId <- MCMeasurementId
    MeasurementGeneration = {1, 2}
    Ops <- MCFencedOps
    NumWorkers = 2
    MaxConn = 3
    MaxBoot = 3
    MaxEpoch = 1
    MaxCalls = 4
    Bytes = {1}
    Capacity = {1}
    Word = 8
CHECK_DEADLOCK FALSE
PROPERTIES
    SupersededIsFenced
