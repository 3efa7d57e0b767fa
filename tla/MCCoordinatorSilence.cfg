SPECIFICATION FairSpec
CONSTANTS
    None = None
    r1 = r1
    p1 = p1
    m1 = m1
    n1 = n1
    n2 = n2
    ReservationId <- MCReservationId
    PathId <- MCPathId
    NodeId <- MCNodeId
    MeasurementId <- MCMeasurementId
    MeasurementGeneration = {1, 2}
    Ops <- MCInventoryOps
    NumWorkers = 1
    MaxConn = 1
    MaxBoot = 1
    MaxEpoch = 1
    MaxCalls = 2
    Bytes = {1}
    Capacity = {1}
    Word = 8
CHECK_DEADLOCK FALSE
PROPERTIES
    EveryRequestReturns
