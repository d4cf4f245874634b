SPECIFICATION FairSpec
CONSTANTS
    Schedules <- MCFar
    Before <- MCNone
    Imported <- MCFar
    NoTime <- MCNoTime
    Stride = 10
    Tolerance = 1
    Day = 3
    Retained = 1
    Copies = {}
    MaxTime = 3
    MaxOrders = 1
    MaxFaults = 1
INVARIANTS ModelInForce CoverageTiles
PROPERTY CatchesUp
CHECK_DEADLOCK FALSE
