SPECIFICATION Spec
CONSTANTS
    Schedules <- MCSchedules
    Before <- MCBefore
    Imported <- MCImported
    NoTime <- MCNoTime
    Stride = 10
    Tolerance = 1
    Day = 3
    Retained = 2
    Copies = {1, 2, 3}
    MaxTime = 3
    MaxOrders = 1
    MaxFaults = 0
INVARIANTS FindingsExact AnnouncedOnce MatchingMaximum
CHECK_DEADLOCK FALSE
