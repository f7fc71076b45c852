SPECIFICATION Spec

CONSTANTS
    t1 = t1
    w1 = w1
    Tasks <- MCTasks
    Intervals <- MCIntervals
    MaxTicks = 2
    Waits <- MCWaits

INVARIANT HandlesOwned

PROPERTIES
    StopIsFinal
    KeepsTicking
    WaitsReturn

CHECK_DEADLOCK FALSE
