SPECIFICATION Spec

CONSTANTS
    t1 = t1
    w1 = w1
    Tasks <- MCTasks
    Intervals <- MCPositiveIntervals
    MaxTicks = 2
    Waits <- MCWaits

PROPERTY EveryIsPeriodic

CHECK_DEADLOCK FALSE
