SPECIFICATION Spec
CONSTANTS
    f1 = f1
    f2 = f2
    j1 = j1
    j2 = j2
    w1 = w1
    w2 = w2
    t1 = t1
    x1 = x1
    Main = Main
    None = None
    Root = f1
    Fibers <- MCFibers
    Jobs <- MCJobs
    Workers <- MCWorkers
    Foreign <- MCNone
    Throwers <- MCThrowers
INVARIANTS
    JobOnce
    NoLostWakeup
    CountersExact
    FibersAccounted
    DestroyedIsQuiet
    ReturnsOnStop
PROPERTIES
    BlockingReturns
    StopEndsRun
CHECK_DEADLOCK FALSE
