SPECIFICATION Spec
CONSTANTS
    f1 = f1
    f2 = f2
    j1 = j1
    j2 = j2
    w1 = w1
    w2 = w2
    t1 = t1
    x1 = x1
    Main = Main
    None = None
    Root = f1
    Fibers <- MCRoot
    Jobs <- MCJobs
    Workers <- MCWorkers
    Foreign <- MCForeign
    Throwers <- MCNone
INVARIANTS
    IdleMeansQuiet
PROPERTIES
    BlockingReturns
CHECK_DEADLOCK FALSE
