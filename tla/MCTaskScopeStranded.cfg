SPECIFICATION Spec
CONSTANTS
    t1 = t1
    t2 = t2
    l1 = l1
    th1 = th1
    Loop = Loop
    None = None
    Tasks <- MCTasks
    LoopJoiners <- MCNone
    Threads <- MCThreads
INVARIANTS
    JoinerNotStranded
CHECK_DEADLOCK FALSE
