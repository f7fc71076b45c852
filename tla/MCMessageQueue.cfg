SPECIFICATION Spec
CONSTANTS
    m1 = m1
    m2 = m2
    f1 = f1
    f2 = f2
    t1 = t1
    t2 = t2
    NullOpt = NullOpt
    Unset = Unset
    Messages <- MCMessages
    FiberCalls <- MCFiberCalls
    ThreadCalls <- MCThreadCalls
    Timed <- MCTimed
INVARIANTS
    TypeOK
    FifoOrder
    WaitersSound
    DeliveredOnce
    LostOnlyToTimeout
    NoLostSignal
PROPERTIES
    ReceiveReturns
CHECK_DEADLOCK FALSE
