SPECIFICATION Spec

CONSTANTS
    s1 = s1
    s2 = s2
    s3 = s3
    r1 = r1
    r2 = r2
    CloseA = CloseA
    CloseB = CloseB
    Sends <- MCSends
    Recvs <- MCRecvs
    Size <- MCSize
    HeaderLen = 2
    Capacity = 2
    PoolSize = 3
    Workloads <- MCWorkloads

INVARIANT FramesIntact

PROPERTY StreamEnds

CHECK_DEADLOCK FALSE
