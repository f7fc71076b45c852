SPECIFICATION Spec

CONSTANTS
    r1 = r1
    r2 = r2
    s1 = s1
    l1 = l1
    l2 = l2
    c1 = c1
    c2 = c2
    a1 = a1
    a2 = a2
    k1 = k1
    k2 = k2
    p1 = p1
    p2 = p2
    packetA = packetA
    packetB = packetB
    None = None
    Recvs <- MCRecvs
    TimedRecvs <- MCTimedRecvs
    Sends <- MCSends
    Closes <- MCCloses
    Packets <- MCPackets
    Listens <- MCListens
    Workloads <- MCWorkloads
    Accepts <- MCAccepts
    TimedAccepts <- MCTimedAccepts
    Peers <- MCPeers
    Connects <- MCConnects

INVARIANTS
    AcceptExact
    EndingServerOwned
    ClosedReleases
    RecvOwned

PROPERTIES
    CloseReturns
    DatagramsAreMailbox

CHECK_DEADLOCK FALSE
