------------------------------- MODULE MCSocket -------------------------------
EXTENDS Socket

CONSTANTS r1, r2, l1, l2, s1, c1, c2, a1, a2, k1, k2, p1, p2, packetA, packetB

MCRecvs == {r1, r2}
MCTimedRecvs == {r1}
MCSends == {s1}
MCCloses == {c1, c2}
MCPackets == <<packetA, packetB>>
MCListens == {l1, l2}
MCAccepts == {a1, a2}
MCTimedAccepts == {a1}
MCPeers == <<p1, p2>>
MCConnects == {k1, k2}
\* a UDP socket, a server, a client, and a socket that is both
MCWorkloads == {{r1, r2, s1, c1, c2, k1}, {l1, l2, a1, a2, c1, c2},
                {k1, k2, r1, c1, c2}, {l1, a2, k1, c1}}
=============================================================================
