----------------------------- MODULE MCTcpClient -----------------------------
EXTENDS TcpClient

CONSTANTS r1, r2, r3, w1, c1, c2, chunkA, chunkB

MCReads == {r1, r2, r3}
MCTimedReads == {r1}
MCWrites == {w1}
MCCloses == {c1, c2}
MCStream == <<chunkA, chunkB>>
=============================================================================
