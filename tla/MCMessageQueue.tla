--------------------------- MODULE MCMessageQueue ---------------------------
(* A small instance of MessageQueue: two sends, a recv and a recv_for, and   *)
(* two blocking receives of which one has a timeout.                         *)
EXTENDS MessageQueue

CONSTANTS m1, m2, f1, f2, t1, t2

MCMessages == {m1, m2}
MCFiberCalls == {f1, f2}
MCThreadCalls == {t1, t2}
MCTimed == {f2, t2}
=============================================================================
