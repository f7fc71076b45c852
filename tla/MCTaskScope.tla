---------------------------- MODULE MCTaskScope -----------------------------
(* A small instance of TaskScope: two tasks, a joining fiber and a foreign    *)
(* thread that joins.                                                      *)
EXTENDS TaskScope

CONSTANTS t1, t2, l1, th1

MCTasks == {t1, t2}
MCLoopJoiners == {l1}
MCThreads == {th1}
MCNone == {}
=============================================================================
