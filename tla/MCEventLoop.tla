---------------------------- MODULE MCEventLoop -----------------------------
(* Small instances of EventLoop.  Two blocking calls and two workers in both: *)
(* with a root fiber, another fiber and a closure that throws; and with the   *)
(* root fiber and a foreign thread that calls run_blocking.                   *)
EXTENDS EventLoop

CONSTANTS f1, f2, j1, j2, w1, w2, t1, x1

MCNone == {}
MCFibers == {f1, f2}
MCRoot == {f1}
MCJobs == {j1, j2}
MCWorkers == {w1, w2}
MCForeign == {t1}
MCThrowers == {x1}
=============================================================================
