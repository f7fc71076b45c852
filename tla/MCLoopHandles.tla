---------------------------- MODULE MCLoopHandles ----------------------------
EXTENDS LoopHandles

CONSTANTS t1, w1

MCTasks == {t1}
MCIntervals == {-1000, 500, 2000}
MCPositiveIntervals == {500, 2000}
MCWaits == {w1}
=============================================================================
