----------------------------- MODULE TaskScope ------------------------------
(***************************************************************************)
(* One fiberuv::TaskScope (include/fiberuv/fiberuv.hpp) used from the loop *)
(* thread and from foreign threads.                                        *)
(*                                                                         *)
(* EventLoop::spawn starts the fiber of a task on the scheduler of the     *)
(* thread that calls it, so a task lives on the loop thread or on the      *)
(* foreign thread that spawned it.  Fibers of one thread do not preempt    *)
(* each other: `slice' names what each thread executes between two points  *)
(* where it may switch, so that only other threads interleave with it.  A  *)
(* foreign thread that joins blocks as a whole, with all its fibers.       *)
(***************************************************************************)
EXTENDS Naturals, FiniteSets

CONSTANTS
    Tasks,          \* calls of spawn() or go()
    LoopJoiners,    \* fibers of the loop that call join(), join_for() or ~TaskScope
    Threads,        \* foreign threads; each may join once
    Loop,           \* the loop thread
    None

Joiners == LoopJoiners \cup Threads
Schedulers == Threads \cup {Loop}

ASSUME TasksAssumption == IsFiniteSet(Tasks)
ASSUME DisjointAssumption ==
    /\ LoopJoiners \cap Threads = {} /\ Tasks \cap Joiners = {}
    /\ Loop \notin Threads /\ None \notin Tasks \cup Joiners

\* an exception is not taken for another result of a join
ASSUME ResultsAssumption == (Tasks \cup {None}) \cap {"ok", "dead", "timeout"} = {}

VARIABLES
    alive,      \* is_loop_alive(loop_lifetime)
    slice,      \* the fiber or join each thread is in the middle of
    active,
    cancel,     \* cancel_requested
    first,      \* first_exception, by the task that threw it
    tpc,        \* where each task is
    home,       \* the thread whose scheduler has the task's fiber
    failed,     \* history: the tasks that threw
    jpc,        \* where each joiner is
    timed,      \* the joins that are join_for()
    result,     \* how each join ended
    before,     \* history: the tasks spawned when the join began
    late        \* history: the joins called after the loop was gone

taskVars == <<active, first, cancel, tpc, home, failed>>
joinVars == <<jpc, timed, result, before, late>>
vars == <<alive, slice, taskVars, joinVars>>

\* tpc: ready: spawned; ended: the task has returned, or thrown and its exception is
\* recorded; notify_cv, notify_std: fetch_sub returned 1.
\* jpc: locked: holds the lock, about to test the predicate; parking: found it false,
\* not yet in the wait set; parked: in the wait set; awake: predicate true.

Init ==
    /\ alive = TRUE /\ slice = [th \in Schedulers |-> None]
    /\ active = 0 /\ cancel = FALSE /\ first = None /\ failed = {}
    /\ tpc = [t \in Tasks |-> "new"]
    /\ home = [t \in Tasks |-> None]
    /\ jpc = [j \in Joiners |-> "new"]
    /\ result = [j \in Joiners |-> None]
    /\ before = [j \in Joiners |-> {}]
    /\ timed = {} /\ late = {}

Unfinished(t) == tpc[t] \in {"ready", "ended"}

\* x executes on th and is in the middle of a slice afterwards, or not.  The
\* loop thread executes nothing any more once the loop is gone.
Runs(x, th, middle) ==
    /\ th = Loop => alive
    /\ slice[th] \in {None, x}
    /\ slice' = [slice EXCEPT ![th] = IF middle THEN x ELSE None]

-----------------------------------------------------------------------------
(* Tasks *)

\* spawn(), go()
Spawn(th, t) ==
    /\ tpc[t] = "new" /\ alive /\ slice[th] = None
    /\ active' = active + 1
    /\ tpc' = [tpc EXCEPT ![t] = "ready"]
    /\ home' = [home EXCEPT ![t] = th]
    /\ UNCHANGED <<alive, slice, first, cancel, failed, joinVars>>

TaskReturn(t) ==
    /\ tpc[t] = "ready" /\ Runs(t, home[t], TRUE)
    /\ tpc' = [tpc EXCEPT ![t] = "ended"]
    /\ UNCHANGED <<alive, active, first, cancel, home, failed, joinVars>>

\* Faulty: the exception is not stored.
TaskThrowSilent(t) ==
    /\ tpc[t] = "ready" /\ Runs(t, home[t], TRUE)
    /\ failed' = failed \cup {t}
    /\ cancel' = TRUE
    /\ tpc' = [tpc EXCEPT ![t] = "ended"]
    /\ UNCHANGED <<alive, active, first, home, joinVars>>

TaskThrow(t) ==
    /\ tpc[t] = "ready" /\ Runs(t, home[t], TRUE)
    /\ failed' = failed \cup {t}
    /\ first' = IF first = None THEN t ELSE first
    /\ cancel' = TRUE
    /\ tpc' = [tpc EXCEPT ![t] = "ended"]
    /\ UNCHANGED <<alive, active, home, joinVars>>

\* Faulty: nobody is notified.
TaskSubSilent(t) ==
    /\ tpc[t] = "ended" /\ Runs(t, home[t], FALSE)
    /\ active' = active - 1
    /\ tpc' = [tpc EXCEPT ![t] = "done"]
    /\ UNCHANGED <<alive, first, cancel, home, failed, joinVars>>

\* active.fetch_sub(1) == 1
TaskSub(t) ==
    /\ tpc[t] = "ended" /\ Runs(t, home[t], active = 1)
    /\ active' = active - 1
    /\ tpc' = [tpc EXCEPT ![t] = IF active = 1 THEN "notify_cv" ELSE "done"]
    /\ UNCHANGED <<alive, first, cancel, home, failed, joinVars>>

\* The joiners of J in the wait set are woken and test the predicate again.
Notify(J) ==
    /\ jpc' = [j \in Joiners |-> IF j \in J /\ jpc[j] = "parked" THEN "locked" ELSE jpc[j]]
    /\ UNCHANGED <<timed, result, before, late>>

\* cv.notify_all()
TaskNotifyCv(t) ==
    /\ tpc[t] = "notify_cv" /\ Runs(t, home[t], TRUE)
    /\ tpc' = [tpc EXCEPT ![t] = "notify_std"]
    /\ Notify(LoopJoiners)
    /\ UNCHANGED <<alive, active, first, cancel, home, failed>>

\* std_cv.notify_all(), with neither mutex held
TaskNotifyStd(t) ==
    /\ tpc[t] = "notify_std" /\ Runs(t, home[t], FALSE)
    /\ tpc' = [tpc EXCEPT ![t] = "done"]
    /\ Notify(Threads)
    /\ UNCHANGED <<alive, active, first, cancel, home, failed>>

TaskStep(t) ==
    TaskReturn(t) \/ TaskThrow(t) \/ TaskSub(t) \/ TaskNotifyCv(t) \/ TaskNotifyStd(t)

\* request_cancel(), from anywhere
RequestCancel ==
    /\ ~cancel /\ cancel' = TRUE
    /\ UNCHANGED <<alive, slice, active, first, tpc, home, failed, joinVars>>

\* ~EventLoop: the fibers of the loop thread do not run any more.
LoopDies ==
    /\ alive /\ slice[Loop] = None
    /\ alive' = FALSE
    /\ UNCHANGED <<slice, taskVars, joinVars>>

-----------------------------------------------------------------------------
(* join(), join_for(), ~TaskScope *)

\* As Runs, for a joiner: only a fiber gives its thread up to wait.
JoinRuns(j, middle) ==
    IF j \in Threads THEN Runs(j, j, jpc'[j] # "returned") ELSE Runs(j, Loop, middle)

JoinReturn(j, r) ==
    /\ jpc' = [jpc EXCEPT ![j] = "returned"]
    /\ result' = [result EXCEPT ![j] = r]
    /\ UNCHANGED <<timed, before, late>>

\* Once the loop is gone join() returns at once, and join_for() says whether anything
\* runs; neither looks at the first exception.  Otherwise the lock is taken.
JoinBegin(j) ==
    /\ jpc[j] = "new" /\ timed' \in {timed, timed \cup {j}}
    /\ before' = [before EXCEPT ![j] = {t \in Tasks : tpc[t] # "new"}]
    /\ \/ /\ ~alive
          /\ jpc' = [jpc EXCEPT ![j] = "returned"]
          /\ result' = [result EXCEPT ![j] = IF j \in timed' /\ active = 0 THEN "ok" ELSE "dead"]
          /\ late' = late \cup {j}
       \/ /\ alive
          /\ jpc' = [jpc EXCEPT ![j] = "locked"]
          /\ UNCHANGED <<result, late>>
    /\ JoinRuns(j, TRUE)
    /\ UNCHANGED <<alive, taskVars>>

Satisfied(j) == active = 0 \/ (j \in Threads /\ ~alive)

JoinTest(j) ==
    /\ jpc[j] = "locked"
    /\ jpc' = [jpc EXCEPT ![j] = IF Satisfied(j) THEN "awake" ELSE "parking"]
    /\ JoinRuns(j, TRUE)
    /\ UNCHANGED <<alive, taskVars, timed, result, before, late>>

\* The wait set is entered and the joiner's own mutex released.  No notifier
\* takes that mutex.
JoinPark(j) ==
    /\ jpc[j] = "parking"
    /\ jpc' = [jpc EXCEPT ![j] = "parked"]
    /\ JoinRuns(j, FALSE)
    /\ UNCHANGED <<alive, taskVars, timed, result, before, late>>

\* std_cv may wake without a notification.
JoinSpurious(j) ==
    /\ j \in Threads /\ jpc[j] = "parked"
    /\ jpc' = [jpc EXCEPT ![j] = "locked"]
    /\ UNCHANGED <<alive, slice, taskVars, timed, result, before, late>>

\* Faulty: join_for reports success when its time is up.
JoinTimeoutBlind(j) ==
    /\ j \in timed /\ jpc[j] = "parked"
    /\ jpc' = [jpc EXCEPT ![j] = "awake"]
    /\ JoinRuns(j, TRUE)
    /\ UNCHANGED <<alive, taskVars, timed, result, before, late>>

\* wait_for gives up and returns what the predicate says by then.
JoinTimeout(j) ==
    /\ j \in timed /\ jpc[j] = "parked"
    /\ IF Satisfied(j)
       THEN jpc' = [jpc EXCEPT ![j] = "awake"] /\ UNCHANGED <<timed, result, before, late>>
       ELSE JoinReturn(j, "timeout")
    /\ JoinRuns(j, Satisfied(j))
    /\ UNCHANGED <<alive, taskVars>>

\* The loop died under a foreign joiner, or the first exception is looked at.
JoinEnd(j) ==
    /\ jpc[j] = "awake"
    /\ JoinReturn(j, IF j \in Threads /\ ~alive /\ active > 0 THEN "dead"
                     ELSE IF first # None THEN first ELSE "ok")
    /\ JoinRuns(j, FALSE)
    /\ UNCHANGED <<alive, taskVars>>

JoinStep(j) == JoinTest(j) \/ JoinPark(j) \/ JoinEnd(j)

-----------------------------------------------------------------------------

Next ==
    \/ \E t \in Tasks : TaskStep(t) \/ \E th \in Schedulers : Spawn(th, t)
    \/ RequestCancel \/ LoopDies
    \/ \E j \in Joiners : JoinBegin(j) \/ JoinStep(j) \/ JoinSpurious(j) \/ JoinTimeout(j)

\* Tasks end, threads and the round-robin scheduler run what can run, and clocks
\* advance towards absolute deadlines.
Fairness ==
    /\ \A t \in Tasks : SF_vars(TaskStep(t))
    /\ \A j \in LoopJoiners : SF_vars(JoinStep(j))
    /\ \A j \in Threads : WF_vars(JoinStep(j))
    /\ \A j \in Joiners : SF_vars(JoinTimeout(j))

Spec == Init /\ [][Next]_vars /\ Fairness

-----------------------------------------------------------------------------
(* Properties *)

\* Structured concurrency: a join() or join_for() that does not give up, because
\* the loop is gone or the time is up, returns only when every task that was
\* spawned before the call has ended, whatever was spawned or cancelled meanwhile;
\* so does a join_for() that finds the loop gone and returns true.
JoinWaitsForAll ==
    \A j \in Joiners : result[j] \in Tasks \cup {"ok"} =>
        \A t \in before[j] : ~Unfinished(t)

\* No failure is swallowed by a join() or join_for() called while the loop lives: when
\* it completes and a task spawned before the call threw, it rethrows what a task of
\* the scope threw, and the scope is cancelled, even if the loop dies meanwhile.  A
\* join_for() called after the loop is gone returns true in spite of a failure.
FailureReaches ==
    \A j \in Joiners :
        /\ result[j] = "ok" => j \in late \/ before[j] \cap failed = {}
        /\ result[j] \in Tasks => result[j] \in failed /\ cancel

ForeignTask == \E t \in Tasks : home[t] \notin {Loop, None}

\* A join() on the loop thread returns when the tasks of the scope have ended,
\* as long as the loop lives and no foreign thread has spawned into the scope; a
\* join_for() there returns as long as the loop lives, and a join_for() of a foreign
\* thread in any case.
JoinReturns ==
    /\ \A j \in LoopJoiners :
          jpc[j] # "new" ~> jpc[j] = "returned" \/ ~alive \/ (j \notin timed /\ ForeignTask)
    /\ \A j \in Threads : j \in timed ~> jpc[j] = "returned"

\* "RAII auto-join on scope exit": a joiner is not left asleep once every task
\* of the scope has ended and notified.
JoinerNotStranded ==
    \A j \in Joiners \ timed : jpc[j] = "parked" /\ active = 0 =>
        \E t \in Tasks : tpc[t] \in {"notify_cv", "notify_std"}
=============================================================================
