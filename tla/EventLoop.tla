----------------------------- MODULE EventLoop ------------------------------
(***************************************************************************)
(* fiberuv::EventLoop (include/fiberuv/fiberuv.hpp, src/event_loop.cpp) as *)
(* fiberuv::run(fn) uses it: construct, dispatch the spawn of the root     *)
(* fiber, run(), destroy.                                                  *)
(*                                                                         *)
(* The loop thread is one process: the main fiber, which executes run()    *)
(* and ~EventLoop, and the spawned fibers, scheduled cooperatively by      *)
(* boost's round_robin, so that exactly one of them is current and the     *)
(* others wait in a FIFO.  The blocking workers are OS threads that        *)
(* interleave with it at the granularity of the mutexes.                   *)
(*                                                                         *)
(* uv_async_send only wakes a poll that blocks.  run() polls with          *)
(* UV_RUN_NOWAIT and then drains the task queue itself, so the wakeup has  *)
(* no effect on the order of steps and is left out; the drain inside the   *)
(* async callback and the one after uv_run are one run of Drain steps.     *)
(***************************************************************************)
EXTENDS Naturals, Sequences, FiniteSets

CONSTANTS
    Fibers,     \* fibers that may be spawned, each once
    Root,       \* the fiber fiberuv::run dispatches
    Jobs,       \* calls of run_blocking
    Workers,    \* blocking worker threads
    Foreign,    \* other threads that call run_blocking
    Throwers,   \* dispatched closures that throw
    Main,       \* the main fiber of the loop thread
    None

ASSUME FibersAssumption == Root \in Fibers /\ IsFiniteSet(Fibers)
ASSUME WorkersAssumption == IsFiniteSet(Workers) /\ Workers # {} /\ IsFiniteSet(Foreign)
ASSUME DisjointAssumption ==
    /\ Fibers \cap Jobs = {} /\ Fibers \cap Throwers = {} /\ Jobs \cap Throwers = {}
    /\ Fibers \cap Workers = {} /\ Fibers \cap Foreign = {} /\ Workers \cap Foreign = {}
    /\ Main \notin Fibers
    /\ None \notin Fibers \cup Jobs \cup Workers \cup Foreign

VARIABLES
    main,               \* where the main fiber is in run() or ~EventLoop
    current,            \* the fiber the loop thread executes
    ready,              \* the scheduler's ready queue
    fstate,             \* life cycle of each spawned fiber
    stopping_,
    alive,              \* *lifetime_flag_
    async_open,         \* async_ is an active, referenced handle of loop_
    active_fibers_,
    pending_blocking_,
    loop_tasks_,        \* a fiber to spawn, a promise to set or a thrower
    blocking_jobs_,
    workers_stopping_,
    wstate,             \* where each worker is
    wjob,               \* the job each worker has dequeued and not accounted for
    xstate,             \* where each foreign thread is
    promise,            \* the promise of each run_blocking call
    caller,             \* who waits for it
    unhandled,          \* unhandled_exception_count_
    last                \* last_unhandled_exception_, by the fiber that threw

schedVars   == <<current, ready>>
countVars   == <<active_fibers_, pending_blocking_>>
workerVars  == <<blocking_jobs_, workers_stopping_, wstate, wjob>>
promiseVars == <<promise, caller, xstate>>
flagVars    == <<stopping_, alive, async_open>>
errorVars   == <<unhandled, last>>
vars == <<main, schedVars, fstate, flagVars, countVars, loop_tasks_,
          workerVars, promiseVars, errorVars>>

\* fstate: new; posted: a closure that will spawn it is dispatched; live: ready or
\* current; notify: in run_blocking, the job is pushed and blocking_cv_ not yet
\* notified; blocked: in run_blocking's future.get(); done; threw.
Active == {f \in Fibers : fstate[f] \in {"live", "notify", "blocked"}}

\* main: check, drain, yield: run(); returned, threw: run() has ended; notify, join,
\* close, final: ~EventLoop; terminated: an exception has left ~EventLoop.
InRun == main \in {"check", "drain", "yield"}

\* wstate: awake: about to lock blocking_mutex_; waiting: in blocking_cv_'s wait set;
\* running: executing the closure of wjob; posted: its result is posted and
\* pending_blocking_ not yet decremented; nest_notify, nested: inside a
\* run_blocking the job itself called; exited.

\* EventLoop(), then dispatch of the root fiber, then run()
Init ==
    /\ main = "check" /\ current = Main /\ ready = <<>>
    /\ fstate = [f \in Fibers |-> IF f = Root THEN "posted" ELSE "new"]
    /\ stopping_ = FALSE /\ alive = TRUE /\ async_open = TRUE
    /\ active_fibers_ = 0 /\ pending_blocking_ = 0
    /\ loop_tasks_ = <<Root>>
    /\ blocking_jobs_ = <<>> /\ workers_stopping_ = FALSE
    /\ wstate = [w \in Workers |-> "awake"]
    /\ wjob = [w \in Workers |-> None]
    /\ promise = [j \in Jobs |-> "new"]
    /\ caller = [j \in Jobs |-> None]
    /\ xstate = [x \in Foreign |-> "free"]
    /\ unhandled = 0 /\ last = None

-----------------------------------------------------------------------------
(* Any thread, while the loop is alive *)

\* post_to_loop(fn)
Post(t) == loop_tasks_' = Append(loop_tasks_, t)

\* dispatch(fn): fn spawns a fiber or throws
Dispatch(t) ==
    /\ alive
    /\ \/ /\ t \in Fibers /\ fstate[t] = "new"
          /\ fstate' = [fstate EXCEPT ![t] = "posted"]
       \/ /\ t \in Throwers
          /\ \A i \in DOMAIN loop_tasks_ : loop_tasks_[i] # t
          /\ UNCHANGED fstate
    /\ Post(t)
    /\ UNCHANGED <<main, schedVars, flagVars, countVars, workerVars, promiseVars, errorVars>>

Stop ==
    /\ alive /\ ~stopping_
    /\ stopping_' = TRUE
    /\ UNCHANGED <<main, schedVars, fstate, alive, async_open, countVars, loop_tasks_,
                   workerVars, promiseVars, errorVars>>

\* take_last_unhandled_exception()
TakeLast ==
    /\ alive /\ last # None
    /\ last' = None
    /\ UNCHANGED <<main, schedVars, fstate, flagVars, countVars, loop_tasks_,
                   workerVars, promiseVars, unhandled>>

-----------------------------------------------------------------------------
(* The scheduler and the fibers *)

\* The current fiber leaves the processor; r is the ready queue it leaves.
Switch(r) == current' = Head(r) /\ ready' = Tail(r)

\* spawn(), called on the loop thread
Spawn(f) ==
    /\ fstate' = [fstate EXCEPT ![f] = "live"]
    /\ active_fibers_' = active_fibers_ + 1
    /\ ready' = Append(ready, f)

FiberSpawn(f, g) ==
    /\ current = f /\ fstate[f] = "live" /\ fstate[g] = "new"
    /\ Spawn(g)
    /\ UNCHANGED <<main, current, flagVars, pending_blocking_, loop_tasks_, workerVars,
                   promiseVars, errorVars>>

FiberYield(f) ==
    /\ current = f /\ fstate[f] = "live"
    /\ Switch(Append(ready, f))
    /\ UNCHANGED <<main, fstate, flagVars, countVars, loop_tasks_, workerVars,
                   promiseVars, errorVars>>

\* run_blocking up to the end of its critical section
Submit(c, j) ==
    /\ promise[j] = "new"
    /\ promise' = [promise EXCEPT ![j] = "unset"]
    /\ caller' = [caller EXCEPT ![j] = c]
    /\ pending_blocking_' = pending_blocking_ + 1
    /\ blocking_jobs_' = Append(blocking_jobs_, j)

FiberSubmit(f, j) ==
    /\ current = f /\ fstate[f] = "live"
    /\ Submit(f, j)
    /\ fstate' = [fstate EXCEPT ![f] = "notify"]
    /\ UNCHANGED <<main, schedVars, flagVars, active_fibers_, loop_tasks_,
                   workers_stopping_, wstate, wjob, xstate, errorVars>>

\* Faulty: the job is pushed and no worker is told.
NotifyNone(ws) == wstate' = ws

Waiting == {w \in Workers : wstate[w] = "waiting"}

\* blocking_cv_.notify_one(); ws is the worker state it acts on
NotifyOne(ws) ==
    IF Waiting = {}
    THEN wstate' = ws
    ELSE \E w \in Waiting : wstate' = [ws EXCEPT ![w] = "awake"]

\* blocking_cv_.notify_one() and future.get(), which suspends the fiber
FiberNotify(f) ==
    /\ current = f /\ fstate[f] = "notify"
    /\ NotifyOne(wstate)
    /\ fstate' = [fstate EXCEPT ![f] = "blocked"]
    /\ Switch(ready)
    /\ UNCHANGED <<main, flagVars, countVars, loop_tasks_, blocking_jobs_,
                   workers_stopping_, wjob, promiseVars, errorVars>>

\* report_unhandled_exception(ex)
Report(f) == unhandled' = unhandled + 1 /\ last' = f

\* Faulty: the counter goes down only on the normal path.
FiberEndLeak(f) ==
    /\ current = f /\ fstate[f] = "live"
    /\ \/ /\ fstate' = [fstate EXCEPT ![f] = "done"]
          /\ active_fibers_' = active_fibers_ - 1
          /\ UNCHANGED errorVars
       \/ /\ fstate' = [fstate EXCEPT ![f] = "threw"]
          /\ Report(f)
          /\ UNCHANGED active_fibers_
    /\ Switch(ready)
    /\ UNCHANGED <<main, flagVars, pending_blocking_, loop_tasks_, workerVars, promiseVars>>

\* The task of a fiber returns, or throws and is reported
FiberEnd(f) ==
    /\ current = f /\ fstate[f] = "live"
    /\ \/ /\ fstate' = [fstate EXCEPT ![f] = "done"]
          /\ UNCHANGED errorVars
       \/ /\ fstate' = [fstate EXCEPT ![f] = "threw"]
          /\ Report(f)
    /\ active_fibers_' = active_fibers_ - 1
    /\ Switch(ready)
    /\ UNCHANGED <<main, flagVars, pending_blocking_, loop_tasks_, workerVars, promiseVars>>

\* c is inside a run_blocking call whose result is still to come.
Awaits(c, j) == caller[j] = c /\ promise[j] = "unset"

\* run_blocking on another thread, which future.get() blocks as a whole
ForeignSubmit(x, j) ==
    /\ alive /\ xstate[x] = "free"
    /\ Submit(x, j)
    /\ xstate' = [xstate EXCEPT ![x] = "notify"]
    /\ UNCHANGED <<main, schedVars, fstate, flagVars, active_fibers_, loop_tasks_,
                   workers_stopping_, wstate, wjob, errorVars>>

ForeignNotify(x) ==
    /\ xstate[x] = "notify"
    /\ NotifyOne(wstate)
    /\ xstate' = [xstate EXCEPT ![x] = "blocked"]
    /\ UNCHANGED <<main, schedVars, fstate, flagVars, countVars, loop_tasks_,
                   blocking_jobs_, workers_stopping_, wjob, promise, caller, errorVars>>

ForeignReturn(x) ==
    /\ xstate[x] = "blocked"
    /\ \A j \in Jobs : ~Awaits(x, j)
    /\ xstate' = [xstate EXCEPT ![x] = "free"]
    /\ UNCHANGED <<main, schedVars, fstate, flagVars, countVars, loop_tasks_,
                   workerVars, promise, caller, errorVars>>

ForeignStep(x) == ForeignNotify(x) \/ ForeignReturn(x)

FiberStep(f) ==
    \/ \E g \in Fibers : FiberSpawn(f, g)
    \/ \E j \in Jobs : FiberSubmit(f, j)
    \/ FiberYield(f) \/ FiberNotify(f) \/ FiberEnd(f)

-----------------------------------------------------------------------------
(* The worker threads: start_workers and the closure run_blocking queues *)

\* Faulty: the job is copied and left in the queue.
WorkerPeek(w) ==
    /\ wstate[w] = "awake" /\ blocking_jobs_ # <<>>
    /\ wstate' = [wstate EXCEPT ![w] = "running"]
    /\ wjob' = [wjob EXCEPT ![w] = Head(blocking_jobs_)]
    /\ UNCHANGED <<main, schedVars, fstate, flagVars, countVars, loop_tasks_,
                   blocking_jobs_, workers_stopping_, promiseVars, errorVars>>

\* Critical section of a worker that finds a job
WorkerTake(w) ==
    /\ wstate[w] = "awake" /\ blocking_jobs_ # <<>>
    /\ wstate' = [wstate EXCEPT ![w] = "running"]
    /\ wjob' = [wjob EXCEPT ![w] = Head(blocking_jobs_)]
    /\ blocking_jobs_' = Tail(blocking_jobs_)
    /\ UNCHANGED <<main, schedVars, fstate, flagVars, countVars, loop_tasks_,
                   workers_stopping_, promiseVars, errorVars>>

WorkerWait(w) ==
    /\ wstate[w] = "awake" /\ blocking_jobs_ = <<>> /\ ~workers_stopping_
    /\ wstate' = [wstate EXCEPT ![w] = "waiting"]
    /\ UNCHANGED <<main, schedVars, fstate, flagVars, countVars, loop_tasks_,
                   blocking_jobs_, workers_stopping_, wjob, promiseVars, errorVars>>

\* Faulty: a stopping worker leaves with jobs still queued.
WorkerExitEager(w) ==
    /\ wstate[w] = "awake" /\ workers_stopping_
    /\ wstate' = [wstate EXCEPT ![w] = "exited"]
    /\ UNCHANGED <<main, schedVars, fstate, flagVars, countVars, loop_tasks_,
                   blocking_jobs_, workers_stopping_, wjob, promiseVars, errorVars>>

WorkerExit(w) ==
    /\ wstate[w] = "awake" /\ blocking_jobs_ = <<>> /\ workers_stopping_
    /\ wstate' = [wstate EXCEPT ![w] = "exited"]
    /\ UNCHANGED <<main, schedVars, fstate, flagVars, countVars, loop_tasks_,
                   blocking_jobs_, workers_stopping_, wjob, promiseVars, errorVars>>

\* Faulty: a task that throws is counted down and its exception not posted.
WorkerSwallow(w) ==
    /\ wstate[w] = "running"
    /\ wstate' = [wstate EXCEPT ![w] = "posted"]
    /\ UNCHANGED <<main, schedVars, fstate, flagVars, countVars, loop_tasks_,
                   blocking_jobs_, workers_stopping_, wjob, promiseVars, errorVars>>

\* The task has returned or thrown; either way its outcome is posted.
WorkerPost(w) ==
    /\ wstate[w] = "running"
    /\ wstate' = [wstate EXCEPT ![w] = "posted"]
    /\ Post(wjob[w])
    /\ UNCHANGED <<main, schedVars, fstate, flagVars, countVars, blocking_jobs_,
                   workers_stopping_, wjob, promiseVars, errorVars>>

WorkerCount(w) ==
    /\ wstate[w] = "posted"
    /\ wstate' = [wstate EXCEPT ![w] = "awake"]
    /\ wjob' = [wjob EXCEPT ![w] = None]
    /\ pending_blocking_' = pending_blocking_ - 1
    /\ UNCHANGED <<main, schedVars, fstate, flagVars, active_fibers_, loop_tasks_,
                   blocking_jobs_, workers_stopping_, promiseVars, errorVars>>

\* The task itself calls run_blocking
WorkerNest(w, j) ==
    /\ wstate[w] = "running"
    /\ Submit(w, j)
    /\ wstate' = [wstate EXCEPT ![w] = "nest_notify"]
    /\ UNCHANGED <<main, schedVars, fstate, flagVars, active_fibers_, loop_tasks_,
                   workers_stopping_, wjob, xstate, errorVars>>

WorkerNestNotify(w) ==
    /\ wstate[w] = "nest_notify"
    /\ NotifyOne([wstate EXCEPT ![w] = "nested"])
    /\ UNCHANGED <<main, schedVars, fstate, flagVars, countVars, loop_tasks_,
                   blocking_jobs_, workers_stopping_, wjob, promiseVars, errorVars>>

\* future.get() of the nested call returns
WorkerResume(w) ==
    /\ wstate[w] = "nested"
    /\ \A j \in Jobs : ~Awaits(w, j)
    /\ wstate' = [wstate EXCEPT ![w] = "running"]
    /\ UNCHANGED <<main, schedVars, fstate, flagVars, countVars, loop_tasks_,
                   blocking_jobs_, workers_stopping_, wjob, promiseVars, errorVars>>

WorkerStep(w) ==
    \/ WorkerTake(w) \/ WorkerWait(w) \/ WorkerExit(w)
    \/ WorkerPost(w) \/ WorkerCount(w)
    \/ WorkerNestNotify(w) \/ WorkerResume(w)

-----------------------------------------------------------------------------
(* The main fiber: run(), drain_loop_tasks() *)

\* Faulty: stopping_ is not looked at.
CheckBlind ==
    /\ current = Main /\ main = "check"
    /\ main' = "drain"
    /\ UNCHANGED <<schedVars, fstate, flagVars, countVars, loop_tasks_, workerVars,
                   promiseVars, errorVars>>

Check ==
    /\ current = Main /\ main = "check"
    /\ main' = IF stopping_ THEN "returned" ELSE "drain"
    /\ UNCHANGED <<schedVars, fstate, flagVars, countVars, loop_tasks_, workerVars,
                   promiseVars, errorVars>>

Pop == loop_tasks_ # <<>> /\ loop_tasks_' = Tail(loop_tasks_)

DrainSpawn ==
    /\ current = Main /\ main \in {"drain", "final"}
    /\ Pop /\ Head(loop_tasks_) \in Fibers
    /\ Spawn(Head(loop_tasks_))
    /\ UNCHANGED <<main, current, flagVars, pending_blocking_, workerVars, promiseVars,
                   errorVars>>

\* Faulty: the promise is set and the waiting fiber is not made ready.
DrainResolveSilent ==
    /\ current = Main /\ main \in {"drain", "final"}
    /\ Pop /\ Head(loop_tasks_) \in Jobs
    /\ LET j == Head(loop_tasks_) IN
       /\ promise' = [promise EXCEPT ![j] = "set"]
       /\ fstate' = [f \in Fibers |-> IF f = caller[j] THEN "live" ELSE fstate[f]]
    /\ UNCHANGED <<main, schedVars, flagVars, countVars, workerVars, caller, xstate, errorVars>>

\* promise->set_value() or set_exception(): a waiting fiber becomes ready
DrainResolve ==
    /\ current = Main /\ main \in {"drain", "final"}
    /\ Pop /\ Head(loop_tasks_) \in Jobs
    /\ LET j == Head(loop_tasks_) IN
       /\ promise' = [promise EXCEPT ![j] = "set"]
       /\ \/ /\ caller[j] \in Fibers
             /\ fstate' = [fstate EXCEPT ![caller[j]] = "live"]
             /\ ready' = Append(ready, caller[j])
          \/ /\ caller[j] \notin Fibers
             /\ UNCHANGED <<fstate, ready>>
    /\ UNCHANGED <<main, current, flagVars, countVars, workerVars, caller, xstate, errorVars>>

\* The exception leaves drain_loop_tasks and run(), or the destructor.
DrainThrow ==
    /\ current = Main /\ main \in {"drain", "final"}
    /\ Pop /\ Head(loop_tasks_) \in Throwers
    /\ main' = IF main = "drain" THEN "threw" ELSE "terminated"
    /\ UNCHANGED <<schedVars, fstate, flagVars, countVars, workerVars, promiseVars,
                   errorVars>>

Drain == DrainSpawn \/ DrainResolve \/ DrainThrow

\* this_fiber::yield()
Yield ==
    /\ current = Main /\ main = "drain" /\ loop_tasks_ = <<>>
    /\ main' = "yield"
    /\ Switch(Append(ready, Main))
    /\ UNCHANGED <<fstate, flagVars, countVars, loop_tasks_, workerVars, promiseVars,
                   errorVars>>

\* uv_loop_alive(): async_ is active and referenced until ~EventLoop closes it.
uv_loop_alive == async_open

\* Faulty: as if async_ were unreferenced.
IdleUnreferenced ==
    /\ active_fibers_ = 0
    /\ pending_blocking_ = 0
    /\ loop_tasks_ = <<>>

Idle ==
    /\ ~uv_loop_alive
    /\ active_fibers_ = 0
    /\ pending_blocking_ = 0
    /\ loop_tasks_ = <<>>

IdleCheck ==
    /\ current = Main /\ main = "yield"
    /\ main' = IF Idle THEN "returned" ELSE "check"
    /\ UNCHANGED <<schedVars, fstate, flagVars, countVars, loop_tasks_, workerVars,
                   promiseVars, errorVars>>

-----------------------------------------------------------------------------
(* The main fiber: ~EventLoop *)

\* lifetime_flag_, stop(), and stop_workers' critical section
DestroyBegin ==
    /\ main \in {"returned", "threw"}
    /\ main' = "notify"
    /\ alive' = FALSE /\ stopping_' = TRUE /\ workers_stopping_' = TRUE
    /\ UNCHANGED <<schedVars, fstate, async_open, countVars, loop_tasks_, blocking_jobs_,
                   wstate, wjob, promiseVars, errorVars>>

\* blocking_cv_.notify_all()
DestroyNotify ==
    /\ main = "notify" /\ main' = "join"
    /\ wstate' = [w \in Workers |-> IF w \in Waiting THEN "awake" ELSE wstate[w]]
    /\ UNCHANGED <<schedVars, fstate, flagVars, countVars, loop_tasks_, blocking_jobs_,
                   workers_stopping_, wjob, promiseVars, errorVars>>

\* Faulty: the workers are told to stop but not joined.
DestroyDetach ==
    /\ main = "join" /\ main' = "close"
    /\ UNCHANGED <<schedVars, fstate, flagVars, countVars, loop_tasks_, workerVars,
                   promiseVars, errorVars>>

DestroyJoin ==
    /\ main = "join" /\ main' = "close"
    /\ \A w \in Workers : wstate[w] = "exited"
    /\ UNCHANGED <<schedVars, fstate, flagVars, countVars, loop_tasks_, workerVars,
                   promiseVars, errorVars>>

\* uv_close of every handle and uv_run until none is left
DestroyClose ==
    /\ main = "close" /\ main' = "final"
    /\ async_open' = FALSE
    /\ UNCHANGED <<schedVars, fstate, stopping_, alive, countVars, loop_tasks_, workerVars,
                   promiseVars, errorVars>>

\* The last drain_loop_tasks() finds the queue empty
DestroyEnd ==
    /\ main = "final" /\ loop_tasks_ = <<>>
    /\ main' = "destroyed"
    /\ UNCHANGED <<schedVars, fstate, flagVars, countVars, loop_tasks_, workerVars,
                   promiseVars, errorVars>>

Destroy == DestroyBegin \/ DestroyNotify \/ DestroyJoin \/ DestroyClose \/ DestroyEnd

-----------------------------------------------------------------------------

LoopStep ==
    \/ Check \/ Drain \/ Yield \/ IdleCheck \/ Destroy
    \/ \E f \in Fibers : FiberStep(f)

Next ==
    \/ \E t \in Fibers \cup Throwers : Dispatch(t)
    \/ Stop \/ TakeLast
    \/ LoopStep
    \/ \E x \in Foreign : ForeignStep(x) \/ \E j \in Jobs : ForeignSubmit(x, j)
    \/ \E w \in Workers : WorkerStep(w) \/ \E j \in Jobs : WorkerNest(w, j)

\* The operating system runs the threads, and a blocking
\* task ends.  Nothing obliges anybody to dispatch, to stop or to nest a call.
Fairness ==
    /\ WF_vars(LoopStep)
    /\ \A w \in Workers : WF_vars(WorkerStep(w))
    /\ \A x \in Foreign : WF_vars(ForeignStep(x))

Spec == Init /\ [][Next]_vars /\ Fairness

-----------------------------------------------------------------------------
(* Properties *)

Queued(j) == \E i \in DOMAIN blocking_jobs_ : blocking_jobs_[i] = j
Held(j) == \E w \in Workers : wjob[w] = j /\ wstate[w] # "posted"
Posted(j) == \E i \in DOMAIN loop_tasks_ : loop_tasks_[i] = j

\* A run_blocking call is executed exactly once: while its promise is unset its
\* job is in exactly one of blocking_jobs_, a worker's hands or loop_tasks_, in
\* one copy, and otherwise it is nowhere, so no promise is set twice.
JobOnce ==
    /\ \A j \in Jobs :
          /\ promise[j] = "unset" <=> Queued(j) \/ Held(j) \/ Posted(j)
          /\ ~(Queued(j) /\ Held(j)) /\ ~(Queued(j) /\ Posted(j)) /\ ~(Held(j) /\ Posted(j))
    /\ \A i, k \in DOMAIN blocking_jobs_ : blocking_jobs_[i] = blocking_jobs_[k] => i = k
    /\ \A i, k \in DOMAIN loop_tasks_ :
          loop_tasks_[i] \in Jobs /\ loop_tasks_[i] = loop_tasks_[k] => i = k
    /\ \A v, w \in Workers : wjob[v] = wjob[w] /\ wjob[v] # None => v = w

\* blocking_cv_ loses no wakeup although notify_one runs outside the mutex:
\* while a worker waits, every queued job has a worker that is awake, or a
\* notify_one still to come.
NoLostWakeup ==
    Waiting # {} =>
        Len(blocking_jobs_) <=
            Cardinality({w \in Workers : wstate[w] \in {"awake", "nest_notify"}})
            + Cardinality({f \in Fibers : fstate[f] = "notify"})
            + Cardinality({x \in Foreign : xstate[x] = "notify"})

\* The counters are exact: active_fibers_ counts the fibers spawned and not
\* ended, pending_blocking_ the jobs queued or in a worker's hands, and every
\* fiber that ended with an exception was reported once.
CountersExact ==
    /\ active_fibers_ = Cardinality(Active)
    /\ pending_blocking_ =
          Len(blocking_jobs_) + Cardinality({w \in Workers : wjob[w] # None})
    /\ unhandled = Cardinality({f \in Fibers : fstate[f] = "threw"})

\* What run() reads before it declares itself idle is sound: when both counters
\* are zero and no task is queued, no run_blocking promise is unset.  For calls
\* of foreign threads, which active_fibers_ does not count, it rests on the
\* result being posted before pending_blocking_ goes down.
IdleMeansQuiet ==
    active_fibers_ = 0 /\ pending_blocking_ = 0 /\ loop_tasks_ = <<>> =>
        \A j \in Jobs : promise[j] # "unset"

\* No fiber is lost or scheduled twice: a fiber that can run is current or
\* exactly once in the ready queue, and a suspended one is the caller of exactly
\* one run_blocking whose promise is unset.
FibersAccounted ==
    /\ \A f \in Fibers :
          /\ fstate[f] = "live" =>
                f = current \/ \E i \in DOMAIN ready : ready[i] = f
          /\ fstate[f] \in {"notify", "blocked"} <=> \E j \in Jobs : Awaits(f, j)
          /\ \A j, k \in Jobs : Awaits(f, j) /\ Awaits(f, k) => j = k
    /\ \A i \in DOMAIN ready :
          /\ ready[i] # current
          /\ ready[i] # Main => fstate[ready[i]] = "live"
          /\ \A k \in DOMAIN ready : ready[i] = ready[k] => i = k

\* ~EventLoop leaves nothing behind: when it has finished, every worker has
\* exited, no job or task is queued and every run_blocking promise is set, so
\* no worker touches the destroyed loop and no promise is broken.
DestroyedIsQuiet ==
    main = "destroyed" =>
        /\ \A w \in Workers : wstate[w] = "exited"
        /\ blocking_jobs_ = <<>> /\ loop_tasks_ = <<>>
        /\ \A j \in Jobs : promise[j] # "unset"

\* run() returns normally only after stop(): its idle exit is never taken, since
\* the referenced async_ handle keeps uv_loop_alive true.
ReturnsOnStop == main = "returned" => stopping_

\* Every worker is inside a nested run_blocking whose job nobody can dequeue.
Starved ==
    \A w \in Workers :
        wstate[w] = "nested" /\ \E j \in Jobs : Awaits(w, j) /\ Queued(j)

\* ~EventLoop joins a worker whose nested call only the loop could complete.
JoinStuck ==
    main = "join" /\ \E w \in Workers, j \in Jobs : wstate[w] = "nested" /\ Awaits(w, j)

\* Every run_blocking call gets its result, even across stop() and an exception
\* that ends run(), because ~EventLoop completes the queued jobs; except when
\* nested calls exhaust the pool, when ~EventLoop joins a worker that is inside
\* a nested call, or when a closure throws out of ~EventLoop.
BlockingReturns ==
    \A j \in Jobs :
        promise[j] = "unset" ~>
            promise[j] = "set" \/ Starved \/ JoinStuck \/ main = "terminated"

\* stop() ends run(), whatever the fibers and the workers do meanwhile.
StopEndsRun == stopping_ ~> ~InRun
=============================================================================
