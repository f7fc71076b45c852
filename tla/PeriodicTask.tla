----------------------------- MODULE PeriodicTask -----------------------------
(***************************************************************************)
(* fiberuv::PeriodicTask and every() (src/event_loop.cpp): a repeating     *)
(* libuv timer whose callback spawns a fiber for each tick, started and    *)
(* stopped from the loop thread or, by a closure that is dispatched to the *)
(* loop, from another thread.                                              *)
(***************************************************************************)
EXTENDS UvLoop, Integers, Sequences

CONSTANTS
    Tasks,
    Intervals,      \* the durations given to every(), in microseconds
    MaxTicks        \* bound: tick fibers spawned and not yet run

ASSUME IntervalsAssumption == Intervals \subseteq Int

VARIABLES
    task,       \* the Impl of each task and its timer
    posted,     \* closures dispatched to the loop by other threads
    ticks,      \* tick fibers of each task that have not run yet
    parity,     \* flips each time the timer of a task fires a tick
    asked       \* stop() was called on the task: "no", "posted", "done"

taskVars == <<task, posted, ticks, parity, asked>>

\* uv: gone, armed, idle (open, not armed) or closing; cb: uv_close was given
\* on_periodic_timer_closed
NoTask == [started |-> FALSE, initialized |-> FALSE, active |-> FALSE, stopping |-> FALSE,
           keepalive |-> FALSE, repeat |-> 0, uv |-> "gone", cb |-> FALSE]

TaskInit ==
    /\ task = [t \in Tasks |-> NoTask]
    /\ posted = <<>>
    /\ ticks = [t \in Tasks |-> 0]
    /\ parity = [t \in Tasks |-> 0]
    /\ asked = [t \in Tasks |-> "no"]

\* the interval of every(): duration_cast<milliseconds> truncates, a negative one is 0
Milliseconds(d) == IF d < 0 THEN 0 ELSE d \div 1000

\* start_periodic_on_loop; ok: uv_timer_start succeeds
Started(s, d, ok) ==
    IF ~is_loop_alive THEN [s EXCEPT !.started = TRUE]
    ELSE IF ~ok THEN [s EXCEPT !.started = TRUE, !.keepalive = TRUE, !.uv = "closing", !.cb = TRUE]
    ELSE [s EXCEPT !.started = TRUE, !.keepalive = TRUE, !.repeat = Milliseconds(d),
                   !.uv = "armed", !.initialized = TRUE, !.active = TRUE]

\* every() on the loop thread
Every(t, d, ok) ==
    /\ is_loop_alive /\ ~task[t].started
    /\ \A i \in DOMAIN posted : posted[i].task # t
    /\ task' = [task EXCEPT ![t] = Started(@, d, ok)]
    /\ UNCHANGED <<loop, posted, ticks, parity, asked>>

\* every() on another thread, up to future.get()
EveryForeign(t, d) ==
    /\ is_loop_alive /\ ~task[t].started
    /\ \A i \in DOMAIN posted : posted[i].task # t
    /\ posted' = Append(posted, [op |-> "start", task |-> t, interval |-> d])
    /\ UNCHANGED <<loop, task, ticks, parity, asked>>

\* Faulty: the task lets go of itself before its timer is closed.
StoppedEager(s) ==
    IF ~s.initialized \/ s.stopping THEN s
    ELSE IF s.uv \in {"armed", "idle"}
    THEN [s EXCEPT !.stopping = TRUE, !.uv = "closing", !.cb = TRUE, !.keepalive = FALSE]
    ELSE [s EXCEPT !.active = FALSE, !.stopping = FALSE, !.keepalive = FALSE]

\* Faulty: the timer is stopped and never closed.
StoppedUnclosed(s) ==
    IF ~s.initialized \/ s.stopping THEN s
    ELSE IF s.uv \in {"armed", "idle"} THEN [s EXCEPT !.stopping = TRUE, !.uv = "idle"]
    ELSE [s EXCEPT !.active = FALSE, !.stopping = FALSE, !.keepalive = FALSE]

\* stop_periodic_on_loop
Stopped(s) ==
    IF ~s.initialized \/ s.stopping THEN s
    ELSE IF s.uv \in {"armed", "idle"}
    THEN [s EXCEPT !.stopping = TRUE, !.uv = "closing", !.cb = TRUE]
    ELSE [s EXCEPT !.active = FALSE, !.stopping = FALSE, !.keepalive = FALSE]

\* stop() and ~PeriodicTask on the loop thread: when every() threw, there is no
\* PeriodicTask to stop; the second branch is for a loop that is gone
Stop(t) ==
    /\ FibersRun /\ task[t].initialized
    /\ task' = [task EXCEPT ![t] =
         IF is_loop_alive THEN Stopped(@)
         ELSE [@ EXCEPT !.active = FALSE, !.stopping = FALSE, !.keepalive = FALSE]]
    /\ asked' = [asked EXCEPT ![t] = "done"]
    /\ UNCHANGED <<loop, posted, ticks, parity>>

\* stop() on another thread while the loop is alive
StopForeign(t) ==
    /\ is_loop_alive /\ task[t].initialized /\ asked[t] = "no"
    /\ posted' = Append(posted, [op |-> "stop", task |-> t, interval |-> 0])
    /\ asked' = [asked EXCEPT ![t] = "posted"]
    /\ UNCHANGED <<loop, task, ticks, parity>>

\* drain_loop_tasks calls the closures in order; ~EventLoop does so at the end
RunPosted(ok) ==
    /\ CallbacksRun /\ posted # <<>>
    /\ loop = "dying" => \A t \in Tasks : task[t].uv # "closing"
    /\ LET p == Head(posted)
       IN  /\ task' = [task EXCEPT ![p.task] =
                IF p.op = "start" THEN Started(@, p.interval, ok) ELSE Stopped(@)]
           /\ asked' = [asked EXCEPT ![p.task] = IF p.op = "stop" THEN "done" ELSE @]
    /\ posted' = Tail(posted)
    /\ UNCHANGED <<loop, ticks, parity>>

\* Faulty: the timer is started without its repeat.
OnPeriodicTimerOnce(t) ==
    /\ CallbacksRun /\ task[t].uv = "armed" /\ ticks[t] < MaxTicks
    /\ task' = [task EXCEPT ![t].uv = "idle"]
    /\ ticks' = [ticks EXCEPT ![t] = @ + 1]
    /\ parity' = [parity EXCEPT ![t] = 1 - @]
    /\ UNCHANGED <<loop, posted, asked>>

\* on_periodic_timer; a timer without a repeat is not armed again
OnPeriodicTimer(t) ==
    /\ CallbacksRun /\ task[t].uv = "armed" /\ ticks[t] < MaxTicks
    /\ task' = [task EXCEPT ![t].uv = IF task[t].repeat = 0 THEN "idle" ELSE "armed"]
    /\ IF task[t].active /\ ~task[t].stopping
       THEN /\ ticks' = [ticks EXCEPT ![t] = @ + 1]
            /\ parity' = [parity EXCEPT ![t] = 1 - @]
       ELSE UNCHANGED <<ticks, parity>>
    /\ UNCHANGED <<loop, posted, asked>>

\* a tick fiber runs the function of the task
Tick(t) ==
    /\ FibersRun /\ ticks[t] > 0
    /\ ticks' = [ticks EXCEPT ![t] = @ - 1]
    /\ UNCHANGED <<loop, task, posted, parity, asked>>

\* on_periodic_timer_closed, or the end of a close by the walk
OnPeriodicTimerClosed(t) ==
    /\ CallbacksRun /\ task[t].uv = "closing"
    /\ task' = [task EXCEPT ![t] =
         IF @.cb THEN [@ EXCEPT !.uv = "gone", !.active = FALSE, !.stopping = FALSE,
                                !.keepalive = FALSE]
         ELSE [@ EXCEPT !.uv = "gone"]]
    /\ UNCHANGED <<loop, posted, ticks, parity, asked>>

TaskWalk ==
    task' = [t \in Tasks |-> [task[t] EXCEPT !.uv = IF @ \in {"armed", "idle"} THEN "closing" ELSE @]]
=============================================================================
