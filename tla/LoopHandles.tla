----------------------------- MODULE LoopHandles -----------------------------
(***************************************************************************)
(* The periodic tasks, the fd waits and the sleeps of one loop, and what   *)
(* ~EventLoop does to the handles they have open: it closes them without   *)
(* a callback.                                                             *)
(***************************************************************************)
EXTENDS PeriodicTask, FdWait

vars == <<loop, taskVars, wait>>

Init == loop = "running" /\ TaskInit /\ WaitInit

LoopDies ==
    /\ loop = "running" /\ loop' = "dying"
    /\ TaskWalk /\ WaitWalk
    /\ UNCHANGED <<posted, ticks, parity, asked>>

\* uv_run returned 0 and drain_loop_tasks has run
LoopDead ==
    /\ loop = "dying" /\ loop' = "dead" /\ posted = <<>>
    /\ \A t \in Tasks : task[t].uv = "gone"
    /\ \A w \in Waits, h \in {"poll", "timer"} : wait[w].handles[h] = "gone"
    /\ UNCHANGED <<taskVars, wait>>

TimerFires(t) == OnPeriodicTimer(t) /\ UNCHANGED wait
TickRuns(t) == Tick(t) /\ UNCHANGED wait
TimerClosed(t) == OnPeriodicTimerClosed(t) /\ UNCHANGED wait
Drain == (\E ok \in BOOLEAN : RunPosted(ok)) /\ UNCHANGED wait
Expires(w) == OnTimer(w) /\ UNCHANGED taskVars
WaitClosed(w) == (\E h \in {"poll", "timer"} : OnWaitClosed(w, h)) /\ UNCHANGED taskVars

Next ==
    \/ \E t \in Tasks :
         \/ TimerFires(t) \/ TickRuns(t) \/ TimerClosed(t)
         \/ UNCHANGED wait /\ \E d \in Intervals, ok \in BOOLEAN : Every(t, d, ok) \/ EveryForeign(t, d)
         \/ UNCHANGED wait /\ (Stop(t) \/ StopForeign(t))
    \/ \E w \in Waits :
         \/ Expires(w) \/ WaitClosed(w)
         \/ UNCHANGED taskVars /\ \E kind \in Kinds, o \in {"init", "start", "ok"} : WaitBegin(w, kind, o)
         \/ UNCHANGED taskVars /\ \E r \in {"ready", "error"} : OnPoll(w, r)
    \/ Drain \/ LoopDies \/ LoopDead

\* uv_run is called again and again: timers that are due fire, handles that are
\* closed are reported, closures are drained and ready fibers run.  A poll may
\* have nothing to report, ever.
Fairness ==
    /\ WF_vars(Drain) /\ WF_vars(LoopDead)
    /\ \A t \in Tasks : WF_vars(TimerFires(t)) /\ WF_vars(TickRuns(t)) /\ WF_vars(TimerClosed(t))
    /\ \A w \in Waits : WF_vars(Expires(w)) /\ WF_vars(WaitClosed(w))

Spec == Init /\ [][Next]_vars /\ Fairness

-----------------------------------------------------------------------------
(* Properties *)

\* A handle that libuv knows lies in a structure that still exists: the Impl of
\* a periodic task keeps itself until on_periodic_timer_closed while the loop is
\* alive, and the two handles of a timed wait are deleted with the second close.
HandlesOwned ==
    /\ \A t \in Tasks : task[t].uv # "gone" /\ is_loop_alive => task[t].keepalive
    /\ \A w \in Waits, h \in {"poll", "timer"} : wait[w].handles[h] # "gone" => wait[w].exists

\* A stop() that reached the loop is final: the task becomes inactive, its timer
\* goes away, and the fibers of ticks that were spawned before it are the last.
StopIsFinal ==
    \A t \in Tasks :
        asked[t] = "done"
            ~> [](~task[t].active /\ task[t].uv = "gone" /\ ticks[t] = 0)

\* A stop() from another thread reaches the loop, even one that is destroyed.
\* While it is alive, a task with a positive interval ticks until it is stopped.
KeepsTicking ==
    /\ \A t \in Tasks : asked[t] = "posted" ~> asked[t] = "done"
    /\ \A t \in Tasks, p \in {0, 1} :
         task[t].active /\ task[t].repeat > 0 /\ parity[t] = p
             ~> parity[t] # p \/ asked[t] # "no" \/ ~is_loop_alive

\* Sleeps and timed waits return, and no wait is left without an answer by its
\* own handles: only the end of the loop can leave it.
WaitsReturn ==
    /\ \A w \in Waits : wait[w].result = "waiting" /\ wait[w].kind # "wait_fd"
                            ~> wait[w].result # "waiting" \/ ~is_loop_alive
    /\ \A w \in Waits : [](wait[w].result = "waiting" /\ is_loop_alive
                             => \E h \in HandlesOf(wait[w].kind) : wait[w].handles[h] = "open")

\* every() is periodic: an active task ticks again and again, whatever the
\* duration it was given.
EveryIsPeriodic ==
    \A t \in Tasks, p \in {0, 1} :
        task[t].active /\ parity[t] = p
            ~> parity[t] # p \/ asked[t] # "no" \/ ~is_loop_alive
=============================================================================
