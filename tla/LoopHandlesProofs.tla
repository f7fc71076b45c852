-------------------------- MODULE LoopHandlesProofs --------------------------
(***************************************************************************)
(* Proofs about LoopHandles for every number of periodic tasks and waits:  *)
(* a handle that libuv knows lies in a structure that still exists.        *)
(***************************************************************************)
EXTENDS LoopHandles, FiniteSetTheorems, TLAPS

HandleNames == {"poll", "timer"}

TaskStates == [started : BOOLEAN, initialized : BOOLEAN, active : BOOLEAN, stopping : BOOLEAN,
               keepalive : BOOLEAN, repeat : Int, uv : {"gone", "armed", "idle", "closing"},
               cb : BOOLEAN]
WaitStates == [kind : Kinds \cup {"none"},
               result : {"new", "waiting", "ok", "ready", "error", "timeout"},
               exists : BOOLEAN, cb : BOOLEAN, pending_close : Int,
               handles : [HandleNames -> {"gone", "open", "closing"}]]
Closures == [op : {"start", "stop"}, task : Tasks, interval : Int]

\* The Impl of a task keeps itself while its timer is known to libuv.  For stop()
\* not to drop it while the timer closes, a timer that closes is a task that stops.
TaskOwned(s) ==
    /\ s.uv # "gone" => s.keepalive
    /\ s.uv = "closing" /\ s.initialized => s.stopping
    /\ ~s.started => ~s.initialized

\* every() of another thread is the only closure of a task that has not started.
StartsOnce ==
    \A i \in DOMAIN posted : posted[i].op = "start" =>
        /\ ~task[posted[i].task].started
        /\ \A j \in DOMAIN posted : posted[j].task = posted[i].task => j = i

TaskInv ==
    /\ task \in [Tasks -> TaskStates] /\ posted \in Seq(Closures)
    /\ StartsOnce
    /\ is_loop_alive => \A t \in Tasks : TaskOwned(task[t])

Closings(s) == {h \in HandleNames : s.handles[h] = "closing"}

\* The handles of a wait close together, and the structure counts their callbacks.
WaitOwned(s) ==
    /\ \A h \in HandleNames : s.handles[h] # "gone" => s.exists
    /\ (\E h \in HandleNames : s.handles[h] = "open") => ~s.cb /\ Closings(s) = {}
    /\ s.cb => s.pending_close = Cardinality(Closings(s))

WaitInv == wait \in [Waits -> WaitStates] /\ \A w \in Waits : WaitOwned(wait[w])

-----------------------------------------------------------------------------
(* Periodic tasks *)

\* start_periodic_on_loop on a loop that is alive owns the timer it starts.
LEMMA StartedOwned ==
    ASSUME NEW s \in TaskStates, TaskOwned(s), ~s.started, is_loop_alive,
           NEW d \in Int, NEW ok \in BOOLEAN
    PROVE  TaskOwned(Started(s, d, ok))
BY Zenon DEF TaskOwned, Started, TaskStates

\* start_periodic_on_loop has the right type, and marks the task as started.
LEMMA StartedType ==
    ASSUME NEW s \in TaskStates, NEW d \in Int, NEW ok \in BOOLEAN
    PROVE  Started(s, d, ok) \in TaskStates /\ Started(s, d, ok).started
<1>1. Milliseconds(d) \in Int
  BY DEF Milliseconds
<1> QED BY <1>1, Zenon DEF Started, TaskStates

\* stop_periodic_on_loop lets go of the Impl only when the timer is gone.
LEMMA StoppedOwned ==
    ASSUME NEW s \in TaskStates
    PROVE  /\ Stopped(s) \in TaskStates
           /\ Stopped(s).started = s.started
           /\ TaskOwned(s) => TaskOwned(Stopped(s))
<1>1. CASE ~s.initialized \/ s.stopping
  BY <1>1, Zenon DEF Stopped
<1>2. CASE s.initialized /\ ~s.stopping /\ s.uv \in {"armed", "idle"}
  BY <1>2, Zenon DEF Stopped, TaskOwned, TaskStates
<1>3. CASE s.initialized /\ ~s.stopping /\ s.uv \notin {"armed", "idle"}
  BY <1>3, Zenon DEF Stopped, TaskOwned, TaskStates
<1> QED BY <1>1, <1>2, <1>3, Zenon DEF TaskStates

\* A step that changes one task and posts nothing.
LEMMA OneTask ==
    ASSUME TaskInv, NEW t \in Tasks, NEW s \in TaskStates, task' = [task EXCEPT ![t] = s],
           UNCHANGED <<loop, posted>>,
           \A i \in DOMAIN posted : posted[i].task = t /\ posted[i].op = "start" => ~s.started,
           is_loop_alive => TaskOwned(s)
    PROVE  TaskInv'
<1>1. task' \in [Tasks -> TaskStates] /\ posted' \in Seq(Closures)
  BY Zenon DEF TaskInv
<1>2. StartsOnce'
  BY DEF TaskInv, StartsOnce
<1>3. is_loop_alive' => \A u \in Tasks : TaskOwned(task'[u])
  BY Zenon DEF TaskInv, is_loop_alive
<1> QED BY <1>1, <1>2, <1>3, Zenon DEF TaskInv, TaskOwned

\* every() and stop() on the loop thread, and the callbacks of the timer.
LEMMA TaskSteps ==
    ASSUME TaskInv, NEW t \in Tasks,
           \/ OnPeriodicTimer(t) \/ Tick(t) \/ OnPeriodicTimerClosed(t) \/ Stop(t)
           \/ \E d \in Intervals, ok \in BOOLEAN : Every(t, d, ok)
    PROVE  TaskInv'
<1> DEFINE s == task[t]
<1>0. s \in TaskStates /\ (is_loop_alive => TaskOwned(s))
  BY Zenon DEF TaskInv
<1>9. \A i \in DOMAIN posted : posted[i].task = t /\ posted[i].op = "start" => ~s.started
  BY Zenon DEF TaskInv, StartsOnce
<1> HIDE DEF s
<1>1. CASE OnPeriodicTimer(t)
  <2> DEFINE n == [s EXCEPT !.uv = IF s.repeat = 0 THEN "idle" ELSE "armed"]
  <2>1. task' = [task EXCEPT ![t] = n] /\ UNCHANGED <<loop, posted>> /\ s.uv = "armed"
    BY <1>1, Zenon DEF OnPeriodicTimer, s
  <2>2. n \in TaskStates /\ n.started = s.started /\ (is_loop_alive => TaskOwned(n))
    BY <1>0, <2>1, Zenon DEF TaskStates, TaskOwned
  <2> HIDE DEF n
  <2> QED BY <1>9, <2>1, <2>2, OneTask, Zenon
<1>2. CASE Tick(t)
  BY <1>2, Zenon DEF Tick, TaskInv, StartsOnce, is_loop_alive
<1>3. CASE OnPeriodicTimerClosed(t)
  <2> DEFINE n == IF s.cb THEN [s EXCEPT !.uv = "gone", !.active = FALSE, !.stopping = FALSE,
                                         !.keepalive = FALSE]
                  ELSE [s EXCEPT !.uv = "gone"]
  <2>1. task' = [task EXCEPT ![t] = n] /\ UNCHANGED <<loop, posted>>
    BY <1>3, Zenon DEF OnPeriodicTimerClosed, s
  <2>2. n \in TaskStates /\ n.started = s.started /\ (is_loop_alive => TaskOwned(n))
    BY <1>0, Zenon DEF TaskStates, TaskOwned
  <2> HIDE DEF n
  <2> QED BY <1>9, <2>1, <2>2, OneTask, Zenon
<1>4. CASE Stop(t)
  <2> DEFINE n == IF is_loop_alive THEN Stopped(s)
                  ELSE [s EXCEPT !.active = FALSE, !.stopping = FALSE, !.keepalive = FALSE]
  <2>1. task' = [task EXCEPT ![t] = n] /\ UNCHANGED <<loop, posted>>
    BY <1>4, Zenon DEF Stop, s
  <2>2. n \in TaskStates /\ n.started = s.started /\ (is_loop_alive => TaskOwned(n))
    <3>1. CASE is_loop_alive
      BY <1>0, <3>1, StoppedOwned, Zenon
    <3>2. CASE ~is_loop_alive
      BY <1>0, <3>2, Zenon DEF TaskStates
    <3> QED BY <3>1, <3>2, Zenon
  <2> HIDE DEF n
  <2> QED BY <1>9, <2>1, <2>2, OneTask, Zenon
<1>5. ASSUME NEW d \in Intervals, NEW ok \in BOOLEAN, Every(t, d, ok) PROVE TaskInv'
  <2> DEFINE n == Started(s, d, ok)
  <2>1. /\ task' = [task EXCEPT ![t] = n] /\ UNCHANGED <<loop, posted>> /\ is_loop_alive /\ ~s.started
        /\ \A i \in DOMAIN posted : posted[i].task # t
    BY <1>5, Zenon DEF Every, s
  <2>2. n \in TaskStates /\ TaskOwned(n)
    BY <1>0, <2>1, StartedOwned, StartedType, IntervalsAssumption, Zenon
  <2> HIDE DEF n
  <2> QED BY <2>1, <2>2, OneTask, Zenon
<1> QED BY <1>1, <1>2, <1>3, <1>4, <1>5, Zenon

\* every() and stop() on another thread post a closure: a start is the only one
\* of its task, and a stop is of a task that has started.
LEMMA PostSteps ==
    ASSUME TaskInv, NEW t \in Tasks,
           StopForeign(t) \/ \E d \in Intervals : EveryForeign(t, d)
    PROVE  TaskInv'
<1> DEFINE Posts(p) == /\ posted' = Append(posted, p) /\ p.task = t /\ UNCHANGED <<loop, task>>
                       /\ is_loop_alive
                       /\ p.op = "stop" => task[t].initialized
                       /\ p.op = "start" => /\ ~task[t].started
                                            /\ \A i \in DOMAIN posted : posted[i].task # t
<1>1. PICK p \in Closures : Posts(p)
  <2>1. CASE StopForeign(t)
    <3>1. [op |-> "stop", task |-> t, interval |-> 0] \in Closures
      BY DEF Closures
    <3> QED BY <2>1, <3>1, Zenon DEF StopForeign
  <2>2. ASSUME NEW d \in Intervals, EveryForeign(t, d) PROVE \E p \in Closures : Posts(p)
    <3>1. [op |-> "start", task |-> t, interval |-> d] \in Closures
      BY IntervalsAssumption, Zenon DEF Closures
    <3> QED BY <2>2, <3>1, Zenon DEF EveryForeign
  <2> QED BY <2>1, <2>2, Zenon
<1>2. posted' \in Seq(Closures) /\ p \in Closures /\ Len(posted) \in Nat
  BY <1>1 DEF TaskInv
<1>3. /\ DOMAIN posted = 1 .. Len(posted) /\ DOMAIN posted' = 1 .. (Len(posted) + 1)
      /\ \A i \in DOMAIN posted : posted'[i] = posted[i]
      /\ posted'[Len(posted) + 1] = p
  BY <1>1 DEF TaskInv
<1>4. p.op \in {"start", "stop"}
  BY Zenon DEF Closures
<1>5. p.op = "stop" => task[t].started
  BY <1>1, Zenon DEF TaskInv, TaskOwned
<1>6. StartsOnce'
  <2> SUFFICES ASSUME NEW i \in DOMAIN posted', posted'[i].op = "start"
               PROVE  /\ ~task[posted'[i].task].started
                      /\ \A j \in DOMAIN posted' : posted'[j].task = posted'[i].task => j = i
    BY <1>1, Zenon DEF StartsOnce
  <2>1. CASE i \in DOMAIN posted
    <3>1. /\ ~task[posted[i].task].started
          /\ \A j \in DOMAIN posted : posted[j].task = posted[i].task => j = i
      BY <1>3, <2>1, Zenon DEF TaskInv, StartsOnce
    <3>2. posted[i].task # p.task
      BY <1>1, <1>4, <1>5, <2>1, <3>1, Zenon
    <3> QED BY <1>2, <1>3, <2>1, <3>1, <3>2
  <2>2. CASE i = Len(posted) + 1
    BY <1>1, <1>2, <1>3, <2>2
  <2> QED BY <1>2, <1>3, <2>1, <2>2
<1> QED BY <1>1, <1>2, <1>6, Zenon DEF TaskInv, is_loop_alive

\* drain_loop_tasks runs the first closure.
LEMMA DrainSteps ==
    ASSUME TaskInv, NEW ok \in BOOLEAN, RunPosted(ok)
    PROVE  TaskInv'
<1> DEFINE p == Head(posted)
           s == task[p.task]
           n == IF p.op = "start" THEN Started(s, p.interval, ok) ELSE Stopped(s)
<1>1. /\ posted # <<>> /\ posted' = Tail(posted) /\ UNCHANGED loop
      /\ task' = [task EXCEPT ![p.task] = n]
  BY Zenon DEF RunPosted
<1>2. /\ p \in Closures /\ p = posted[1] /\ 1 \in DOMAIN posted /\ Tail(posted) \in Seq(Closures)
      /\ DOMAIN Tail(posted) = 1 .. (Len(posted) - 1) /\ DOMAIN posted = 1 .. Len(posted)
      /\ Len(posted) \in Nat
      /\ \A i \in DOMAIN Tail(posted) : Tail(posted)[i] = posted[i + 1]
  BY <1>1 DEF TaskInv
<1>3. p.task \in Tasks /\ p.interval \in Int /\ p.op \in {"start", "stop"} /\ s \in TaskStates
  BY <1>2, Zenon DEF Closures, TaskInv
<1> HIDE DEF p
<1>4. p.op = "start" => ~s.started
  BY <1>2, Zenon DEF TaskInv, StartsOnce
<1>5. n \in TaskStates /\ (is_loop_alive => TaskOwned(n)) /\ (p.op = "stop" => n.started = s.started)
  <2>1. is_loop_alive => TaskOwned(s)
    BY <1>3, Zenon DEF TaskInv
  <2>2. CASE p.op = "start"
    BY <1>3, <1>4, <2>1, <2>2, StartedOwned, StartedType, Zenon
  <2>3. CASE p.op = "stop"
    BY <1>3, <2>1, <2>3, StoppedOwned, Zenon
  <2> QED BY <1>3, <2>2, <2>3, Zenon
<1> HIDE DEF n
<1>6. task' \in [Tasks -> TaskStates]
  BY <1>1, <1>3, <1>5, Zenon DEF TaskInv
<1>7. is_loop_alive' => \A u \in Tasks : TaskOwned(task'[u])
  BY <1>1, <1>3, <1>5, Zenon DEF TaskInv, is_loop_alive
<1>8. StartsOnce'
  <2> SUFFICES ASSUME NEW i \in DOMAIN Tail(posted), Tail(posted)[i].op = "start"
               PROVE  /\ ~task'[Tail(posted)[i].task].started
                      /\ \A j \in DOMAIN Tail(posted) : Tail(posted)[j].task = Tail(posted)[i].task => j = i
    BY <1>1, Zenon DEF StartsOnce
  <2>1. i + 1 \in DOMAIN posted /\ i + 1 # 1 /\ Tail(posted)[i] = posted[i + 1]
    BY <1>2
  <2>2. /\ ~task[posted[i + 1].task].started
        /\ \A j \in DOMAIN posted : posted[j].task = posted[i + 1].task => j = i + 1
    BY <2>1, Zenon DEF TaskInv, StartsOnce
  <2>3. posted[i + 1].task # p.task /\ posted[i + 1].task \in Tasks
    <3>1. posted[1].task # posted[i + 1].task
      BY <1>2, <2>1, <2>2, Zenon
    <3>2. posted[i + 1] \in Closures
      BY <2>1 DEF TaskInv
    <3> QED BY <1>2, <3>1, <3>2, Zenon DEF Closures
  <2>4. ~task'[posted[i + 1].task].started
    BY <1>1, <2>2, <2>3, Zenon DEF TaskInv
  <2>5. \A j \in DOMAIN Tail(posted) : posted[j + 1].task = posted[i + 1].task => j = i
    <3> SUFFICES ASSUME NEW j \in DOMAIN Tail(posted), posted[j + 1].task = posted[i + 1].task
                 PROVE  j = i
      BY Zenon
    <3>1. j + 1 \in DOMAIN posted /\ j \in Int /\ i \in Int
      BY <1>2
    <3>2. j + 1 = i + 1
      BY <2>2, <3>1, Zenon
    <3> QED BY <3>1, <3>2
  <2> QED BY <1>2, <2>1, <2>4, <2>5, Zenon
<1>9. posted' \in Seq(Closures)
  BY <1>1, <1>2, Zenon
<1> QED BY <1>6, <1>7, <1>8, <1>9, Zenon DEF TaskInv

-----------------------------------------------------------------------------
(* Waits *)

\* The size of a set of handles of a wait.
LEMMA HandleCount ==
    ASSUME NEW S \in SUBSET HandleNames
    PROVE  Cardinality(S) = (IF "poll" \in S THEN 1 ELSE 0) + (IF "timer" \in S THEN 1 ELSE 0)
<1>1. CASE S = {}
  BY <1>1, FS_EmptySet
<1>2. CASE S = {"poll"} \/ S = {"timer"}
  <2>1. Cardinality({"poll"}) = 1 /\ Cardinality({"timer"}) = 1
    BY FS_Singleton, Zenon
  <2> QED BY <1>2, <2>1
<1>3. CASE S = {"poll"} \cup {"timer"}
  <2>1. IsFiniteSet({"poll"}) /\ Cardinality({"poll"}) = 1
    BY FS_Singleton, Zenon
  <2>2. Cardinality({"poll"} \cup {"timer"}) = Cardinality({"poll"}) + 1
    BY <2>1, FS_AddElement, Zenon
  <2> QED BY <1>3, <2>1, <2>2, Zenon
<1> QED BY <1>1, <1>2, <1>3, Zenon DEF HandleNames

\* close_poll_wait_for_handles and uv_close count the handles they close.
LEMMA CloseHandlesOwned ==
    ASSUME NEW s \in WaitStates, WaitOwned(s), NEW h \in HandleNames, s.handles[h] = "open",
           NEW r \in {"ok", "ready", "error", "timeout"}
    PROVE  CloseHandles(s, r) \in WaitStates /\ WaitOwned(CloseHandles(s, r))
<1> DEFINE O == {g \in DOMAIN s.handles : s.handles[g] = "open"}
           c == [g \in HandleNames |-> IF s.handles[g] = "open" THEN "closing" ELSE s.handles[g]]
           n == CloseHandles(s, r)
<1>1. DOMAIN s.handles = HandleNames
  BY Zenon DEF WaitStates
<1>2. Cardinality(O) \in Int
  <2>1. O \in SUBSET HandleNames
    BY <1>1, Zenon
  <2> QED BY <2>1, HandleCount
<1>3. n = [s EXCEPT !.result = r, !.cb = TRUE, !.pending_close = Cardinality(O), !.handles = c]
  BY <1>1, Zenon DEF CloseHandles, WaitStates
<1>4. c \in [HandleNames -> {"gone", "open", "closing"}]
  BY SMTT(30) DEF WaitStates
<1> HIDE DEF c
<1>5. n \in WaitStates /\ n.handles = c /\ n.exists = s.exists /\ n.pending_close = Cardinality(O)
  BY <1>2, <1>3, <1>4, ZenonT(30) DEF WaitStates
<1>6. Closings(n) = O
  BY <1>1, <1>5, Zenon DEF Closings, WaitOwned, c
<1>7. \A g \in HandleNames : n.handles[g] # "open" /\ (n.handles[g] # "gone" => n.exists)
  BY <1>5, Zenon DEF c, WaitOwned
<1> QED BY <1>5, <1>6, <1>7, Zenon DEF WaitOwned

\* A wait whose handle h has been closed, and what the close callback makes of it.
Without(s, h) == [s EXCEPT !.handles[h] = "gone"]
Freed(g) ==
    IF g.cb THEN [g EXCEPT !.pending_close = @ - 1, !.exists = (g.pending_close # 1)] ELSE g

\* The structure of a wait is deleted with the last of its handles.
LEMMA ClosedOwned ==
    ASSUME NEW s \in WaitStates, WaitOwned(s), NEW h \in HandleNames, s.handles[h] = "closing",
           NEW g, g = Without(s, h), NEW n, n = Freed(g)
    PROVE  n \in WaitStates /\ WaitOwned(n)
<1> USE DEF Without, Freed
<1>1. g \in WaitStates /\ n \in WaitStates
  <2>1. [s.handles EXCEPT ![h] = "gone"] \in [HandleNames -> {"gone", "open", "closing"}]
    BY Zenon DEF WaitStates
  <2>2. g \in WaitStates
    BY <2>1, Zenon DEF WaitStates
  <2>3. (g.pending_close # 1) \in BOOLEAN /\ g.pending_close - 1 \in Int
    BY <2>2 DEF WaitStates
  <2>4. n \in WaitStates
    BY <2>2, <2>3, Zenon DEF WaitStates
  <2> QED BY <2>2, <2>4, Zenon
<1>2. /\ n.handles = [s.handles EXCEPT ![h] = "gone"] /\ n.cb = s.cb
      /\ g.pending_close = s.pending_close /\ g.exists = s.exists /\ g.cb = s.cb
  BY Zenon DEF WaitStates
<1>3. \A k \in HandleNames : n.handles[k] = IF k = h THEN "gone" ELSE s.handles[k]
  BY <1>2, Zenon DEF WaitStates
<1>4. Closings(n) = Closings(s) \ {h} /\ h \in Closings(s)
  BY <1>3 DEF Closings
<1>5. Cardinality(Closings(n)) = Cardinality(Closings(s)) - 1
  <2>1. Closings(n) \in SUBSET HandleNames /\ Closings(s) \in SUBSET HandleNames
    BY Zenon DEF Closings
  <2>2. h = "poll" \/ h = "timer"
    BY Zenon DEF HandleNames
  <2> QED BY <1>4, <2>1, <2>2, HandleCount
<1>6. \A k \in HandleNames : s.handles[k] # "open"
  BY <1>4, Zenon DEF WaitOwned
<1>7. CASE ~s.cb
  <2>1. n.exists = s.exists
    BY <1>2, <1>7, Zenon
  <2> QED BY <1>1, <1>2, <1>3, <1>6, <1>7, <2>1 DEF WaitOwned
<1>8. CASE s.cb
  <2>1. s.pending_close = Cardinality(Closings(s)) /\ s.exists
    BY <1>8, Zenon DEF WaitOwned
  <2>2. n.pending_close = s.pending_close - 1 /\ (s.pending_close # 1 => n.exists)
    BY <1>1, <1>2, <1>8, Zenon DEF WaitStates
  <2>3. Closings(n) \in SUBSET HandleNames
    BY Zenon DEF Closings
  <2>4. (s.pending_close = 1) => Closings(n) = {}
    BY <1>5, <2>1, <2>3, HandleCount DEF HandleNames
  <2>5. \A k \in HandleNames : n.handles[k] # "gone" => k \in Closings(n)
    BY <1>1, <1>3, <1>6 DEF Closings, WaitStates
  <2>6. n.pending_close = Cardinality(Closings(n))
    BY <1>5, <2>1, <2>2, Zenon
  <2>7. \A k \in HandleNames : n.handles[k] # "gone" => n.exists
    BY <2>2, <2>4, <2>5, Zenon
  <2>8. \A k \in HandleNames : n.handles[k] # "open"
    BY <1>3, <1>6
  <2> QED BY <1>1, <2>6, <2>7, <2>8, Zenon DEF WaitOwned
<1> QED BY <1>1, <1>7, <1>8, Zenon

\* A step of one wait.
LEMMA OneWait ==
    ASSUME WaitInv, NEW w \in Waits, NEW s \in WaitStates, WaitOwned(s),
           wait' = [wait EXCEPT ![w] = s]
    PROVE  WaitInv'
<1>1. wait' \in [Waits -> WaitStates]
  BY Zenon DEF WaitInv
<1>2. \A v \in Waits : WaitOwned(wait'[v])
  BY Zenon DEF WaitInv
<1> QED BY <1>1, <1>2, Zenon DEF WaitInv, WaitOwned, Closings

\* Every step of a wait.
LEMMA WaitSteps ==
    ASSUME WaitInv, NEW w \in Waits,
           \/ OnTimer(w) \/ \E h \in HandleNames : OnWaitClosed(w, h)
           \/ \E r \in {"ready", "error"} : OnPoll(w, r)
           \/ \E kind \in Kinds, o \in {"init", "start", "ok"} : WaitBegin(w, kind, o)
    PROVE  WaitInv'
<1>0. PICK s \in WaitStates : s = wait[w] /\ WaitOwned(s)
  BY Zenon DEF WaitInv
<1>1. CASE OnTimer(w)
  <2>1. PICK r \in {"ok", "timeout"} : wait' = [wait EXCEPT ![w] = CloseHandles(s, r)]
    BY <1>0, <1>1, Zenon DEF OnTimer
  <2>2. s.handles["timer"] = "open"
    BY <1>0, <1>1, Zenon DEF OnTimer
  <2>3. CloseHandles(s, r) \in WaitStates /\ WaitOwned(CloseHandles(s, r))
    BY <1>0, <2>2, CloseHandlesOwned, Zenon DEF HandleNames
  <2> QED BY <2>1, <2>3, OneWait, Zenon
<1>2. ASSUME NEW h \in HandleNames, OnWaitClosed(w, h) PROVE WaitInv'
  <2>1. PICK g : g = Without(s, h)
    BY Zenon
  <2>2. PICK n : n = Freed(g)
    BY Zenon
  <2>3. wait' = [wait EXCEPT ![w] = n] /\ s.handles[h] = "closing"
    BY <1>0, <1>2, <2>1, <2>2, Zenon DEF OnWaitClosed, Without, Freed
  <2>4. n \in WaitStates /\ WaitOwned(n)
    BY <1>0, <2>1, <2>2, <2>3, ClosedOwned, Zenon
  <2> QED BY <2>3, <2>4, OneWait, Zenon
<1>3. ASSUME NEW r \in {"ready", "error"}, OnPoll(w, r) PROVE WaitInv'
  <2>1. wait' = [wait EXCEPT ![w] = CloseHandles(s, r)] /\ s.handles["poll"] = "open"
    BY <1>0, <1>3, Zenon DEF OnPoll
  <2>2. CloseHandles(s, r) \in WaitStates /\ WaitOwned(CloseHandles(s, r))
    BY <1>0, <2>1, CloseHandlesOwned, Zenon DEF HandleNames
  <2> QED BY <2>1, <2>2, OneWait, Zenon
<1>4. ASSUME NEW kind \in Kinds, NEW o \in {"init", "start", "ok"}, WaitBegin(w, kind, o)
      PROVE  WaitInv'
  <2>1. NoWait \in WaitStates /\ DOMAIN NoWait.handles = HandleNames
    BY DEF NoWait, WaitStates, HandleNames
  <2>2. PICK c : c = [h \in HandleNames |-> IF h \in HandlesOf(kind) THEN "open" ELSE "gone"]
    BY Zenon
  <2>3. PICK n : n = [NoWait EXCEPT !.kind = kind, !.result = "waiting", !.exists = TRUE, !.handles = c]
    BY Zenon
  <2>4. n \in WaitStates /\ n.handles = c /\ n.exists /\ ~n.cb
    <3>1. c \in [HandleNames -> {"gone", "open", "closing"}]
      BY <2>2, Zenon
    <3>2. n = [kind |-> kind, result |-> "waiting", exists |-> TRUE, cb |-> FALSE,
               pending_close |-> 0, handles |-> c]
      BY <2>3, Zenon DEF NoWait
    <3> QED BY <3>1, <3>2 DEF WaitStates
  <2>5. WaitOwned(n)
    BY <2>2, <2>4, Zenon DEF WaitOwned, Closings
  <2>6. \E h \in HandleNames : n.handles[h] = "open"
    BY <2>2, <2>4, Zenon DEF HandlesOf, HandleNames, Kinds
  <2>7. PICK m : m = [NoWait EXCEPT !.result = "error"]
    BY Zenon
  <2>8. m \in WaitStates /\ WaitOwned(m)
    <3>1. m \in WaitStates /\ m.handles = NoWait.handles /\ ~m.cb
      BY <2>1, <2>7, Zenon DEF NoWait, WaitStates
    <3>2. \A h \in HandleNames : m.handles[h] = "gone"
      BY <3>1, Zenon DEF NoWait, HandleNames
    <3> QED BY <3>1, <3>2, Zenon DEF WaitOwned
  <2>9. \/ wait' = [wait EXCEPT ![w] = m]
        \/ wait' = [wait EXCEPT ![w] = CloseHandles(n, "error")]
        \/ wait' = [wait EXCEPT ![w] = n]
    <3>1. [h \in DOMAIN NoWait.handles |-> IF h \in HandlesOf(kind) THEN "open" ELSE "gone"] = c
      BY <2>1, <2>2, Zenon
    <3>2. [NoWait EXCEPT !.kind = kind, !.result = "waiting", !.exists = TRUE,
             !.handles = [h \in DOMAIN @ |-> IF h \in HandlesOf(kind) THEN "open" ELSE "gone"]] = n
      BY <2>3, <3>1, Zenon DEF NoWait
    <3> QED BY <1>4, <2>7, <3>2, Zenon DEF WaitBegin
  <2>10. CloseHandles(n, "error") \in WaitStates /\ WaitOwned(CloseHandles(n, "error"))
    BY <2>4, <2>5, <2>6, CloseHandlesOwned, Zenon
  <2> QED BY <2>4, <2>5, <2>8, <2>9, <2>10, OneWait, Zenon
<1> QED BY <1>1, <1>2, <1>3, <1>4, Zenon

\* ~EventLoop closes what is open and leaves the structures alone.
LEMMA WalkOwned ==
    ASSUME WaitInv, WaitWalk
    PROVE  WaitInv'
<1> SUFFICES ASSUME NEW w \in Waits
             PROVE  wait'[w] \in WaitStates /\ WaitOwned(wait'[w])
  BY Zenon DEF WaitInv, WaitWalk, WaitOwned, Closings
<1>0. PICK s \in WaitStates : s = wait[w] /\ WaitOwned(s)
  BY Zenon DEF WaitInv
<1>1. PICK c : c = [h \in HandleNames |-> IF s.handles[h] = "open" THEN "closing" ELSE s.handles[h]]
  BY Zenon
<1>2. PICK n : n = [s EXCEPT !.handles = c]
  BY Zenon
<1>3. wait'[w] = n
  <2>1. DOMAIN s.handles = HandleNames
    BY Zenon DEF WaitStates
  <2> QED BY <1>0, <1>1, <1>2, <2>1, SMTT(30) DEF WaitWalk, WaitStates
<1>4. n \in WaitStates /\ n.handles = c /\ n.exists = s.exists /\ n.cb = s.cb
      /\ n.pending_close = s.pending_close
  BY <1>1, <1>2, Zenon DEF WaitStates
<1>5. \A h \in HandleNames : n.handles[h] # "open" /\ (n.handles[h] # "gone" => n.exists)
  BY <1>0, <1>1, <1>4 DEF WaitOwned
<1>6. s.cb => Closings(n) = Closings(s)
  BY <1>0, <1>1, <1>4 DEF WaitOwned, Closings
<1> QED BY <1>0, <1>3, <1>4, <1>5, <1>6, Zenon DEF WaitOwned

-----------------------------------------------------------------------------
(* The theorem *)

\* The walk of ~EventLoop leaves which tasks have started, and what is posted.
LEMMA TaskWalkInv ==
    ASSUME TaskInv, TaskWalk, UNCHANGED posted, ~is_loop_alive'
    PROVE  TaskInv'
<1>1. task' \in [Tasks -> TaskStates] /\ \A t \in Tasks : task'[t].started = task[t].started
  BY ZenonT(30) DEF TaskInv, TaskWalk, TaskStates
<1>2. \A i \in DOMAIN posted : posted[i].task \in Tasks
  <2>1. \A i \in DOMAIN posted : posted[i] \in Closures
    BY DEF TaskInv
  <2> QED BY <2>1, Zenon DEF Closures
<1>3. StartsOnce'
  BY <1>1, <1>2, Zenon DEF TaskInv, StartsOnce
<1> QED BY <1>1, <1>3, Zenon DEF TaskInv

\* Whichever thread starts and stops the periodic tasks, whichever of its two
\* handles ends a timed wait, and whenever the loop is destroyed: the structure
\* around a handle that libuv still knows exists.
THEOREM HandlesAreOwned == Spec => []HandlesOwned
<1>1. Init => TaskInv /\ WaitInv
  <2> SUFFICES ASSUME Init PROVE TaskInv /\ WaitInv
    BY Zenon
  <2>1. NoTask \in TaskStates /\ TaskOwned(NoTask)
    BY DEF NoTask, TaskStates, TaskOwned
  <2>2. NoWait \in WaitStates /\ ~NoWait.cb /\ \A h \in HandleNames : NoWait.handles[h] = "gone"
    BY DEF NoWait, WaitStates, HandleNames
  <2>3. WaitOwned(NoWait)
    BY <2>2, Zenon DEF WaitOwned
  <2>4. TaskInv
    BY <2>1 DEF Init, TaskInit, TaskInv, StartsOnce
  <2>5. WaitInv
    BY <2>2, <2>3, Zenon DEF Init, WaitInit, WaitInv
  <2> QED BY <2>4, <2>5, Zenon
<1>2. TaskInv /\ WaitInv /\ [Next]_vars => TaskInv' /\ WaitInv'
  <2> SUFFICES ASSUME TaskInv, WaitInv, [Next]_vars PROVE TaskInv' /\ WaitInv'
    BY Zenon
  <2>1. UNCHANGED wait => WaitInv'
    BY Zenon DEF WaitInv
  <2>2. UNCHANGED <<task, posted>> /\ (is_loop_alive' => is_loop_alive) => TaskInv'
    BY Zenon DEF TaskInv, StartsOnce
  <2>3. ASSUME NEW t \in Tasks,
               \/ TimerFires(t) \/ TickRuns(t) \/ TimerClosed(t)
               \/ UNCHANGED wait /\ \E d \in Intervals, ok \in BOOLEAN : Every(t, d, ok) \/ EveryForeign(t, d)
               \/ UNCHANGED wait /\ (Stop(t) \/ StopForeign(t))
        PROVE  TaskInv' /\ WaitInv'
    BY <2>1, <2>3, TaskSteps, PostSteps, Zenon DEF TimerFires, TickRuns, TimerClosed
  <2>4. ASSUME NEW w \in Waits,
               \/ Expires(w) \/ WaitClosed(w)
               \/ UNCHANGED taskVars /\ \E kind \in Kinds, o \in {"init", "start", "ok"} : WaitBegin(w, kind, o)
               \/ UNCHANGED taskVars /\ \E r \in {"ready", "error"} : OnPoll(w, r)
        PROVE  TaskInv' /\ WaitInv'
    <3>1. UNCHANGED <<task, posted>> /\ UNCHANGED loop
      BY <2>4, Zenon DEF Expires, WaitClosed, taskVars, OnTimer, OnWaitClosed, WaitBegin, OnPoll
    <3>2. WaitInv'
      BY <2>4, WaitSteps, Zenon DEF Expires, WaitClosed, HandleNames
    <3> QED BY <2>2, <3>1, <3>2, SMTT(30) DEF is_loop_alive
  <2>5. CASE Drain
    BY <2>1, <2>5, DrainSteps, Zenon DEF Drain
  <2>6. CASE LoopDies
    <3>1. ~is_loop_alive'
      BY <2>6, Zenon DEF LoopDies, is_loop_alive
    <3> QED BY <2>6, <3>1, TaskWalkInv, WalkOwned, Zenon DEF LoopDies
  <2>7. CASE LoopDead
    BY <2>1, <2>2, <2>7, Zenon DEF LoopDead, taskVars, is_loop_alive
  <2>8. CASE UNCHANGED vars
    BY <2>1, <2>2, <2>8, Zenon DEF vars, taskVars, is_loop_alive
  <2> QED BY <2>3, <2>4, <2>5, <2>6, <2>7, <2>8, Zenon DEF Next
<1>3. TaskInv /\ WaitInv => HandlesOwned
  BY Zenon DEF TaskInv, WaitInv, TaskOwned, WaitOwned, HandlesOwned, HandleNames
<1> QED BY <1>1, <1>2, <1>3, PTL DEF Spec
=============================================================================
