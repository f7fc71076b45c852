--------------------------- MODULE EventLoopProofs ---------------------------
(***************************************************************************)
(* Proofs about EventLoop for any fibers, jobs, workers and foreign        *)
(* threads: each run_blocking is executed once, blocking_cv_ loses no      *)
(* wakeup, run() returns on stop() only, and ~EventLoop leaves nothing.    *)
(***************************************************************************)
EXTENDS EventLoop, FiniteSetTheorems, TLAPS

LoopTasks == Fibers \cup Jobs \cup Throwers
Living == {"check", "drain", "yield", "returned", "threw"}
Busy == {"running", "posted", "nest_notify", "nested"}

Types ==
    /\ main \in Living \cup {"notify", "join", "close", "final", "destroyed", "terminated"}
    /\ fstate \in [Fibers -> {"new", "posted", "live", "notify", "blocked", "done", "threw"}]
    /\ xstate \in [Foreign -> {"free", "notify", "blocked"}]
    /\ stopping_ \in BOOLEAN /\ alive \in BOOLEAN
    /\ async_open \in BOOLEAN /\ workers_stopping_ \in BOOLEAN
    /\ loop_tasks_ \in Seq(LoopTasks) /\ blocking_jobs_ \in Seq(Jobs)
    /\ wstate \in [Workers -> Busy \cup {"awake", "waiting", "exited"}]
    /\ wjob \in [Workers -> Jobs \cup {None}]
    /\ promise \in [Jobs -> {"new", "unset", "set"}]

-----------------------------------------------------------------------------
(* Queues *)

In(q, x) == \E i \in DOMAIN q : q[i] = x
Once(q, S) == \A i, k \in DOMAIN q : q[i] \in S /\ q[i] = q[k] => i = k

\* What push_back does to a queue.
LEMMA AppendIn ==
    ASSUME NEW S, NEW q \in Seq(S), NEW e \in S
    PROVE  /\ Append(q, e) \in Seq(S)
           /\ \A x : In(Append(q, e), x) <=> In(q, x) \/ x = e
           /\ \A T : Once(q, T) /\ (e \in T => ~In(q, e)) => Once(Append(q, e), T)
<1>1. /\ Append(q, e) \in Seq(S) /\ Len(q) \in Nat
      /\ DOMAIN q = 1 .. Len(q) /\ DOMAIN Append(q, e) = 1 .. (Len(q) + 1)
      /\ \A i \in 1 .. Len(q) : Append(q, e)[i] = q[i]
      /\ Append(q, e)[Len(q) + 1] = e
  OBVIOUS
<1>2. \A i \in DOMAIN Append(q, e) : i \in DOMAIN q \/ i = Len(q) + 1
  BY <1>1
<1>3. ASSUME NEW x PROVE In(Append(q, e), x) <=> In(q, x) \/ x = e
  BY <1>1, <1>2 DEF In
<1>4. ASSUME NEW T, Once(q, T), e \in T => ~In(q, e) PROVE Once(Append(q, e), T)
  BY <1>1, <1>2, <1>4, Zenon DEF In, Once
<1> QED BY <1>1, <1>3, <1>4, Zenon

\* What pop_front does to a queue.
LEMMA TailIn ==
    ASSUME NEW S, NEW q \in Seq(S), q # <<>>
    PROVE  /\ Tail(q) \in Seq(S) /\ Head(q) \in S /\ In(q, Head(q))
           /\ \A x : In(q, x) <=> In(Tail(q), x) \/ x = Head(q)
           /\ \A T : Once(q, T) => Once(Tail(q), T) /\ (Head(q) \in T => ~In(Tail(q), Head(q)))
<1>1. /\ Tail(q) \in Seq(S) /\ Head(q) \in S /\ Len(q) \in Nat /\ Head(q) = q[1]
      /\ DOMAIN q = 1 .. Len(q) /\ DOMAIN Tail(q) = 1 .. (Len(q) - 1) /\ 1 \in DOMAIN q
      /\ \A i \in DOMAIN Tail(q) : Tail(q)[i] = q[i + 1]
  OBVIOUS
<1>2. \A i \in DOMAIN q : i # 1 => i - 1 \in DOMAIN Tail(q) /\ q[i] = Tail(q)[i - 1]
  BY <1>1
<1>3. ASSUME NEW x PROVE In(q, x) <=> In(Tail(q), x) \/ x = Head(q)
  <2>1. ASSUME In(q, x), x # Head(q) PROVE In(Tail(q), x)
    BY <1>1, <1>2, <2>1, Zenon DEF In
  <2>2. ASSUME In(Tail(q), x) PROVE In(q, x)
    <3>1. PICK i \in DOMAIN Tail(q) : Tail(q)[i] = x
      BY <2>2, Zenon DEF In
    <3>2. i + 1 \in DOMAIN q /\ q[i + 1] = x
      BY <1>1, <3>1
    <3> QED BY <3>2, Zenon DEF In
  <2>3. In(q, Head(q))
    BY <1>1, Zenon DEF In
  <2> QED BY <2>1, <2>2, <2>3, Zenon
<1>4. ASSUME NEW T, Once(q, T)
      PROVE  Once(Tail(q), T) /\ (Head(q) \in T => ~In(Tail(q), Head(q)))
  <2>1. \A i \in DOMAIN Tail(q) : i + 1 \in DOMAIN q /\ i + 1 # 1 /\ Tail(q)[i] = q[i + 1] /\ i \in Int
    BY <1>1
  <2>2. ASSUME NEW i \in DOMAIN Tail(q), NEW k \in DOMAIN Tail(q), Tail(q)[i] \in T,
               Tail(q)[i] = Tail(q)[k]
        PROVE  i = k
    <3>1. i + 1 = k + 1
      BY <1>4, <2>1, <2>2, Zenon DEF Once
    <3> QED BY <2>1, <3>1
  <2>3. ASSUME Head(q) \in T, NEW i \in DOMAIN Tail(q), Tail(q)[i] = Head(q) PROVE FALSE
    BY <1>1, <1>4, <2>1, <2>3, SMTT(30) DEF Once
  <2> QED BY <2>2, <2>3, Zenon DEF Once, In
<1>5. In(q, Head(q))
  BY <1>1, Zenon DEF In
<1> QED BY <1>1, <1>3, <1>4, <1>5, Zenon

-----------------------------------------------------------------------------
(* The job of each run_blocking call *)

\* A worker holds a job exactly while it is busy, and a job it has posted is in
\* loop_tasks_ or its promise is set.
WorkersOK ==
    \A w \in Workers :
        /\ wjob[w] # None <=> wstate[w] \in Busy
        /\ wstate[w] = "posted" => promise[wjob[w]] = "set" \/ Posted(wjob[w])

\* JobOnce, in terms of In and Once.
JobState ==
    /\ \A j \in Jobs :
          /\ promise[j] = "unset" <=> In(blocking_jobs_, j) \/ Held(j) \/ In(loop_tasks_, j)
          /\ ~(In(blocking_jobs_, j) /\ Held(j)) /\ ~(In(blocking_jobs_, j) /\ In(loop_tasks_, j))
          /\ ~(Held(j) /\ In(loop_tasks_, j))
    /\ Once(blocking_jobs_, Jobs) /\ Once(loop_tasks_, Jobs)
    /\ \A v, w \in Workers : wjob[v] = wjob[w] /\ wjob[v] # None => v = w

JobInv == JobState /\ WorkersOK

\* The two forms agree.
LEMMA JobForm ==
    ASSUME Types, JobState
    PROVE  JobOnce
<1>1. \A i \in DOMAIN blocking_jobs_ : blocking_jobs_[i] \in Jobs
  BY DEF Types
<1> QED BY <1>1, Zenon DEF JobState, JobOnce, Queued, Posted, In, Once

\* Workers may be woken, go to sleep, exit or wait for a nested call.
SameBusy ==
    \A w \in Workers : /\ wstate'[w] = "posted" <=> wstate[w] = "posted"
                       /\ wstate'[w] \in Busy <=> wstate[w] \in Busy

\* A step that moves no job.
LEMMA JobsStay ==
    ASSUME JobInv, UNCHANGED <<blocking_jobs_, wjob, promise>>, SameBusy,
           \A j \in Jobs : In(loop_tasks_', j) <=> In(loop_tasks_, j),
           Once(loop_tasks_', Jobs), wjob \in [Workers -> Jobs \cup {None}],
           None \notin Jobs
    PROVE  JobInv'
<1>1. \A j \in Jobs : Held(j)' <=> Held(j)
  BY Zenon DEF Held, SameBusy
<1>2. JobState'
  BY <1>1, Zenon DEF JobInv, JobState
<1>3. WorkersOK'
  BY DEF JobInv, WorkersOK, SameBusy, Posted, In, Busy
<1> QED BY <1>2, <1>3, Zenon DEF JobInv

\* run_blocking: the new job is queued and nowhere else.
LEMMA JobSubmitted ==
    ASSUME Types, JobInv, NEW c, NEW j \in Jobs, Submit(c, j), UNCHANGED <<loop_tasks_, wjob>>, SameBusy
    PROVE  JobInv'
<1>1. /\ promise[j] = "new" /\ promise' = [promise EXCEPT ![j] = "unset"]
      /\ blocking_jobs_' = Append(blocking_jobs_, j)
  BY Zenon DEF Submit
<1>2. ~In(blocking_jobs_, j) /\ ~Held(j) /\ ~In(loop_tasks_, j)
  BY <1>1, Zenon DEF JobInv, JobState
<1>3. /\ \A i \in Jobs : In(blocking_jobs_', i) <=> In(blocking_jobs_, i) \/ i = j
      /\ Once(blocking_jobs_', Jobs)
  BY <1>1, <1>2, AppendIn DEF Types, JobInv, JobState
<1>4. \A i \in Jobs : Held(i)' <=> Held(i)
  BY Zenon DEF Held, SameBusy
<1>5. promise'[j] = "unset" /\ \A i \in Jobs \ {j} : promise'[i] = promise[i]
  BY <1>1, Zenon DEF Types
<1>6. \A i \in Jobs : promise'[i] = "unset" <=> In(blocking_jobs_', i) \/ Held(i)' \/ In(loop_tasks_', i)
  BY <1>2, <1>3, <1>4, <1>5, Zenon DEF JobInv, JobState
<1>7. JobState'
  BY <1>2, <1>3, <1>4, <1>6, Zenon DEF JobInv, JobState
<1>8. WorkersOK'
  <2> SUFFICES ASSUME NEW w \in Workers
               PROVE  /\ wjob[w] # None <=> wstate'[w] \in Busy
                      /\ wstate'[w] = "posted" => promise'[wjob[w]] = "set" \/ Posted(wjob[w])
    BY Zenon DEF WorkersOK, Posted
  <2>1. wstate[w] = "posted" => wjob[w] \in Jobs
    BY Zenon DEF JobInv, WorkersOK, Types, Busy
  <2>2. wstate[w] = "posted" => wjob[w] # j \/ Posted(wjob[w])
    BY <1>1, <2>1, Zenon DEF JobInv, WorkersOK
  <2> QED BY <1>2, <1>5, <2>1, <2>2, Zenon DEF JobInv, WorkersOK, SameBusy, Posted, In
<1> QED BY <1>7, <1>8, Zenon DEF JobInv

\* A worker that takes a job is the only one that has it.
LEMMA JobTaken ==
    ASSUME Types, JobInv, NEW w \in Workers, WorkerTake(w)
    PROVE  JobInv'
<1> DEFINE j == Head(blocking_jobs_)
<1>1. /\ wstate[w] = "awake" /\ blocking_jobs_ # <<>> /\ blocking_jobs_' = Tail(blocking_jobs_)
      /\ wstate' = [wstate EXCEPT ![w] = "running"] /\ wjob' = [wjob EXCEPT ![w] = j]
      /\ UNCHANGED <<loop_tasks_, promise>>
  BY Zenon DEF WorkerTake, promiseVars
<1>2. /\ j \in Jobs /\ In(blocking_jobs_, j) /\ ~In(blocking_jobs_', j)
      /\ \A i \in Jobs : In(blocking_jobs_, i) <=> In(blocking_jobs_', i) \/ i = j
      /\ Once(blocking_jobs_', Jobs)
  BY <1>1, TailIn, Zenon DEF Types, JobInv, JobState
<1> HIDE DEF j
<1>3. /\ wstate'[w] = "running" /\ wjob'[w] = j
      /\ \A v \in Workers \ {w} : wstate'[v] = wstate[v] /\ wjob'[v] = wjob[v]
  BY <1>1, Zenon DEF Types
<1>4. promise[j] = "unset" /\ ~Held(j) /\ ~In(loop_tasks_, j)
  BY <1>2, Zenon DEF JobInv, JobState
<1>5. wjob[w] = None /\ None \notin Jobs
  BY <1>1, DisjointAssumption, Zenon DEF JobInv, WorkersOK, Busy
<1>6. \A i \in Jobs : Held(i)' <=> Held(i) \/ i = j
  BY <1>3, <1>5, Zenon DEF Held
<1>7. \A v \in Workers : wjob[v] # j
  <2> SUFFICES ASSUME NEW v \in Workers, wjob[v] = j PROVE FALSE
    BY Zenon
  <2>1. wstate[v] = "posted"
    BY <1>4, Zenon DEF Held
  <2> QED BY <1>4, <2>1, Zenon DEF JobInv, WorkersOK, Posted, In
<1>8. \A u, v \in Workers : wjob'[u] = wjob'[v] /\ wjob'[u] # None => u = v
  BY <1>3, <1>7 DEF JobInv, JobState
<1>9. JobState'
  BY <1>1, <1>2, <1>4, <1>6, <1>8, Zenon DEF JobInv, JobState
<1>10. WorkersOK'
  BY <1>1, <1>2, <1>3, <1>5 DEF JobInv, WorkersOK, Posted, Busy
<1> QED BY <1>9, <1>10, Zenon DEF JobInv

\* A worker that posts the result does not hold the job any more.
LEMMA JobPosted ==
    ASSUME Types, JobInv, NEW w \in Workers, WorkerPost(w)
    PROVE  JobInv' /\ loop_tasks_' \in Seq(LoopTasks)
<1>1. /\ wstate[w] = "running" /\ wstate' = [wstate EXCEPT ![w] = "posted"]
      /\ loop_tasks_' = Append(loop_tasks_, wjob[w])
      /\ UNCHANGED <<blocking_jobs_, wjob, promise>>
  BY Zenon DEF WorkerPost, Post, promiseVars
<1>2. PICK j \in Jobs : j = wjob[w]
  BY <1>1, Zenon DEF JobInv, WorkersOK, Busy, Types
<1>3. /\ wstate'[w] = "posted" /\ \A v \in Workers \ {w} : wstate'[v] = wstate[v]
  BY <1>1, Zenon DEF Types
<1>4. Held(j)
  BY <1>1, <1>2, Zenon DEF Held
<1>5. promise[j] = "unset" /\ ~In(blocking_jobs_, j) /\ ~In(loop_tasks_, j)
  BY <1>4, Zenon DEF JobInv, JobState
<1>6. /\ \A i \in Jobs : In(loop_tasks_', i) <=> In(loop_tasks_, i) \/ i = j
      /\ Once(loop_tasks_', Jobs) /\ loop_tasks_' \in Seq(LoopTasks)
  <2>1. j \in LoopTasks
    BY Zenon DEF LoopTasks
  <2> QED BY <1>1, <1>2, <1>5, <2>1, AppendIn DEF Types, JobInv, JobState
<1>7. \A v \in Workers : wjob[v] = j => v = w
  BY <1>2, DisjointAssumption, Zenon DEF JobInv, JobState
<1>8. \A i \in Jobs : Held(i)' <=> Held(i) /\ i # j
  BY <1>1, <1>2, <1>3, <1>7, SMTT(30) DEF Held
<1>9. JobState'
  BY <1>1, <1>4, <1>5, <1>6, <1>8, SMTT(30) DEF JobInv, JobState
<1>10. WorkersOK'
  <2> SUFFICES ASSUME NEW v \in Workers
               PROVE  /\ wjob[v] # None <=> wstate'[v] \in Busy
                      /\ wstate'[v] = "posted" => promise[wjob[v]] = "set" \/ In(loop_tasks_', wjob[v])
    BY <1>1, Zenon DEF WorkersOK, Posted, In
  <2>1. CASE v = w
    BY <1>2, <1>3, <1>6, <2>1, DisjointAssumption, Zenon DEF Busy
  <2>2. CASE v # w
    <3>1. wstate[v] = "posted" => wjob[v] \in Jobs
      BY Zenon DEF JobInv, WorkersOK, Types, Busy
    <3> QED BY <1>3, <1>6, <2>2, <3>1, Zenon DEF JobInv, WorkersOK, Posted, In
  <2> QED BY <2>1, <2>2, Zenon
<1> QED BY <1>6, <1>9, <1>10, Zenon DEF JobInv

\* A worker that is free again had posted.
LEMMA JobCounted ==
    ASSUME Types, JobInv, NEW w \in Workers, WorkerCount(w)
    PROVE  JobInv'
<1>1. /\ wstate[w] = "posted" /\ wstate' = [wstate EXCEPT ![w] = "awake"]
      /\ wjob' = [wjob EXCEPT ![w] = None] /\ UNCHANGED <<blocking_jobs_, loop_tasks_, promise>>
  BY Zenon DEF WorkerCount, promiseVars
<1>2. /\ wstate'[w] = "awake" /\ wjob'[w] = None
      /\ \A v \in Workers \ {w} : wstate'[v] = wstate[v] /\ wjob'[v] = wjob[v]
  BY <1>1, Zenon DEF Types
<1>3. \A i \in Jobs : Held(i)' <=> Held(i)
  BY <1>1, <1>2, DisjointAssumption, SMTT(30) DEF Held
<1>4. JobState'
  BY <1>1, <1>2, <1>3, SMTT(30) DEF JobInv, JobState
<1>5. WorkersOK'
  BY <1>1, <1>2 DEF JobInv, WorkersOK, Posted, Busy
<1> QED BY <1>4, <1>5, Zenon DEF JobInv

\* drain_loop_tasks sets a promise that was unset, once.
LEMMA JobResolved ==
    ASSUME Types, JobInv, DrainResolve
    PROVE  JobInv'
<1> DEFINE j == Head(loop_tasks_)
<1>1. /\ j \in Jobs /\ loop_tasks_ # <<>> /\ loop_tasks_' = Tail(loop_tasks_)
      /\ promise' = [promise EXCEPT ![j] = "set"] /\ UNCHANGED <<blocking_jobs_, wjob, wstate>>
  BY Zenon DEF DrainResolve, Pop, workerVars
<1>2. /\ In(loop_tasks_, j) /\ ~In(loop_tasks_', j)
      /\ \A x : In(loop_tasks_, x) <=> In(loop_tasks_', x) \/ x = j
      /\ Once(loop_tasks_', Jobs)
  BY <1>1, TailIn, Zenon DEF Types, JobInv, JobState
<1> HIDE DEF j
<1>3. promise'[j] = "set" /\ \A i \in Jobs \ {j} : promise'[i] = promise[i]
  BY <1>1, Zenon DEF Types
<1>4. \A i \in Jobs : Held(i)' <=> Held(i)
  BY <1>1, Zenon DEF Held
<1>5. ~In(blocking_jobs_, j) /\ ~Held(j)
  BY <1>1, <1>2, Zenon DEF JobInv, JobState
<1>6. \A i \in Jobs : promise'[i] = "unset" <=> In(blocking_jobs_', i) \/ Held(i)' \/ In(loop_tasks_', i)
  BY <1>1, <1>2, <1>3, <1>4, <1>5, Zenon DEF JobInv, JobState
<1>7. JobState'
  BY <1>1, <1>2, <1>4, <1>6, SMTT(30) DEF JobInv, JobState
<1>8. WorkersOK'
  <2> SUFFICES ASSUME NEW w \in Workers, wstate[w] = "posted"
               PROVE  promise'[wjob[w]] = "set" \/ In(loop_tasks_', wjob[w])
    BY <1>1, Zenon DEF WorkersOK, JobInv, Posted, In
  <2>1. wjob[w] \in Jobs
    BY Zenon DEF JobInv, WorkersOK, Types, Busy
  <2> QED BY <1>2, <1>3, <2>1, SMTT(30) DEF JobInv, WorkersOK, Posted, In
<1> QED BY <1>7, <1>8, Zenon DEF JobInv

-----------------------------------------------------------------------------
(* blocking_cv_ *)

AwakeW == {w \in Workers : wstate[w] \in {"awake", "nest_notify"}}
NotifyF == {f \in Fibers : fstate[f] = "notify"}
NotifyX == {x \in Foreign : xstate[x] = "notify"}
Coming == Cardinality(AwakeW) + Cardinality(NotifyF) + Cardinality(NotifyX)

\* NoLostWakeup, with names for its sets.
WakeInv == Waiting # {} => Len(blocking_jobs_) <= Coming

\* The three sets are finite.
LEMMA Sizes ==
    /\ IsFiniteSet(AwakeW) /\ IsFiniteSet(NotifyF) /\ IsFiniteSet(NotifyX)
    /\ Cardinality(AwakeW) \in Nat /\ Cardinality(NotifyF) \in Nat /\ Cardinality(NotifyX) \in Nat
<1>1. AwakeW \subseteq Workers /\ NotifyF \subseteq Fibers /\ NotifyX \subseteq Foreign
  BY Zenon DEF AwakeW, NotifyF, NotifyX
<1>2. IsFiniteSet(AwakeW) /\ IsFiniteSet(NotifyF) /\ IsFiniteSet(NotifyX)
  BY <1>1, FibersAssumption, WorkersAssumption, FS_Subset, Zenon
<1> QED BY <1>2, FS_CardinalityType, Zenon

\* Nobody is queued and nobody falls asleep or drops a notification.
LEMMA WakeStays ==
    ASSUME Types, WakeInv, UNCHANGED <<blocking_jobs_>>, Waiting' \subseteq Waiting,
           AwakeW' = AwakeW \/ \E w \in Workers : AwakeW' = AwakeW \cup {w},
           NotifyF' = NotifyF, NotifyX' = NotifyX
    PROVE  WakeInv'
<1>1. ASSUME NEW w \in Workers PROVE Cardinality(AwakeW \cup {w}) >= Cardinality(AwakeW)
                                     /\ Cardinality(AwakeW \cup {w}) \in Nat
  <2>1. CASE w \in AwakeW
    <3>1. AwakeW \cup {w} = AwakeW
      BY <2>1, Zenon
    <3>2. Cardinality(AwakeW \cup {w}) = Cardinality(AwakeW)
      BY <3>1, Zenon
    <3> QED BY <3>2, Sizes
  <2>2. CASE w \notin AwakeW
    <3>1. Cardinality(AwakeW \cup {w}) = Cardinality(AwakeW) + 1
      BY <2>2, Sizes, FS_AddElement, Zenon
    <3> QED BY <3>1, Sizes
  <2> QED BY <2>1, <2>2, Zenon
<1>2. Cardinality(AwakeW') >= Cardinality(AwakeW) /\ Cardinality(AwakeW') \in Nat
  BY <1>1, Sizes
<1>3. Len(blocking_jobs_) \in Nat
  BY DEF Types
<1> QED BY <1>2, <1>3, Sizes DEF WakeInv, Coming

\* A queue that is empty needs nobody.
LEMMA WakeEmpty ==
    ASSUME Types, blocking_jobs_' = <<>>, Types'
    PROVE  WakeInv'
<1>1. Cardinality(AwakeW') \in Nat /\ Cardinality(NotifyF') \in Nat /\ Cardinality(NotifyX') \in Nat
  <2>1. AwakeW' \subseteq Workers /\ NotifyF' \subseteq Fibers /\ NotifyX' \subseteq Foreign
    BY Zenon DEF AwakeW, NotifyF, NotifyX
  <2>2. IsFiniteSet(AwakeW') /\ IsFiniteSet(NotifyF') /\ IsFiniteSet(NotifyX')
    BY <2>1, FibersAssumption, WorkersAssumption, FS_Subset, Zenon
  <2> QED BY <2>2, FS_CardinalityType, Zenon
<1> QED BY <1>1 DEF WakeInv, Coming

\* A job is pushed by somebody who will notify.
LEMMA WakeSubmit ==
    ASSUME Types, WakeInv, NEW j \in Jobs, blocking_jobs_' = Append(blocking_jobs_, j),
           Waiting' = Waiting,
           \/ /\ NotifyF' = NotifyF /\ NotifyX' = NotifyX
              /\ \E w \in Workers \ AwakeW : AwakeW' = AwakeW \cup {w}
           \/ /\ AwakeW' = AwakeW /\ NotifyX' = NotifyX
              /\ \E f \in Fibers \ NotifyF : NotifyF' = NotifyF \cup {f}
           \/ /\ AwakeW' = AwakeW /\ NotifyF' = NotifyF
              /\ \E x \in Foreign \ NotifyX : NotifyX' = NotifyX \cup {x}
    PROVE  WakeInv'
<1>1. ASSUME NEW w \in Workers \ AwakeW PROVE Cardinality(AwakeW \cup {w}) = Cardinality(AwakeW) + 1
  BY Sizes, FS_AddElement, Zenon
<1>2. ASSUME NEW f \in Fibers \ NotifyF PROVE Cardinality(NotifyF \cup {f}) = Cardinality(NotifyF) + 1
  BY Sizes, FS_AddElement, Zenon
<1>3. ASSUME NEW x \in Foreign \ NotifyX PROVE Cardinality(NotifyX \cup {x}) = Cardinality(NotifyX) + 1
  BY Sizes, FS_AddElement, Zenon
<1>4. Len(blocking_jobs_') = Len(blocking_jobs_) + 1 /\ Len(blocking_jobs_) \in Nat
  BY DEF Types
<1>5. Coming' = Coming + 1 /\ Coming \in Nat
  <2> DEFINE a == Cardinality(AwakeW)
             f == Cardinality(NotifyF)
             x == Cardinality(NotifyX)
  <2>1. a \in Nat /\ f \in Nat /\ x \in Nat
    BY Sizes, Zenon
  <2>2. \/ a' = a + 1 /\ f' = f /\ x' = x
        \/ a' = a /\ f' = f + 1 /\ x' = x
        \/ a' = a /\ f' = f /\ x' = x + 1
    BY <1>1, <1>2, <1>3, Zenon
  <2>3. Coming = a + f + x /\ Coming' = a' + f' + x'
    BY Zenon DEF Coming
  <2> HIDE DEF a, f, x
  <2> QED BY <2>1, <2>2, <2>3
<1> QED BY <1>4, <1>5 DEF WakeInv

\* notify_one wakes a worker, or there is none to wake.
LEMMA NotifyOneStep ==
    ASSUME Types, NEW ws, NotifyOne(ws),
           \/ ws = wstate
           \/ \E w \in Workers : wstate[w] = "nest_notify" /\ ws = [wstate EXCEPT ![w] = "nested"]
    PROVE  /\ wstate' \in [Workers -> Busy \cup {"awake", "waiting", "exited"}] /\ SameBusy
           /\ \A w \in Workers : wstate'[w] = "exited" <=> wstate[w] = "exited"
           /\ \/ ws = wstate \/ Waiting' = {}
              \/ \E v \in Workers \ AwakeW, w \in AwakeW : AwakeW' = (AwakeW \ {w}) \cup {v}
<1>1. ws \in [Workers -> Busy \cup {"awake", "waiting", "exited"}]
  BY SMTT(30) DEF Types, Busy
<1>2. \A v \in Waiting : v \in Workers /\ wstate[v] = "waiting" /\ ws[v] = "waiting" /\ v \notin AwakeW
  BY Zenon DEF Waiting, Types, AwakeW
<1>3. CASE Waiting = {}
  <2>1. wstate' = ws
    BY <1>3, Zenon DEF NotifyOne
  <2>2. CASE ws = wstate
    BY <1>1, <1>3, <2>1, <2>2, SMTT(30) DEF SameBusy, Waiting
  <2>3. ASSUME NEW w \in Workers, wstate[w] = "nest_notify", ws = [wstate EXCEPT ![w] = "nested"]
        PROVE  /\ SameBusy /\ Waiting' = {}
               /\ \A v \in Workers : wstate'[v] = "exited" <=> wstate[v] = "exited"
    <3>1. wstate'[w] = "nested" /\ \A v \in Workers \ {w} : wstate'[v] = wstate[v]
      BY <2>1, <2>3, Zenon DEF Types
    <3> QED BY <1>3, <2>3, <3>1, Zenon DEF SameBusy, Waiting, Busy
  <2> QED BY <1>1, <2>1, <2>2, <2>3, Zenon
<1>4. CASE Waiting # {}
  <2>1. PICK v \in Waiting : wstate' = [ws EXCEPT ![v] = "awake"]
    BY <1>4, Zenon DEF NotifyOne
  <2>2. wstate'[v] = "awake" /\ \A u \in Workers \ {v} : wstate'[u] = ws[u]
    BY <1>1, <1>2, <2>1, Zenon
  <2>3. wstate' \in [Workers -> Busy \cup {"awake", "waiting", "exited"}]
    BY <1>1, <2>1, Zenon
  <2>4. CASE ws = wstate
    <3>1. SameBusy /\ \A w \in Workers : wstate'[w] = "exited" <=> wstate[w] = "exited"
      BY <1>2, <2>2, <2>4, Zenon DEF SameBusy, Busy
    <3> QED BY <2>3, <2>4, <3>1, Zenon
  <2>5. ASSUME NEW w \in Workers, wstate[w] = "nest_notify", ws = [wstate EXCEPT ![w] = "nested"]
        PROVE  /\ SameBusy /\ \A u \in Workers : wstate'[u] = "exited" <=> wstate[u] = "exited"
               /\ w \in AwakeW /\ AwakeW' = (AwakeW \ {w}) \cup {v}
    <3>1. w # v
      BY <1>2, <2>5, Zenon
    <3>2. wstate'[w] = "nested" /\ wstate'[v] = "awake"
          /\ \A u \in Workers \ {v, w} : wstate'[u] = wstate[u]
      BY <2>2, <2>5, <3>1, Zenon DEF Types
    <3> QED BY <1>2, <2>5, <3>1, <3>2 DEF SameBusy, Busy, AwakeW
  <2> QED BY <1>2, <2>3, <2>4, <2>5, Zenon
<1> QED BY <1>3, <1>4, Zenon

\* The same for a caller that is not a worker.
LEMMA NotifyOneOutside ==
    ASSUME Types, NotifyOne(wstate)
    PROVE  /\ Waiting' # {} => Waiting # {}
           /\ Waiting' = {} \/ \E v \in Workers \ AwakeW : AwakeW' = AwakeW \cup {v}
<1>1. Waiting' # {} => Waiting # {}
  BY Zenon DEF NotifyOne, Waiting
<1>2. CASE Waiting # {}
  <2>1. PICK v \in Waiting : wstate' = [wstate EXCEPT ![v] = "awake"]
    BY <1>2, Zenon DEF NotifyOne
  <2>2. v \in Workers \ AwakeW /\ AwakeW' = AwakeW \cup {v}
    BY <2>1, Zenon DEF Waiting, AwakeW, Types
  <2> QED BY <1>1, <2>2, Zenon
<1> QED BY <1>1, <1>2, Zenon

\* A notification that is given replaces the one that was to come.
LEMMA WakeNotified ==
    ASSUME Types, WakeInv, UNCHANGED <<blocking_jobs_>>,
           \/ Waiting' = {}
           \/ \E v \in Workers \ AwakeW :
                 \/ /\ AwakeW' = AwakeW \cup {v} /\ NotifyX' = NotifyX
                    /\ \E f \in NotifyF : NotifyF' = NotifyF \ {f}
                 \/ /\ AwakeW' = AwakeW \cup {v} /\ NotifyF' = NotifyF
                    /\ \E x \in NotifyX : NotifyX' = NotifyX \ {x}
                 \/ /\ NotifyF' = NotifyF /\ NotifyX' = NotifyX
                    /\ \E w \in AwakeW : AwakeW' = (AwakeW \ {w}) \cup {v},
           Waiting' # {} => Waiting # {}
    PROVE  WakeInv'
<1>1. ASSUME NEW v \in Workers \ AwakeW PROVE Cardinality(AwakeW \cup {v}) = Cardinality(AwakeW) + 1
  BY Sizes, FS_AddElement, Zenon
<1>2. ASSUME NEW f \in NotifyF PROVE Cardinality(NotifyF \ {f}) = Cardinality(NotifyF) - 1
  BY Sizes, FS_RemoveElement, Zenon
<1>3. ASSUME NEW x \in NotifyX PROVE Cardinality(NotifyX \ {x}) = Cardinality(NotifyX) - 1
  BY Sizes, FS_RemoveElement, Zenon
<1>4. ASSUME NEW v \in Workers \ AwakeW, NEW w \in AwakeW
      PROVE  Cardinality((AwakeW \ {w}) \cup {v}) = Cardinality(AwakeW)
  <2>1. IsFiniteSet(AwakeW \ {w}) /\ Cardinality(AwakeW \ {w}) = Cardinality(AwakeW) - 1
    BY Sizes, FS_RemoveElement, Zenon
  <2>2. Cardinality((AwakeW \ {w}) \cup {v}) = Cardinality(AwakeW \ {w}) + 1
    BY <2>1, FS_AddElement, Zenon
  <2> QED BY <2>1, <2>2, Sizes
<1>5. Waiting' = {} \/ Coming' = Coming
  <2> DEFINE a == Cardinality(AwakeW)
             f == Cardinality(NotifyF)
             x == Cardinality(NotifyX)
  <2>1. a \in Nat /\ f \in Nat /\ x \in Nat
    BY Sizes, SMTT(30)
  <2>2. \/ Waiting' = {}
        \/ a' = a + 1 /\ f' = f - 1 /\ x' = x
        \/ a' = a + 1 /\ f' = f /\ x' = x - 1
        \/ a' = a /\ f' = f /\ x' = x
    <3>1. CASE Waiting' = {}
      BY <3>1, Zenon
    <3>2. ASSUME NEW v \in Workers \ AwakeW, AwakeW' = AwakeW \cup {v}, NotifyX' = NotifyX,
                 NEW g \in NotifyF, NotifyF' = NotifyF \ {g}
          PROVE  a' = a + 1 /\ f' = f - 1 /\ x' = x
      BY <1>1, <1>2, <3>2, Zenon
    <3>3. ASSUME NEW v \in Workers \ AwakeW, AwakeW' = AwakeW \cup {v}, NotifyF' = NotifyF,
                 NEW y \in NotifyX, NotifyX' = NotifyX \ {y}
          PROVE  a' = a + 1 /\ f' = f /\ x' = x - 1
      BY <1>1, <1>3, <3>3, Zenon
    <3>4. ASSUME NEW v \in Workers \ AwakeW, NotifyF' = NotifyF, NotifyX' = NotifyX,
                 NEW w \in AwakeW, AwakeW' = (AwakeW \ {w}) \cup {v}
          PROVE  a' = a /\ f' = f /\ x' = x
      BY <1>4, <3>4, Zenon
    <3> QED BY <3>1, <3>2, <3>3, <3>4, Zenon
  <2>3. Coming = a + f + x /\ Coming' = a' + f' + x'
    BY Zenon DEF Coming
  <2> HIDE DEF a, f, x
  <2> QED BY <2>1, <2>2, <2>3
<1> QED BY <1>5, Zenon DEF WakeInv

\* The worker that takes a job is one that was awake.
LEMMA WakeTaken ==
    ASSUME Types, WakeInv, NEW w \in Workers, WorkerTake(w)
    PROVE  WakeInv'
<1>1. /\ blocking_jobs_ # <<>> /\ blocking_jobs_' = Tail(blocking_jobs_) /\ wstate[w] = "awake"
      /\ wstate' = [wstate EXCEPT ![w] = "running"] /\ UNCHANGED <<fstate, xstate>>
  BY Zenon DEF WorkerTake, promiseVars
<1>2. AwakeW' = AwakeW \ {w} /\ w \in AwakeW /\ Waiting' = Waiting
  BY <1>1, Zenon DEF AwakeW, Waiting, Types
<1>3. NotifyF' = NotifyF /\ NotifyX' = NotifyX
  BY <1>1, Zenon DEF NotifyF, NotifyX
<1>4. Cardinality(AwakeW \ {w}) = Cardinality(AwakeW) - 1
  BY <1>2, Sizes, FS_RemoveElement, Zenon
<1>5. Len(blocking_jobs_') = Len(blocking_jobs_) - 1 /\ Len(blocking_jobs_) \in Nat
  BY <1>1 DEF Types
<1>6. Coming' = Coming - 1 /\ Coming \in Nat
  BY <1>2, <1>3, <1>4, Sizes DEF Coming
<1> QED BY <1>2, <1>5, <1>6 DEF WakeInv

-----------------------------------------------------------------------------
(* The phases of run() and ~EventLoop *)

Exited == \A w \in Workers : wstate[w] = "exited"

\* Outside this_fiber::yield() the main fiber is current; a fiber between its push
\* and its notify_one is current; async_ is open until ~EventLoop closes it; the
\* workers exit in ~EventLoop only, and the last of them leaves no job behind.
PhaseInv ==
    /\ alive <=> main \in Living
    /\ workers_stopping_ <=> ~alive
    /\ main # "yield" => current = Main
    /\ \A f \in Fibers : fstate[f] = "notify" => current = f
    /\ alive => async_open
    /\ main = "returned" => stopping_
    /\ \A w \in Workers : wstate[w] = "exited" => workers_stopping_
    /\ Exited => blocking_jobs_ = <<>>
    /\ main \in {"close", "final", "destroyed", "terminated"} => Exited
    /\ main = "destroyed" => loop_tasks_ = <<>>

Inv == Types /\ JobInv /\ WakeInv /\ PhaseInv

\* A fiber runs in the yield of run() only, and then nobody has exited.
LEMMA FiberRuns ==
    ASSUME Inv, NEW f \in Fibers, current = f
    PROVE  main = "yield" /\ alive /\ ~Exited
<1>1. main = "yield" /\ alive
  BY DisjointAssumption, Zenon DEF Inv, PhaseInv, Living
<1>2. Workers # {}
  BY WorkersAssumption, Zenon
<1> QED BY <1>1, <1>2, Zenon DEF Inv, PhaseInv, Exited

\* A step that touches neither the queues nor the workers.
LEMMA Untouched ==
    ASSUME Inv, UNCHANGED workerVars, UNCHANGED <<loop_tasks_, promise, xstate>>,
           Types', NotifyF' = NotifyF, PhaseInv'
    PROVE  Inv'
<1>1. JobInv'
  <2>1. SameBusy /\ Once(loop_tasks_', Jobs)
    BY Zenon DEF SameBusy, workerVars, Inv, JobInv, JobState
  <2> QED BY <2>1, JobsStay, DisjointAssumption, SMTT(30) DEF workerVars, Inv, Types
<1>2. WakeInv'
  BY WakeStays, Zenon DEF workerVars, Inv, Waiting, AwakeW, NotifyX
<1> QED BY <1>1, <1>2, Zenon DEF Inv

\* stop(), take_last_unhandled_exception() and dispatch().
LEMMA AnyThread ==
    ASSUME Inv, Stop \/ TakeLast \/ \E t \in Fibers \cup Throwers : Dispatch(t)
    PROVE  Inv'
<1>1. CASE Stop \/ TakeLast
  <2>1. /\ UNCHANGED <<main, current, fstate, alive, async_open, loop_tasks_, workerVars,
                       promise, xstate>>
        /\ stopping_' \in BOOLEAN /\ (stopping_ => stopping_')
    BY <1>1, Zenon DEF Stop, TakeLast, schedVars, flagVars, promiseVars, Inv, Types
  <2>2. Types' /\ PhaseInv' /\ NotifyF' = NotifyF
    BY <2>1, Zenon DEF Inv, Types, PhaseInv, NotifyF, workerVars, Exited
  <2> QED BY <2>1, <2>2, Untouched, SMTT(30)
<1>2. ASSUME NEW t \in Fibers \cup Throwers, Dispatch(t) PROVE Inv'
  <2>1. /\ alive /\ loop_tasks_' = Append(loop_tasks_, t)
        /\ UNCHANGED <<main, current, flagVars, workerVars, promise, xstate>>
        /\ \/ t \in Fibers /\ fstate[t] = "new" /\ fstate' = [fstate EXCEPT ![t] = "posted"]
           \/ UNCHANGED fstate
    BY <1>2, Zenon DEF Dispatch, Post, schedVars, promiseVars
  <2>2. t \in LoopTasks /\ t \notin Jobs
    BY DisjointAssumption, Zenon DEF LoopTasks
  <2>3. /\ loop_tasks_' \in Seq(LoopTasks) /\ Once(loop_tasks_', Jobs)
        /\ \A j \in Jobs : In(loop_tasks_', j) <=> In(loop_tasks_, j)
    BY <2>1, <2>2, AppendIn DEF Inv, Types, JobInv, JobState
  <2>4. fstate' \in [Fibers -> {"new", "posted", "live", "notify", "blocked", "done", "threw"}]
        /\ \A f \in Fibers : fstate'[f] = "notify" <=> fstate[f] = "notify"
    BY <2>1, Zenon DEF Inv, Types
  <2>5. Types'
    BY <2>1, <2>3, <2>4, Zenon DEF Inv, Types, flagVars, workerVars
  <2>6. JobInv'
    BY <2>1, <2>3, JobsStay, DisjointAssumption, Zenon DEF Inv, Types, SameBusy, workerVars
  <2>7. WakeInv'
    BY <2>1, <2>4, WakeStays, Zenon DEF Inv, workerVars, Waiting, AwakeW, NotifyF, NotifyX
  <2>8. PhaseInv'
    BY <2>1, <2>4, Zenon DEF Inv, PhaseInv, flagVars, workerVars, Exited, Living
  <2> QED BY <2>5, <2>6, <2>7, <2>8, Zenon DEF Inv
<1> QED BY <1>1, <1>2, Zenon

\* The steps of the fibers.
LEMMA FiberSteps ==
    ASSUME Inv, NEW f \in Fibers, FiberStep(f)
    PROVE  Inv'
<1>0. current = f
  BY Zenon DEF FiberStep, FiberSpawn, FiberSubmit, FiberYield, FiberNotify, FiberEnd
<1>1. main = "yield" /\ alive /\ ~Exited /\ \A g \in Fibers \ {f} : fstate[g] # "notify"
  BY <1>0, FiberRuns, Zenon DEF Inv, PhaseInv
<1>2. ASSUME FiberYield(f) \/ FiberEnd(f) \/ \E g \in Fibers : FiberSpawn(f, g) PROVE Inv'
  <2>1. UNCHANGED <<main, flagVars, loop_tasks_, workerVars, promise, xstate>> /\ fstate[f] = "live"
    BY <1>2, Zenon DEF FiberYield, FiberEnd, FiberSpawn, promiseVars
  <2>2. /\ fstate' \in [Fibers -> {"new", "posted", "live", "notify", "blocked", "done", "threw"}]
        /\ \A g \in Fibers : fstate'[g] # "notify"
    BY <1>1, <1>2, <2>1 DEF FiberYield, FiberEnd, FiberSpawn, Spawn, Inv, Types
  <2>3. NotifyF' = NotifyF
    BY <1>1, <2>1, <2>2, SMTT(30) DEF NotifyF
  <2>4. Types' /\ PhaseInv'
    BY <1>1, <2>1, <2>2, Zenon DEF Inv, Types, PhaseInv, flagVars, workerVars, Exited
  <2> QED BY <2>1, <2>3, <2>4, Untouched, Zenon
<1>3. ASSUME NEW j \in Jobs, FiberSubmit(f, j) PROVE Inv'
  <2>1. /\ Submit(f, j) /\ fstate[f] = "live" /\ fstate' = [fstate EXCEPT ![f] = "notify"]
        /\ UNCHANGED <<main, current, flagVars, loop_tasks_, workers_stopping_, wstate, wjob, xstate>>
        /\ blocking_jobs_' = Append(blocking_jobs_, j) /\ promise' = [promise EXCEPT ![j] = "unset"]
    BY <1>3, Zenon DEF FiberSubmit, Submit, schedVars
  <2>2. Types'
    BY <2>1 DEF Inv, Types, flagVars
  <2>3. JobInv'
    BY <2>1, JobSubmitted, Zenon DEF Inv, SameBusy
  <2>4. WakeInv'
    <3>1. NotifyF' = NotifyF \cup {f} /\ f \in Fibers \ NotifyF
      BY <2>1, Zenon DEF NotifyF, Inv, Types
    <3>2. Waiting' = Waiting /\ AwakeW' = AwakeW /\ NotifyX' = NotifyX
      BY <2>1, Zenon DEF Waiting, AwakeW, NotifyX
    <3> QED BY <2>1, <3>1, <3>2, WakeSubmit, SMTT(30) DEF Inv
  <2>5. PhaseInv'
    BY <1>0, <1>1, <2>1, Zenon DEF Inv, Types, PhaseInv, flagVars, Exited
  <2> QED BY <2>2, <2>3, <2>4, <2>5, Zenon DEF Inv
<1>4. ASSUME FiberNotify(f) PROVE Inv'
  <2>1. /\ NotifyOne(wstate) /\ fstate[f] = "notify" /\ fstate' = [fstate EXCEPT ![f] = "blocked"]
        /\ UNCHANGED <<main, flagVars, loop_tasks_, blocking_jobs_, workers_stopping_, wjob,
                       promise, xstate>>
    BY <1>4, Zenon DEF FiberNotify, promiseVars
  <2>2. /\ wstate' \in [Workers -> Busy \cup {"awake", "waiting", "exited"}] /\ SameBusy
        /\ \A w \in Workers : wstate'[w] = "exited" <=> wstate[w] = "exited"
    BY <2>1, NotifyOneStep, Zenon DEF Inv
  <2>3. Types'
    BY <2>1, <2>2, SMTT(30) DEF Inv, Types, flagVars
  <2>4. JobInv'
    BY <2>1, <2>2, JobsStay, DisjointAssumption, SMTT(30) DEF Inv, Types, JobInv, JobState
  <2>5. NotifyF' = NotifyF \ {f} /\ f \in NotifyF /\ NotifyX' = NotifyX
    BY <2>1, Zenon DEF NotifyF, NotifyX, Inv, Types
  <2>6. WakeInv'
    <3>1. /\ Waiting' # {} => Waiting # {}
          /\ Waiting' = {} \/ \E v \in Workers \ AwakeW : AwakeW' = AwakeW \cup {v}
      BY <2>1, NotifyOneOutside, SMTT(30) DEF Inv
    <3> QED BY <2>1, <2>5, <3>1, WakeNotified, Zenon DEF Inv
  <2>7. PhaseInv'
    <3>1. \A g \in Fibers : fstate'[g] # "notify"
      BY <1>1, <2>1, Zenon DEF Inv, Types
    <3>2. ~Exited'
      BY <1>1, <2>2, Zenon DEF Exited
    <3> QED BY <1>1, <2>1, <2>2, <3>1, <3>2, SMTT(30) DEF Inv, PhaseInv, flagVars
  <2> QED BY <2>3, <2>4, <2>6, <2>7, Zenon DEF Inv
<1> QED BY <1>2, <1>3, <1>4, Zenon DEF FiberStep

\* run_blocking on another thread.
LEMMA ForeignSteps ==
    ASSUME Inv, NEW x \in Foreign, ForeignStep(x) \/ \E j \in Jobs : ForeignSubmit(x, j)
    PROVE  Inv'
<1>1. ASSUME NEW j \in Jobs, ForeignSubmit(x, j) PROVE Inv'
  <2>1. /\ Submit(x, j) /\ alive /\ xstate[x] = "free" /\ xstate' = [xstate EXCEPT ![x] = "notify"]
        /\ UNCHANGED <<main, current, fstate, flagVars, loop_tasks_, workers_stopping_, wstate, wjob>>
        /\ blocking_jobs_' = Append(blocking_jobs_, j) /\ promise' = [promise EXCEPT ![j] = "unset"]
    BY <1>1, Zenon DEF ForeignSubmit, Submit, schedVars
  <2>2. Types'
    BY <2>1 DEF Inv, Types, flagVars
  <2>3. JobInv'
    BY <2>1, JobSubmitted, Zenon DEF Inv, SameBusy
  <2>4. WakeInv'
    <3>1. NotifyX' = NotifyX \cup {x} /\ x \in Foreign \ NotifyX
      BY <2>1, Zenon DEF NotifyX, Inv, Types
    <3>2. Waiting' = Waiting /\ AwakeW' = AwakeW /\ NotifyF' = NotifyF
      BY <2>1, Zenon DEF Waiting, AwakeW, NotifyF
    <3> QED BY <2>1, <3>1, <3>2, WakeSubmit, SMTT(30) DEF Inv
  <2>5. ~Exited /\ main \in Living
    BY <2>1, WorkersAssumption, SMTT(30) DEF Inv, PhaseInv, Exited
  <2>6. PhaseInv'
    BY <2>1, <2>5, Zenon DEF Inv, Types, PhaseInv, flagVars, Exited
  <2> QED BY <2>2, <2>3, <2>4, <2>6, SMTT(30) DEF Inv
<1>2. ASSUME ForeignNotify(x) PROVE Inv'
  <2>1. /\ NotifyOne(wstate) /\ xstate[x] = "notify" /\ xstate' = [xstate EXCEPT ![x] = "blocked"]
        /\ UNCHANGED <<main, current, fstate, flagVars, loop_tasks_, blocking_jobs_,
                       workers_stopping_, wjob, promise>>
    BY <1>2, Zenon DEF ForeignNotify, schedVars
  <2>2. /\ wstate' \in [Workers -> Busy \cup {"awake", "waiting", "exited"}] /\ SameBusy
        /\ \A w \in Workers : wstate'[w] = "exited" <=> wstate[w] = "exited"
    BY <2>1, NotifyOneStep, SMTT(30) DEF Inv
  <2>3. Types'
    BY <2>1, <2>2, SMTT(30) DEF Inv, Types, flagVars
  <2>4. JobInv'
    BY <2>1, <2>2, JobsStay, DisjointAssumption, SMTT(30) DEF Inv, Types, JobInv, JobState
  <2>5. NotifyX' = NotifyX \ {x} /\ x \in NotifyX /\ NotifyF' = NotifyF
    BY <2>1, Zenon DEF NotifyF, NotifyX, Inv, Types
  <2>6. WakeInv'
    <3>1. /\ Waiting' # {} => Waiting # {}
          /\ Waiting' = {} \/ \E v \in Workers \ AwakeW : AwakeW' = AwakeW \cup {v}
      BY <2>1, NotifyOneOutside, SMTT(30) DEF Inv
    <3> QED BY <2>1, <2>5, <3>1, WakeNotified, SMTT(30) DEF Inv
  <2>7. PhaseInv'
    BY <2>1, <2>2, Zenon DEF Inv, PhaseInv, flagVars, Exited
  <2> QED BY <2>3, <2>4, <2>6, <2>7, Zenon DEF Inv
<1>3. ASSUME ForeignReturn(x) PROVE Inv'
  <2>1. /\ xstate[x] = "blocked" /\ xstate' = [xstate EXCEPT ![x] = "free"]
        /\ UNCHANGED <<main, current, fstate, flagVars, loop_tasks_, workerVars, promise>>
    BY <1>3, SMTT(30) DEF ForeignReturn, schedVars
  <2>2. Types' /\ PhaseInv'
    BY <2>1, SMTT(30) DEF Inv, Types, PhaseInv, flagVars, workerVars, Exited
  <2>3. JobInv'
    BY <2>1, JobsStay, DisjointAssumption, SMTT(30) DEF Inv, Types, JobInv, JobState, SameBusy, workerVars
  <2>4. Waiting' = Waiting /\ AwakeW' = AwakeW /\ NotifyF' = NotifyF /\ NotifyX' = NotifyX
    BY <2>1, Zenon DEF Waiting, AwakeW, NotifyF, NotifyX, workerVars, Inv, Types
  <2>5. WakeInv'
    BY <2>1, <2>4, WakeStays, Zenon DEF Inv, workerVars
  <2> QED BY <2>2, <2>3, <2>5, Zenon DEF Inv
<1> QED BY <1>1, <1>2, <1>3, Zenon DEF ForeignStep

\* The steps of the workers.
LEMMA WorkerSteps ==
    ASSUME Inv, NEW w \in Workers, WorkerStep(w) \/ \E j \in Jobs : WorkerNest(w, j)
    PROVE  Inv'
<1>0. UNCHANGED <<main, current, fstate, flagVars, xstate, workers_stopping_>>
  BY Zenon DEF WorkerStep, WorkerTake, WorkerWait, WorkerExit, WorkerPost, WorkerCount, WorkerNest,
         WorkerNestNotify, WorkerResume, schedVars, promiseVars
<1>1. NotifyF' = NotifyF /\ NotifyX' = NotifyX
  BY <1>0, SMTT(30) DEF NotifyF, NotifyX
<1>2. ASSUME wstate[w] # "exited", ~Exited', Types',
             \A v \in Workers \ {w} : wstate'[v] = "exited" => wstate[v] = "exited",
             wstate'[w] = "exited" => workers_stopping_,
             main = "destroyed" => loop_tasks_' = <<>>
      PROVE  PhaseInv'
  <2>1. main \notin {"close", "final", "destroyed", "terminated"}
    BY <1>2, Zenon DEF Inv, PhaseInv, Exited
  <2> QED BY <1>0, <1>2, <2>1, ZenonT(30) DEF Inv, PhaseInv, flagVars
<1>3. CASE WorkerTake(w)
  <2>1. /\ wstate[w] = "awake" /\ wstate' = [wstate EXCEPT ![w] = "running"]
        /\ blocking_jobs_ # <<>> /\ blocking_jobs_' = Tail(blocking_jobs_)
        /\ wjob' = [wjob EXCEPT ![w] = Head(blocking_jobs_)] /\ UNCHANGED <<loop_tasks_, promise>>
    BY <1>3, Zenon DEF WorkerTake, promiseVars
  <2>2. Tail(blocking_jobs_) \in Seq(Jobs) /\ Head(blocking_jobs_) \in Jobs
    BY <2>1, SMTT(30) DEF Inv, Types
  <2>3. Types'
    BY <1>0, <2>1, <2>2, Zenon DEF Inv, Types, flagVars, Busy
  <2>4. wstate'[w] = "running" /\ \A v \in Workers \ {w} : wstate'[v] = wstate[v]
    BY <2>1, SMTT(30) DEF Inv, Types
  <2>5. PhaseInv'
    BY <1>2, <2>1, <2>3, <2>4, Zenon DEF Exited, Inv, PhaseInv
  <2>6. JobInv' /\ WakeInv'
    BY <1>3, JobTaken, WakeTaken, Zenon DEF Inv
  <2> QED BY <2>3, <2>5, <2>6, Zenon DEF Inv
<1>4. CASE WorkerWait(w) \/ WorkerExit(w)
  <2>1. PICK n \in {"waiting", "exited"} :
           /\ wstate[w] = "awake" /\ wstate' = [wstate EXCEPT ![w] = n]
           /\ blocking_jobs_ = <<>> /\ (n = "exited" => workers_stopping_)
           /\ UNCHANGED <<blocking_jobs_, wjob, loop_tasks_, promise>>
    BY <1>4, Zenon DEF WorkerWait, WorkerExit, promiseVars
  <2>2. Types'
    BY <1>0, <2>1, Zenon DEF Inv, Types, flagVars
  <2>3. wstate'[w] = n /\ \A v \in Workers \ {w} : wstate'[v] = wstate[v]
    BY <2>1, SMTT(30) DEF Inv, Types
  <2>4. JobInv'
    <3>1. SameBusy
      BY <2>1, <2>3, Zenon DEF SameBusy, Busy
    <3> QED BY <2>1, <3>1, JobsStay, DisjointAssumption, Zenon DEF Inv, Types, JobInv, JobState
  <2>5. WakeInv'
    BY <2>1, <2>2, WakeEmpty, SMTT(30) DEF Inv
  <2>6. PhaseInv'
    <3>1. main \notin {"close", "final", "destroyed", "terminated"}
      BY <2>1, Zenon DEF Inv, PhaseInv, Exited
    <3> QED BY <1>0, <2>1, <2>3, <3>1, Zenon DEF Inv, PhaseInv, flagVars
  <2> QED BY <2>2, <2>4, <2>5, <2>6, SMTT(30) DEF Inv
<1>5. CASE WorkerPost(w)
  <2>1. /\ wstate[w] = "running" /\ wstate' = [wstate EXCEPT ![w] = "posted"]
        /\ UNCHANGED <<blocking_jobs_, wjob, promise>>
    BY <1>5, Zenon DEF WorkerPost, promiseVars
  <2>2. JobInv' /\ loop_tasks_' \in Seq(LoopTasks)
    BY <1>5, JobPosted, Zenon DEF Inv
  <2>3. Types'
    BY <1>0, <2>1, <2>2, Zenon DEF Inv, Types, flagVars, Busy
  <2>4. wstate'[w] = "posted" /\ \A v \in Workers \ {w} : wstate'[v] = wstate[v]
    BY <2>1, SMTT(30) DEF Inv, Types
  <2>5. PhaseInv'
    BY <1>2, <2>1, <2>3, <2>4, Zenon DEF Exited, Inv, PhaseInv
  <2>6. Waiting' = Waiting /\ AwakeW' = AwakeW
    BY <2>1, <2>4, Zenon DEF Waiting, AwakeW
  <2>7. WakeInv'
    BY <1>1, <2>1, <2>6, WakeStays, Zenon DEF Inv
  <2> QED BY <2>2, <2>3, <2>5, <2>7, Zenon DEF Inv
<1>6. CASE WorkerCount(w)
  <2>1. /\ wstate[w] = "posted" /\ wstate' = [wstate EXCEPT ![w] = "awake"]
        /\ wjob' = [wjob EXCEPT ![w] = None] /\ UNCHANGED <<blocking_jobs_, loop_tasks_, promise>>
    BY <1>6, Zenon DEF WorkerCount, promiseVars
  <2>2. Types'
    BY <1>0, <2>1, Zenon DEF Inv, Types, flagVars
  <2>3. wstate'[w] = "awake" /\ \A v \in Workers \ {w} : wstate'[v] = wstate[v]
    BY <2>1, SMTT(30) DEF Inv, Types
  <2>4. PhaseInv'
    BY <1>2, <2>1, <2>2, <2>3, Zenon DEF Exited, Inv, PhaseInv
  <2>5. Waiting' = Waiting /\ AwakeW' = AwakeW \cup {w}
    BY <2>1, <2>3, Zenon DEF Waiting, AwakeW
  <2>6. WakeInv'
    BY <1>1, <2>1, <2>5, WakeStays, Zenon DEF Inv
  <2>7. JobInv'
    BY <1>6, JobCounted, Zenon DEF Inv
  <2> QED BY <2>2, <2>4, <2>6, <2>7, Zenon DEF Inv
<1>7. ASSUME NEW j \in Jobs, WorkerNest(w, j) PROVE Inv'
  <2>1. /\ Submit(w, j) /\ wstate[w] = "running" /\ wstate' = [wstate EXCEPT ![w] = "nest_notify"]
        /\ UNCHANGED <<loop_tasks_, wjob>>
        /\ blocking_jobs_' = Append(blocking_jobs_, j) /\ promise' = [promise EXCEPT ![j] = "unset"]
    BY <1>7, Zenon DEF WorkerNest, Submit
  <2>2. Types'
    BY <1>0, <2>1 DEF Inv, Types, flagVars, Busy
  <2>3. wstate'[w] = "nest_notify" /\ \A v \in Workers \ {w} : wstate'[v] = wstate[v]
    BY <2>1, SMTT(30) DEF Inv, Types
  <2>4. PhaseInv'
    BY <1>2, <2>1, <2>2, <2>3, Zenon DEF Exited, Inv, PhaseInv
  <2>5. JobInv'
    <3>1. SameBusy
      BY <2>1, <2>3, Zenon DEF SameBusy, Busy
    <3> QED BY <2>1, <3>1, JobSubmitted, Zenon DEF Inv
  <2>6. Waiting' = Waiting /\ AwakeW' = AwakeW \cup {w} /\ w \in Workers \ AwakeW
    BY <2>1, <2>3, Zenon DEF Waiting, AwakeW
  <2>7. WakeInv'
    BY <1>1, <2>1, <2>6, WakeSubmit, Zenon DEF Inv
  <2> QED BY <2>2, <2>4, <2>5, <2>7, Zenon DEF Inv
<1>8. CASE WorkerNestNotify(w)
  <2>1. PICK ws : ws = [wstate EXCEPT ![w] = "nested"]
    BY Zenon
  <2>2. /\ wstate[w] = "nest_notify" /\ NotifyOne(ws)
        /\ UNCHANGED <<blocking_jobs_, loop_tasks_, wjob, promise>>
    BY <1>8, <2>1, Zenon DEF WorkerNestNotify, promiseVars
  <2>3. /\ wstate' \in [Workers -> Busy \cup {"awake", "waiting", "exited"}] /\ SameBusy
        /\ \A v \in Workers : wstate'[v] = "exited" <=> wstate[v] = "exited"
        /\ \/ ws = wstate \/ Waiting' = {}
           \/ \E v \in Workers \ AwakeW, u \in AwakeW : AwakeW' = (AwakeW \ {u}) \cup {v}
    BY <2>1, <2>2, NotifyOneStep, ZenonT(30) DEF Inv
  <2>4. ws # wstate
    BY <2>1, <2>2, Zenon DEF Inv, Types
  <2>5. Types'
    BY <1>0, <2>2, <2>3, SMTT(30) DEF Inv, Types, flagVars
  <2>6. JobInv'
    BY <2>2, <2>3, JobsStay, DisjointAssumption, Zenon DEF Inv, Types, JobInv, JobState
  <2>7. Waiting' # {} => Waiting # {}
    <3>1. ASSUME Waiting = {} PROVE Waiting' = {}
      <4>1. wstate' = [wstate EXCEPT ![w] = "nested"]
        BY <2>1, <2>2, <3>1, SMTT(30) DEF NotifyOne
      <4> QED BY <3>1, <4>1, Zenon DEF Waiting, Inv, Types
    <3> QED BY <3>1, Zenon
  <2>8. WakeInv'
    BY <1>1, <2>2, <2>3, <2>4, <2>7, WakeNotified, SMTT(30) DEF Inv
  <2>9. PhaseInv'
    BY <1>2, <2>2, <2>3, <2>5, Zenon DEF Exited, Inv, PhaseInv
  <2> QED BY <2>5, <2>6, <2>8, <2>9, Zenon DEF Inv
<1>9. CASE WorkerResume(w)
  <2>1. /\ wstate[w] = "nested" /\ wstate' = [wstate EXCEPT ![w] = "running"]
        /\ UNCHANGED <<blocking_jobs_, loop_tasks_, wjob, promise>>
    BY <1>9, SMTT(30) DEF WorkerResume, promiseVars
  <2>2. Types'
    BY <1>0, <2>1, SMTT(30) DEF Inv, Types, flagVars, Busy
  <2>3. wstate'[w] = "running" /\ \A v \in Workers \ {w} : wstate'[v] = wstate[v]
    BY <2>1, Zenon DEF Inv, Types
  <2>4. SameBusy /\ Waiting' = Waiting /\ AwakeW' = AwakeW
    BY <2>1, <2>3, SMTT(30) DEF SameBusy, Busy, Waiting, AwakeW
  <2>5. JobInv'
    BY <2>1, <2>4, JobsStay, DisjointAssumption, Zenon DEF Inv, Types, JobInv, JobState
  <2>6. WakeInv'
    BY <1>1, <2>1, <2>4, WakeStays, SMTT(30) DEF Inv
  <2>7. PhaseInv'
    BY <1>2, <2>1, <2>2, <2>3, ZenonT(30) DEF Exited, Inv, PhaseInv
  <2> QED BY <2>2, <2>5, <2>6, <2>7, Zenon DEF Inv
<1> QED BY <1>3, <1>4, <1>5, <1>6, <1>7, <1>8, <1>9, SMTT(30) DEF WorkerStep

\* No fiber is in run_blocking's notify_one while the main fiber runs.
LEMMA MainRuns ==
    ASSUME Inv, current = Main
    PROVE  NotifyF = {}
BY DisjointAssumption, SMTT(30) DEF Inv, PhaseInv, NotifyF

\* A closure that holds no result is taken out of loop_tasks_.
LEMMA OtherPopped ==
    ASSUME Inv, Pop, Head(loop_tasks_) \in Fibers \cup Throwers,
           UNCHANGED workerVars, UNCHANGED promise
    PROVE  JobInv' /\ loop_tasks_' \in Seq(LoopTasks)
<1>1. loop_tasks_ # <<>> /\ loop_tasks_' = Tail(loop_tasks_) /\ loop_tasks_ \in Seq(LoopTasks)
  BY Zenon DEF Pop, Inv, Types
<1>2. /\ loop_tasks_' \in Seq(LoopTasks)
      /\ \A x : In(loop_tasks_, x) <=> In(loop_tasks_', x) \/ x = Head(loop_tasks_)
      /\ Once(loop_tasks_, Jobs) => Once(loop_tasks_', Jobs)
  BY <1>1, TailIn, Zenon
<1>3. Head(loop_tasks_) \notin Jobs
  BY DisjointAssumption, Zenon
<1>4. \A j \in Jobs : In(loop_tasks_', j) <=> In(loop_tasks_, j)
  BY <1>2, <1>3, Zenon
<1>5. SameBusy /\ UNCHANGED <<blocking_jobs_, wjob, promise>>
  BY Zenon DEF SameBusy, workerVars
<1>6. Once(loop_tasks_, Jobs)
  BY Zenon DEF Inv, JobInv, JobState
<1> QED BY <1>2, <1>4, <1>5, <1>6, JobsStay, DisjointAssumption, SMTT(30) DEF Inv, Types

\* The steps of drain_loop_tasks(), in run() and in ~EventLoop.
LEMMA DrainSteps ==
    ASSUME Inv, Drain
    PROVE  Inv'
<1>1. /\ current = Main /\ main \in {"drain", "final"} /\ Pop
      /\ UNCHANGED <<current, flagVars, workerVars, xstate>>
  BY Zenon DEF Drain, DrainSpawn, DrainResolve, DrainThrow, schedVars, promiseVars
<1>2. JobInv' /\ loop_tasks_' \in Seq(LoopTasks) /\ promise' \in [Jobs -> {"new", "unset", "set"}]
  <2>1. CASE DrainSpawn \/ DrainThrow
    <3>1. Head(loop_tasks_) \in Fibers \cup Throwers /\ UNCHANGED promise
      BY <2>1, Zenon DEF DrainSpawn, DrainThrow, promiseVars
    <3> QED BY <1>1, <3>1, OtherPopped, Zenon DEF Inv, Types
  <2>2. CASE DrainResolve
    <3>1. JobInv'
      BY <2>2, JobResolved, Zenon DEF Inv
    <3>2. loop_tasks_' \in Seq(LoopTasks)
      BY <1>1, TailIn, Zenon DEF Pop, Inv, Types
    <3>3. promise' = [promise EXCEPT ![Head(loop_tasks_)] = "set"]
      BY <2>2, Zenon DEF DrainResolve
    <3> QED BY <3>1, <3>2, <3>3, Zenon DEF Inv, Types
  <2> QED BY <2>1, <2>2, SMTT(30) DEF Drain
<1>3. /\ fstate' \in [Fibers -> {"new", "posted", "live", "notify", "blocked", "done", "threw"}]
      /\ \A f \in Fibers : fstate'[f] = "notify" => fstate[f] = "notify"
  <2>1. \/ UNCHANGED fstate
        \/ \E f \in Fibers : fstate' = [fstate EXCEPT ![f] = "live"]
    BY Zenon DEF Drain, DrainSpawn, DrainResolve, DrainThrow, Spawn
  <2> QED BY <2>1, SMTT(30) DEF Inv, Types
<1>4. NotifyF' = NotifyF
  BY <1>1, <1>3, MainRuns, SMTT(30) DEF NotifyF
<1>5. \/ main' = main
      \/ main = "drain" /\ main' = "threw"
      \/ main = "final" /\ main' = "terminated"
  BY <1>1, SMTT(30) DEF Drain, DrainSpawn, DrainResolve, DrainThrow
<1>6. Types'
  BY <1>1, <1>2, <1>3, <1>5, SMTT(30) DEF Inv, Types, flagVars, workerVars, Living
<1>7. WakeInv'
  BY <1>1, <1>4, WakeStays, SMTT(30) DEF workerVars, Inv, Waiting, AwakeW, NotifyX
<1>8. PhaseInv'
  <2>1. current' = current /\ wstate' = wstate /\ blocking_jobs_' = blocking_jobs_
        /\ workers_stopping_' = workers_stopping_ /\ stopping_' = stopping_
        /\ alive' = alive /\ async_open' = async_open /\ Exited' = Exited
    BY <1>1, Zenon DEF flagVars, workerVars, Exited
  <2> QED BY <1>1, <1>3, <1>5, <2>1, SMTT(30) DEF Inv, PhaseInv, Living
<1> QED BY <1>2, <1>6, <1>7, <1>8, SMTT(30) DEF Inv

\* The other steps of the main fiber.
LEMMA MainSteps ==
    ASSUME Inv, Check \/ Yield \/ IdleCheck \/ Destroy
    PROVE  Inv'
<1>0. fstate' = fstate /\ xstate' = xstate /\ promise' = promise /\ loop_tasks_' = loop_tasks_
      /\ blocking_jobs_' = blocking_jobs_ /\ wjob' = wjob
  BY Zenon DEF Check, Yield, IdleCheck, Destroy, DestroyBegin, DestroyNotify, DestroyJoin, DestroyClose,
         DestroyEnd, promiseVars, workerVars
<1>1. NotifyF' = NotifyF
  BY <1>0, Zenon DEF NotifyF
<1>2. CASE Check \/ IdleCheck \/ DestroyJoin \/ DestroyEnd
  <2>1. UNCHANGED <<current, flagVars, workerVars>>
    BY <1>2, SMTT(30) DEF Check, IdleCheck, DestroyJoin, DestroyEnd, schedVars
  <2>2. \/ main = "check" /\ main' = "returned" /\ stopping_
        \/ main = "check" /\ main' = "drain"
        \/ main = "yield" /\ main' = "check" /\ current = Main
        \/ main = "join" /\ main' = "close" /\ Exited
        \/ main = "final" /\ main' = "destroyed" /\ loop_tasks_ = <<>>
    BY <1>2, SMTT(30) DEF Check, IdleCheck, DestroyJoin, DestroyEnd, Idle, uv_loop_alive, Inv, PhaseInv,
                Living, Exited
  <2>3. Types'
    BY <1>0, <2>1, <2>2, SMTT(30) DEF Inv, Types, flagVars, workerVars, Living
  <2>4. PhaseInv'
    BY <1>0, <2>1, <2>2, Zenon DEF Inv, PhaseInv, flagVars, workerVars, Living, Exited
  <2> QED BY <1>0, <1>1, <2>1, <2>3, <2>4, Untouched, SMTT(30)
<1>3. CASE Yield
  <2>1. UNCHANGED <<flagVars, workerVars>> /\ main = "drain" /\ main' = "yield" /\ current = Main
    BY <1>3, SMTT(30) DEF Yield
  <2>2. Types'
    BY <1>0, <2>1, SMTT(30) DEF Inv, Types, flagVars, workerVars, Living
  <2>3. PhaseInv'
    <3>1. \A f \in Fibers : fstate[f] # "notify"
      BY <2>1, MainRuns, Zenon DEF NotifyF
    <3> QED BY <1>0, <2>1, <3>1, Zenon DEF Inv, PhaseInv, flagVars, workerVars, Living, Exited
  <2> QED BY <1>0, <1>1, <2>1, <2>2, <2>3, Untouched, SMTT(30)
<1>4. CASE DestroyBegin
  <2>1. /\ main \in {"returned", "threw"} /\ main' = "notify"
        /\ alive' = FALSE /\ stopping_' = TRUE /\ workers_stopping_' = TRUE
        /\ current' = current /\ async_open' = async_open /\ wstate' = wstate
    BY <1>4, SMTT(30) DEF DestroyBegin, schedVars
  <2>2. Types'
    BY <1>0, <2>1, Zenon DEF Inv, Types, Living
  <2>3. PhaseInv'
    BY <1>0, <2>1, Zenon DEF Inv, PhaseInv, Living, Exited
  <2>4. JobInv'
    BY <1>0, <2>1, JobsStay, DisjointAssumption, Zenon DEF Inv, Types, JobInv, JobState, SameBusy
  <2>5. WakeInv'
    BY <1>0, <1>1, <2>1, WakeStays, SMTT(30) DEF Inv, Waiting, AwakeW, NotifyX
  <2> QED BY <2>2, <2>3, <2>4, <2>5, SMTT(30) DEF Inv
<1>5. CASE DestroyNotify
  <2>1. /\ main = "notify" /\ main' = "join" /\ workers_stopping_' = workers_stopping_
        /\ UNCHANGED <<current, flagVars>>
        /\ wstate' = [w \in Workers |-> IF w \in Waiting THEN "awake" ELSE wstate[w]]
    BY <1>5, Zenon DEF DestroyNotify, schedVars
  <2>2. \A w \in Workers : wstate'[w] = wstate[w] \/ (wstate[w] = "waiting" /\ wstate'[w] = "awake")
    BY <2>1, SMTT(30) DEF Waiting
  <2>3. Types'
    <3>1. wstate' \in [Workers -> Busy \cup {"awake", "waiting", "exited"}]
      BY <2>1, Zenon DEF Inv, Types
    <3> QED BY <1>0, <2>1, <3>1, SMTT(30) DEF Inv, Types, flagVars, Living
  <2>4. SameBusy /\ Exited' = Exited /\ \A w \in Workers : wstate'[w] = "exited" => wstate[w] = "exited"
    BY <2>2, SMTT(30) DEF SameBusy, Exited, Busy
  <2>5. PhaseInv'
    BY <1>0, <2>1, <2>4, SMTT(30) DEF Inv, PhaseInv, flagVars, Living
  <2>6. JobInv'
    BY <1>0, <2>4, JobsStay, DisjointAssumption, Zenon DEF Inv, Types, JobInv, JobState
  <2>7. Waiting' = {}
    BY <2>1, Zenon DEF Waiting
  <2>8. WakeInv'
    BY <1>0, <2>7, WakeNotified, Zenon DEF Inv
  <2> QED BY <2>3, <2>5, <2>6, <2>8, Zenon DEF Inv
<1>6. CASE DestroyClose
  <2>1. /\ main = "close" /\ main' = "final" /\ async_open' = FALSE
        /\ UNCHANGED <<current, stopping_, alive, workerVars>>
    BY <1>6, SMTT(30) DEF DestroyClose, schedVars
  <2>2. Types'
    BY <1>0, <2>1, Zenon DEF Inv, Types, workerVars, Living
  <2>3. PhaseInv'
    BY <1>0, <2>1, Zenon DEF Inv, PhaseInv, workerVars, Living, Exited
  <2> QED BY <1>0, <1>1, <2>1, <2>2, <2>3, Untouched, SMTT(30)
<1> QED BY <1>2, <1>3, <1>4, <1>5, <1>6, SMTT(30) DEF Destroy

\* The invariant holds when fiberuv::run enters run().
LEMMA InitInv ==
    ASSUME Init
    PROVE  Inv
<1>1. Types
  <2>1. loop_tasks_ \in Seq(LoopTasks) /\ blocking_jobs_ \in Seq(Jobs)
    BY FibersAssumption DEF Init, LoopTasks
  <2>2. fstate \in [Fibers -> {"new", "posted", "live", "notify", "blocked", "done", "threw"}]
    BY Zenon DEF Init
  <2>3. /\ xstate \in [Foreign -> {"free", "notify", "blocked"}]
        /\ wstate \in [Workers -> Busy \cup {"awake", "waiting", "exited"}]
        /\ wjob \in [Workers -> Jobs \cup {None}]
        /\ promise \in [Jobs -> {"new", "unset", "set"}]
    BY Zenon DEF Init
  <2>4. /\ main \in Living
        /\ stopping_ \in BOOLEAN /\ alive \in BOOLEAN
        /\ async_open \in BOOLEAN /\ workers_stopping_ \in BOOLEAN
    BY Zenon DEF Init, Living
  <2> QED BY <2>1, <2>2, <2>3, <2>4, Zenon DEF Types
<1>2. JobInv
  <2>1. \A i \in DOMAIN loop_tasks_ : loop_tasks_[i] \notin Jobs
    BY FibersAssumption, DisjointAssumption DEF Init
  <2>2. blocking_jobs_ = <<>> /\ promise = [j \in Jobs |-> "new"]
        /\ wjob = [w \in Workers |-> None] /\ wstate = [w \in Workers |-> "awake"]
    BY Zenon DEF Init
  <2>3. DOMAIN blocking_jobs_ = {}
    BY <2>2
  <2> QED BY <2>1, <2>2, <2>3, DisjointAssumption, Zenon
          DEF JobInv, JobState, WorkersOK, In, Once, Held, Queued, Posted, Busy
<1>3. WakeInv
  <2>1. Waiting = {}
    BY Zenon DEF Init, Waiting
  <2> QED BY <2>1, Zenon DEF WakeInv
<1>4. PhaseInv
  BY WorkersAssumption, Zenon DEF Init, PhaseInv, Living, Exited
<1> QED BY <1>1, <1>2, <1>3, <1>4, Zenon DEF Inv

\* Every step of the loop, of the workers and of other threads preserves it.
LEMMA StepInv ==
    ASSUME Inv, [Next]_vars
    PROVE  Inv'
<1>1. CASE Next
  BY <1>1, AnyThread, FiberSteps, ForeignSteps, WorkerSteps, DrainSteps, MainSteps, SMTT(30) DEF Next, LoopStep
<1>2. CASE UNCHANGED vars
  <2>1. UNCHANGED <<main, current, fstate, flagVars>> /\ UNCHANGED workerVars
        /\ UNCHANGED <<loop_tasks_, promise, xstate>>
    BY <1>2, SMTT(30) DEF vars, schedVars, promiseVars
  <2>2. Types' /\ PhaseInv' /\ NotifyF' = NotifyF
    BY <2>1, Zenon DEF Inv, Types, PhaseInv, NotifyF, flagVars, workerVars, Exited
  <2> QED BY <2>1, <2>2, Untouched, Zenon
<1> QED BY <1>1, <1>2, Zenon

-----------------------------------------------------------------------------
(* The theorems *)

\* Inv is an invariant of the specification.
LEMMA Invariance == Spec => []Inv
<1>1. Init => Inv
  BY InitInv, Zenon
<1>2. Inv /\ [Next]_vars => Inv'
  BY StepInv, Zenon
<1> QED BY <1>1, <1>2, PTL DEF Spec

\* A run_blocking call is executed exactly once, whoever calls it and however
\* many workers there are: its job is in one place until its promise is set.
THEOREM JobsRunOnce == Spec => []JobOnce
<1>1. Inv => JobOnce
  BY JobForm, SMTT(30) DEF Inv, JobInv
<1> QED BY <1>1, Invariance, PTL

\* The notify_one that run_blocking calls outside blocking_mutex_ is never lost.
THEOREM WakeupNotLost == Spec => []NoLostWakeup
<1>1. Inv => NoLostWakeup
  BY Zenon DEF Inv, WakeInv, NoLostWakeup, Coming, AwakeW, NotifyF, NotifyX
<1> QED BY <1>1, Invariance, PTL

\* run() returns normally only after stop().
THEOREM RunReturnsOnStop == Spec => []ReturnsOnStop
<1>1. Inv => ReturnsOnStop
  BY Zenon DEF Inv, PhaseInv, ReturnsOnStop
<1> QED BY <1>1, Invariance, PTL

\* ~EventLoop returns only when every worker has exited, the queues are empty
\* and every run_blocking promise is set.
THEOREM DestructionIsQuiet == Spec => []DestroyedIsQuiet
<1>1. ASSUME Inv, main = "destroyed"
      PROVE  /\ \A w \in Workers : wstate[w] = "exited"
             /\ blocking_jobs_ = <<>> /\ loop_tasks_ = <<>>
             /\ \A j \in Jobs : promise[j] # "unset"
  <2>1. (\A w \in Workers : wstate[w] = "exited") /\ blocking_jobs_ = <<>> /\ loop_tasks_ = <<>>
    BY <1>1, SMTT(30) DEF Inv, PhaseInv, Exited
  <2>2. ASSUME NEW j \in Jobs PROVE promise[j] # "unset"
    <3>1. ~Queued(j) /\ ~Posted(j)
      BY <2>1, SMTT(30) DEF Queued, Posted
    <3>2. ~Held(j)
      BY <1>1, <2>1, DisjointAssumption, Zenon DEF Held, Inv, JobInv, WorkersOK, Busy
    <3>3. JobOnce
      BY <1>1, JobForm, Zenon DEF Inv, JobInv
    <3> QED BY <3>1, <3>2, <3>3, Zenon DEF JobOnce
  <2> QED BY <2>1, <2>2, Zenon
<1>2. Inv => DestroyedIsQuiet
  BY <1>1, Zenon DEF DestroyedIsQuiet
<1> QED BY <1>2, Invariance, PTL

-----------------------------------------------------------------------------
(* The scheduler, the callers of run_blocking and the counters *)

Schedulable == Fibers \cup {Main}

\* The fiber that runs is not ready; the others that can run are ready, once; the
\* main fiber is ready while another one runs, so a fiber that waits or ends always
\* finds somebody to switch to.
ReadyInv ==
    /\ current \in Schedulable /\ ready \in Seq(Schedulable)
    /\ Once(ready, Schedulable) /\ ~In(ready, current)
    /\ current # Main => In(ready, Main) /\ fstate[current] \in {"live", "notify"}
    /\ \A f \in Fibers : In(ready, f) => fstate[f] = "live"
    /\ \A f \in Fibers : fstate[f] = "live" => f = current \/ In(ready, f)

\* A fiber is inside run_blocking exactly while it awaits one result.
CallerInv ==
    /\ caller \in [Jobs -> Fibers \cup Workers \cup Foreign \cup {None}]
    /\ \A f \in Fibers : fstate[f] \in {"notify", "blocked"} <=> \E j \in Jobs : Awaits(f, j)
    /\ \A f \in Fibers, j, k \in Jobs : Awaits(f, j) /\ Awaits(f, k) => j = k

\* A fiber that a dispatched closure will spawn is not spawned yet.
TaskInv == Once(loop_tasks_, Fibers) /\ \A f \in Fibers : In(loop_tasks_, f) => fstate[f] = "posted"

SchedInv == ReadyInv /\ CallerInv /\ TaskInv

\* A step of the scheduler: the current fiber leaves, r is the queue it leaves.
LEMMA SwitchReady ==
    ASSUME NEW r \in Seq(Schedulable), r # <<>>, Once(r, Schedulable), Switch(r)
    PROVE  /\ current' \in Schedulable /\ ready' \in Seq(Schedulable)
           /\ In(r, current') /\ Once(ready', Schedulable) /\ ~In(ready', current')
           /\ \A x : In(r, x) <=> In(ready', x) \/ x = current'
<1>1. current' = Head(r) /\ ready' = Tail(r)
  BY Zenon DEF Switch
<1>2. /\ Tail(r) \in Seq(Schedulable) /\ Head(r) \in Schedulable /\ In(r, Head(r))
      /\ \A x : In(r, x) <=> In(Tail(r), x) \/ x = Head(r)
      /\ \A T : Once(r, T) => Once(Tail(r), T) /\ (Head(r) \in T => ~In(Tail(r), Head(r)))
  BY TailIn, Zenon
<1> QED BY <1>1, <1>2, Zenon

\* A queue that holds something is not empty.
LEMMA InNotEmpty ==
    ASSUME NEW q, NEW x, In(q, x)
    PROVE  q # <<>>
BY DEF In

\* A fiber that was not ready becomes live and ready.
LEMMA FiberReady ==
    ASSUME Inv, ReadyInv, NEW f \in Fibers, fstate[f] \notin {"live", "notify"},
           fstate' = [fstate EXCEPT ![f] = "live"], ready' = Append(ready, f), current' = current
    PROVE  ReadyInv'
<1>1. ~In(ready, f) /\ f # current /\ f \in Schedulable /\ f # Main
  BY DisjointAssumption, Zenon DEF ReadyInv, Schedulable
<1>2. /\ ready' \in Seq(Schedulable) /\ Once(ready', Schedulable)
      /\ \A x : In(ready', x) <=> In(ready, x) \/ x = f
  BY <1>1, AppendIn, Zenon DEF ReadyInv
<1>3. \A g \in Fibers : fstate'[g] = IF g = f THEN "live" ELSE fstate[g]
  BY Zenon DEF Inv, Types
<1> QED BY <1>1, <1>2, <1>3, Zenon DEF ReadyInv, Schedulable

\* A fiber that is spawned awaits nothing.
LEMMA SpawnSched ==
    ASSUME Inv, SchedInv, NEW f \in Fibers, fstate[f] \in {"new", "posted"}, Spawn(f),
           UNCHANGED <<current, promise, caller>>,
           Once(loop_tasks_', Fibers), ~In(loop_tasks_', f),
           \A g \in Fibers : In(loop_tasks_', g) => In(loop_tasks_, g)
    PROVE  SchedInv'
<1>1. fstate' = [fstate EXCEPT ![f] = "live"] /\ ready' = Append(ready, f)
  BY Zenon DEF Spawn
<1>2. ReadyInv'
  BY <1>1, FiberReady, Zenon DEF SchedInv
<1>3. \A g \in Fibers : fstate'[g] = IF g = f THEN "live" ELSE fstate[g]
  BY <1>1, Zenon DEF Inv, Types
<1>4. CallerInv'
  BY <1>3 DEF SchedInv, CallerInv, Awaits
<1>5. TaskInv'
  BY <1>3, Zenon DEF SchedInv, TaskInv
<1> QED BY <1>2, <1>4, <1>5, Zenon DEF SchedInv

\* The steps of a fiber keep every fiber in its place.
LEMMA FiberSched ==
    ASSUME Inv, Inv', SchedInv, NEW f \in Fibers, FiberStep(f)
    PROVE  SchedInv'
<1>0. current = f /\ f # Main /\ f \in Schedulable
  BY DisjointAssumption, Zenon DEF FiberStep, FiberSpawn, FiberSubmit, FiberYield, FiberNotify, FiberEnd, Schedulable
<1>1. In(ready, Main) /\ ready # <<>> /\ ~In(ready, f)
  BY <1>0, InNotEmpty, Zenon DEF SchedInv, ReadyInv
<1>2. ASSUME NEW g \in Fibers, FiberSpawn(f, g) PROVE SchedInv'
  <2>1. /\ fstate[g] = "new" /\ Spawn(g) /\ UNCHANGED <<current, promise, caller, loop_tasks_>>
    BY <1>2, Zenon DEF FiberSpawn, promiseVars
  <2>2. ~In(loop_tasks_, g) /\ Once(loop_tasks_, Fibers)
    BY <2>1, Zenon DEF SchedInv, TaskInv
  <2> QED BY <2>1, <2>2, SpawnSched, Zenon
<1>3. CASE FiberYield(f)
  <2> DEFINE r == Append(ready, f)
  <2>1. /\ fstate[f] = "live" /\ Switch(r) /\ UNCHANGED <<fstate, promise, caller, loop_tasks_>>
    BY <1>3, Zenon DEF FiberYield, promiseVars
  <2>2. /\ r \in Seq(Schedulable) /\ Once(r, Schedulable) /\ \A x : In(r, x) <=> In(ready, x) \/ x = f
    BY <1>0, <1>1, AppendIn, Zenon DEF SchedInv, ReadyInv
  <2>3. r # <<>>
    BY <2>2, InNotEmpty, Zenon
  <2> HIDE DEF r
  <2>4. /\ current' \in Schedulable /\ ready' \in Seq(Schedulable)
        /\ In(r, current') /\ Once(ready', Schedulable) /\ ~In(ready', current')
        /\ \A x : In(r, x) <=> In(ready', x) \/ x = current'
    BY <2>1, <2>2, <2>3, SwitchReady, Zenon
  <2>5. ReadyInv'
    BY <1>0, <1>1, <2>1, <2>2, <2>4, Zenon DEF SchedInv, ReadyInv, Schedulable
  <2>6. CallerInv' /\ TaskInv'
    BY <2>1 DEF SchedInv, CallerInv, TaskInv, Awaits
  <2> QED BY <2>5, <2>6, Zenon DEF SchedInv
<1>4. ASSUME NEW j \in Jobs, FiberSubmit(f, j) PROVE SchedInv'
  <2>1. /\ fstate[f] = "live" /\ fstate' = [fstate EXCEPT ![f] = "notify"]
        /\ promise[j] = "new" /\ promise' = [promise EXCEPT ![j] = "unset"]
        /\ caller' = [caller EXCEPT ![j] = f] /\ UNCHANGED <<current, ready, loop_tasks_>>
    BY <1>4, Zenon DEF FiberSubmit, Submit, schedVars
  <2>2. \A g \in Fibers : fstate'[g] = IF g = f THEN "notify" ELSE fstate[g]
    BY <2>1 DEF Inv, Types
  <2>3. ReadyInv'
    BY <1>0, <1>1, <2>1, <2>2, Zenon DEF SchedInv, ReadyInv
  <2>4. TaskInv'
    BY <2>1, <2>2, Zenon DEF SchedInv, TaskInv
  <2>5. \A g \in Fibers, k \in Jobs :
           Awaits(g, k)' <=> (Awaits(g, k) \/ (g = f /\ k = j))
    BY <2>1 DEF SchedInv, CallerInv, Awaits, Inv, Types
  <2>6. \A k \in Jobs : ~Awaits(f, k)
    BY <2>1, Zenon DEF SchedInv, CallerInv
  <2>7. CallerInv'
    <3>1. caller' \in [Jobs -> Fibers \cup Workers \cup Foreign \cup {None}]
      BY <2>1, Zenon DEF SchedInv, CallerInv
    <3>2. \A g \in Fibers : fstate'[g] \in {"notify", "blocked"} <=> \E k \in Jobs : Awaits(g, k)'
      BY <2>2, <2>5, Zenon DEF SchedInv, CallerInv
    <3>3. \A g \in Fibers, k, l \in Jobs : Awaits(g, k)' /\ Awaits(g, l)' => k = l
      BY <2>5, <2>6, Zenon DEF SchedInv, CallerInv
    <3> QED BY <3>1, <3>2, <3>3, Zenon DEF CallerInv
  <2> QED BY <2>3, <2>4, <2>7, Zenon DEF SchedInv
<1>5. CASE FiberNotify(f) \/ FiberEnd(f)
  <2>1. PICK st \in {"blocked", "done", "threw"} :
          /\ fstate' = [fstate EXCEPT ![f] = st]
          /\ st = "blocked" <=> fstate[f] = "notify"
          /\ fstate[f] \in {"live", "notify"}
    BY <1>5, Zenon DEF FiberNotify, FiberEnd
  <2>2. Switch(ready) /\ UNCHANGED <<promise, caller, loop_tasks_>>
    BY <1>5, Zenon DEF FiberNotify, FiberEnd, promiseVars
  <2>3. \A g \in Fibers : fstate'[g] = IF g = f THEN st ELSE fstate[g]
    BY <2>1, ZenonT(30) DEF Inv, Types
  <2>4. /\ current' \in Schedulable /\ ready' \in Seq(Schedulable)
        /\ In(ready, current') /\ Once(ready', Schedulable) /\ ~In(ready', current')
        /\ \A x : In(ready, x) <=> In(ready', x) \/ x = current'
    BY <1>1, <2>2, SwitchReady, Zenon DEF SchedInv, ReadyInv
  <2>5. ReadyInv'
    BY <1>0, <1>1, <2>3, <2>4, Zenon DEF SchedInv, ReadyInv, Schedulable
  <2>6. TaskInv'
    BY <2>1, <2>2, <2>3, Zenon DEF SchedInv, TaskInv
  <2>7. CallerInv'
    BY <2>1, <2>2, <2>3 DEF SchedInv, CallerInv, Awaits
  <2> QED BY <2>5, <2>6, <2>7, Zenon DEF SchedInv
<1> QED BY <1>2, <1>3, <1>4, <1>5, Zenon DEF FiberStep

\* A job submitted by somebody who is not a fiber concerns no fiber.
LEMMA OtherSubmitSched ==
    ASSUME Inv, SchedInv, NEW c \in Workers \cup Foreign, NEW j \in Jobs, Submit(c, j),
           UNCHANGED <<current, ready, fstate, loop_tasks_>>
    PROVE  SchedInv'
<1>1. /\ promise[j] = "new" /\ promise' = [promise EXCEPT ![j] = "unset"]
      /\ caller' = [caller EXCEPT ![j] = c] /\ c \notin Fibers
  BY DisjointAssumption, Zenon DEF Submit
<1>2. \A g \in Fibers, k \in Jobs : Awaits(g, k)' <=> Awaits(g, k)
  BY <1>1 DEF SchedInv, CallerInv, Awaits, Inv, Types
<1>3. CallerInv'
  <2>1. caller' \in [Jobs -> Fibers \cup Workers \cup Foreign \cup {None}]
    BY <1>1, Zenon DEF SchedInv, CallerInv
  <2>2. \A g \in Fibers : fstate'[g] \in {"notify", "blocked"} <=> \E k \in Jobs : Awaits(g, k)'
    BY <1>2, Zenon DEF SchedInv, CallerInv
  <2>3. \A g \in Fibers, k, l \in Jobs : Awaits(g, k)' /\ Awaits(g, l)' => k = l
    BY <1>2, Zenon DEF SchedInv, CallerInv
  <2> QED BY <2>1, <2>2, <2>3, Zenon DEF CallerInv
<1>4. ReadyInv' /\ TaskInv'
  BY Zenon DEF SchedInv, ReadyInv, TaskInv
<1> QED BY <1>3, <1>4, Zenon DEF SchedInv

\* The steps of the workers and of the foreign threads keep every fiber in its
\* place.
LEMMA ThreadSched ==
    ASSUME Inv, Inv', SchedInv,
           \/ \E w \in Workers : WorkerStep(w) \/ \E j \in Jobs : WorkerNest(w, j)
           \/ \E x \in Foreign : ForeignStep(x) \/ \E j \in Jobs : ForeignSubmit(x, j)
    PROVE  SchedInv'
<1>1. ASSUME UNCHANGED <<current, ready, fstate, promise, caller>>,
             \A f \in Fibers : In(loop_tasks_', f) => In(loop_tasks_, f),
             Once(loop_tasks_', Fibers)
      PROVE  SchedInv'
  BY <1>1 DEF SchedInv, ReadyInv, CallerInv, TaskInv, Awaits
<1>2. ASSUME UNCHANGED <<current, ready, fstate, promise, caller, loop_tasks_>> PROVE SchedInv'
  BY <1>1, <1>2, Zenon DEF SchedInv, TaskInv
<1>3. ASSUME NEW w \in Workers, WorkerStep(w) PROVE SchedInv'
  <2>1. CASE WorkerPost(w)
    <3>1. /\ loop_tasks_' = Append(loop_tasks_, wjob[w]) /\ wjob[w] \in Jobs
          /\ UNCHANGED <<current, ready, fstate, promise, caller>>
      BY <2>1 DEF WorkerPost, Post, schedVars, promiseVars, Inv, JobInv, WorkersOK, Busy, Types
    <3>2. wjob[w] \in LoopTasks /\ wjob[w] \notin Fibers
      BY <3>1, DisjointAssumption, Zenon DEF LoopTasks
    <3>3. /\ \A x : In(loop_tasks_', x) <=> In(loop_tasks_, x) \/ x = wjob[w]
          /\ Once(loop_tasks_', Fibers)
      BY <3>1, <3>2, AppendIn DEF Inv, Types, SchedInv, TaskInv
    <3> QED BY <1>1, <3>1, <3>2, <3>3, ZenonT(30)
  <2>2. CASE \/ WorkerTake(w) \/ WorkerWait(w) \/ WorkerExit(w) \/ WorkerCount(w)
             \/ WorkerNestNotify(w) \/ WorkerResume(w)
    BY <1>2, <2>2, Zenon DEF WorkerTake, WorkerWait, WorkerExit, WorkerCount, WorkerNestNotify,
       WorkerResume, schedVars, promiseVars
  <2> QED BY <1>3, <2>1, <2>2, Zenon DEF WorkerStep
<1>4. ASSUME NEW w \in Workers, NEW j \in Jobs, WorkerNest(w, j) PROVE SchedInv'
  BY <1>4, OtherSubmitSched, Zenon DEF WorkerNest, schedVars
<1>5. ASSUME NEW x \in Foreign, ForeignStep(x) PROVE SchedInv'
  BY <1>2, <1>5, Zenon DEF ForeignStep, ForeignNotify, ForeignReturn, schedVars
<1>6. ASSUME NEW x \in Foreign, NEW j \in Jobs, ForeignSubmit(x, j) PROVE SchedInv'
  BY <1>6, OtherSubmitSched, Zenon DEF ForeignSubmit, schedVars
<1> QED BY <1>3, <1>4, <1>5, <1>6, ZenonT(30)

\* The steps of drain_loop_tasks() make a fiber ready that was not.
LEMMA DrainSched ==
    ASSUME Inv, Inv', SchedInv, Drain
    PROVE  SchedInv'
<1> DEFINE t == Head(loop_tasks_)
<1>1. /\ current = Main /\ loop_tasks_ # <<>> /\ loop_tasks_' = Tail(loop_tasks_)
      /\ loop_tasks_ \in Seq(LoopTasks) /\ UNCHANGED <<current, caller>>
  BY Zenon DEF Drain, DrainSpawn, DrainResolve, DrainThrow, Pop, schedVars, promiseVars, Inv, Types
<1>2. /\ In(loop_tasks_, t)
      /\ \A x : In(loop_tasks_, x) <=> In(loop_tasks_', x) \/ x = t
      /\ \A T : Once(loop_tasks_, T) => Once(loop_tasks_', T) /\ (t \in T => ~In(loop_tasks_', t))
  BY <1>1, TailIn, Zenon
<1> HIDE DEF t
<1>3. Once(loop_tasks_', Fibers) /\ (t \in Fibers => ~In(loop_tasks_', t) /\ fstate[t] = "posted")
  BY <1>2, Zenon DEF SchedInv, TaskInv
<1>4. CASE DrainSpawn
  <2>1. t \in Fibers /\ Spawn(t) /\ UNCHANGED promise
    BY <1>4, Zenon DEF DrainSpawn, promiseVars, t
  <2> QED BY <1>1, <1>2, <1>3, <2>1, SpawnSched, Zenon
<1>5. CASE DrainThrow
  <2>1. UNCHANGED <<current, ready, fstate, promise, caller>>
    BY <1>5, Zenon DEF DrainThrow, schedVars, promiseVars
  <2> QED BY <1>2, <1>3, <2>1 DEF SchedInv, ReadyInv, CallerInv, TaskInv, Awaits
<1>6. CASE DrainResolve
  <2>1. /\ t \in Jobs /\ promise' = [promise EXCEPT ![t] = "set"]
        /\ \/ /\ caller[t] \in Fibers
              /\ fstate' = [fstate EXCEPT ![caller[t]] = "live"]
              /\ ready' = Append(ready, caller[t])
           \/ caller[t] \notin Fibers /\ UNCHANGED <<fstate, ready>>
    BY <1>6, Zenon DEF DrainResolve, t
  <2>2. promise[t] = "unset"
    BY <1>2, <2>1, ZenonT(30) DEF Inv, JobInv, JobState
  <2>3. \A g \in Fibers, k \in Jobs : Awaits(g, k)' <=> Awaits(g, k) /\ k # t
    BY <1>1, <2>1 DEF Awaits, Inv, Types
  <2>4. CASE caller[t] \notin Fibers
    <3>1. \A g \in Fibers, k \in Jobs : Awaits(g, k)' <=> Awaits(g, k)
      BY <2>3, <2>4, ZenonT(30) DEF Awaits
    <3>2. CallerInv'
      BY <1>1, <2>1, <2>4, <3>1, Zenon DEF SchedInv, CallerInv
    <3>3. ReadyInv' /\ TaskInv'
      BY <1>1, <1>2, <1>3, <2>1, <2>4, Zenon DEF SchedInv, ReadyInv, TaskInv
    <3> QED BY <3>2, <3>3, Zenon DEF SchedInv
  <2>5. CASE caller[t] \in Fibers
    <3> PICK f \in Fibers : f = caller[t]
      BY <2>5, Zenon
    <3>1. fstate' = [fstate EXCEPT ![f] = "live"] /\ ready' = Append(ready, f)
      BY <2>1, Zenon
    <3>2. Awaits(f, t)
      BY <2>2, Zenon DEF Awaits
    <3>3. fstate[f] = "blocked"
      BY <1>1, <2>1, <3>2, DisjointAssumption, Zenon DEF SchedInv, CallerInv, Inv, PhaseInv
    <3>4. ReadyInv'
      BY <1>1, <3>1, <3>3, FiberReady, ZenonT(30) DEF SchedInv
    <3>5. \A g \in Fibers : fstate'[g] = IF g = f THEN "live" ELSE fstate[g]
      BY <3>1 DEF Inv, Types
    <3>6. TaskInv'
      BY <1>2, <1>3, <3>3, <3>5, Zenon DEF SchedInv, TaskInv
    <3>7. \A g \in Fibers \ {f}, k \in Jobs : Awaits(g, k)' <=> Awaits(g, k)
      BY <2>3, Zenon DEF Awaits
    <3>8. \A k \in Jobs : ~Awaits(f, k)'
      BY <2>1, <2>3, <3>2, Zenon DEF SchedInv, CallerInv
    <3>9. CallerInv'
      <4>1. \A g \in Fibers : fstate'[g] \in {"notify", "blocked"} <=> \E k \in Jobs : Awaits(g, k)'
        BY <3>5, <3>7, <3>8, ZenonT(30) DEF SchedInv, CallerInv
      <4>2. \A g \in Fibers, k, l \in Jobs : Awaits(g, k)' /\ Awaits(g, l)' => k = l
        BY <2>3 DEF SchedInv, CallerInv
      <4> QED BY <1>1, <4>1, <4>2, Zenon DEF SchedInv, CallerInv
    <3> QED BY <3>4, <3>6, <3>9, Zenon DEF SchedInv
  <2> QED BY <2>4, <2>5, Zenon
<1> QED BY <1>4, <1>5, <1>6, Zenon DEF Drain

\* The other steps of the main fiber, and dispatch(), keep every fiber in its
\* place.
LEMMA MainSched ==
    ASSUME Inv, Inv', SchedInv,
           \/ Check \/ Yield \/ IdleCheck \/ Destroy
           \/ Stop \/ TakeLast \/ UNCHANGED vars \/ \E t \in Fibers \cup Throwers : Dispatch(t)
    PROVE  SchedInv'
<1>1. CASE \/ Check \/ IdleCheck \/ Destroy \/ Stop \/ TakeLast \/ UNCHANGED vars
  <2>1. UNCHANGED <<current, ready, fstate, promise, caller, loop_tasks_>>
    BY <1>1, Zenon DEF Check, IdleCheck, Destroy, DestroyBegin, DestroyNotify, DestroyJoin, DestroyClose,
       DestroyEnd, Stop, TakeLast, vars, schedVars, promiseVars
  <2> QED BY <2>1 DEF SchedInv, ReadyInv, CallerInv, TaskInv, Awaits
<1>2. CASE Yield
  <2> DEFINE r == Append(ready, Main)
  <2>1. /\ current = Main /\ Switch(r) /\ UNCHANGED <<fstate, promise, caller, loop_tasks_>>
    BY <1>2, Zenon DEF Yield, promiseVars
  <2>2. /\ r \in Seq(Schedulable) /\ Once(r, Schedulable) /\ \A x : In(r, x) <=> In(ready, x) \/ x = Main
    BY <2>1, AppendIn DEF SchedInv, ReadyInv, Schedulable
  <2>3. r # <<>>
    BY <2>2, InNotEmpty, Zenon
  <2> HIDE DEF r
  <2>4. /\ current' \in Schedulable /\ ready' \in Seq(Schedulable)
        /\ In(r, current') /\ Once(ready', Schedulable) /\ ~In(ready', current')
        /\ \A x : In(r, x) <=> In(ready', x) \/ x = current'
    BY <2>1, <2>2, <2>3, SwitchReady, Zenon
  <2>5. ReadyInv'
    BY <2>1, <2>2, <2>4, DisjointAssumption, ZenonT(30) DEF SchedInv, ReadyInv, Schedulable
  <2>6. CallerInv' /\ TaskInv'
    BY <2>1 DEF SchedInv, CallerInv, TaskInv, Awaits
  <2> QED BY <2>5, <2>6, Zenon DEF SchedInv
<1>3. ASSUME NEW t \in Fibers \cup Throwers, Dispatch(t) PROVE SchedInv'
  <2>1. /\ loop_tasks_' = Append(loop_tasks_, t)
        /\ UNCHANGED <<current, ready, promise, caller>>
        /\ \/ t \in Fibers /\ fstate[t] = "new" /\ fstate' = [fstate EXCEPT ![t] = "posted"]
           \/ t \in Throwers /\ UNCHANGED fstate
    BY <1>3, Zenon DEF Dispatch, Post, schedVars, promiseVars
  <2>2. t \in LoopTasks /\ (t \in Throwers => t \notin Fibers)
    BY DisjointAssumption, Zenon DEF LoopTasks
  <2>3. t \in Fibers => ~In(loop_tasks_, t)
    BY <2>1, <2>2, Zenon DEF SchedInv, TaskInv
  <2>4. /\ Once(loop_tasks_', Fibers)
        /\ \A x : In(loop_tasks_', x) <=> In(loop_tasks_, x) \/ x = t
    BY <2>1, <2>2, <2>3, AppendIn, Zenon DEF Inv, Types, SchedInv, TaskInv
  <2>5. \A f \in Fibers : fstate'[f] = IF f = t THEN "posted" ELSE fstate[f]
    BY <2>1, <2>2 DEF Inv, Types
  <2>6. t \in Fibers => fstate[t] = "new"
    BY <2>1, <2>2, Zenon
  <2>7. ReadyInv'
    BY <2>1, <2>5, <2>6, DisjointAssumption, ZenonT(30) DEF SchedInv, ReadyInv, Schedulable
  <2>8. CallerInv' /\ TaskInv'
    BY <2>1, <2>4, <2>5, <2>6 DEF SchedInv, CallerInv, TaskInv, Awaits
  <2> QED BY <2>7, <2>8, Zenon DEF SchedInv
<1> QED BY <1>1, <1>2, <1>3, ZenonT(30)

\* Every step keeps every fiber in its place.
LEMMA SchedStep ==
    ASSUME Inv, Inv', SchedInv, [Next]_vars
    PROVE  SchedInv'
BY FiberSched, ThreadSched, DrainSched, MainSched, SMTT(30) DEF Next, LoopStep

\* SchedInv is an invariant of the specification.
LEMMA SchedInvariance == Spec => []SchedInv
<1>1. Init => SchedInv
  <2> SUFFICES ASSUME Init PROVE SchedInv
    BY Zenon
  <2>1. /\ current = Main /\ ready = <<>> /\ loop_tasks_ = <<Root>> /\ Root \in Fibers
        /\ fstate = [f \in Fibers |-> IF f = Root THEN "posted" ELSE "new"]
        /\ promise = [j \in Jobs |-> "new"] /\ caller = [j \in Jobs |-> None]
    BY FibersAssumption, Zenon DEF Init
  <2>2. ReadyInv
    BY <2>1 DEF ReadyInv, Schedulable, In, Once
  <2>3. CallerInv
    BY <2>1, Zenon DEF CallerInv, Awaits
  <2>4. TaskInv
    BY <2>1 DEF TaskInv, In, Once
  <2> QED BY <2>2, <2>3, <2>4, Zenon DEF SchedInv
<1>2. Inv /\ Inv' /\ SchedInv /\ [Next]_vars => SchedInv'
  BY SchedStep, Zenon
<1> QED BY <1>1, <1>2, Invariance, PTL DEF Spec

\* No fiber is lost or scheduled twice: the cooperative scheduler, dispatch() and
\* the promises of run_blocking always know where each fiber is.
THEOREM FibersAreAccounted == Spec => []FibersAccounted
<1>1. SchedInv => FibersAccounted
  <2> SUFFICES ASSUME SchedInv PROVE FibersAccounted
    BY Zenon
  <2>1. \A i \in DOMAIN ready : ready[i] \in Schedulable /\ In(ready, ready[i])
    BY DEF SchedInv, ReadyInv, In
  <2> QED BY <2>1, Zenon DEF FibersAccounted, SchedInv, ReadyInv, CallerInv, In, Once, Schedulable
<1> QED BY <1>1, SchedInvariance, PTL

-----------------------------------------------------------------------------
(* The counters *)

Working == {w \in Workers : wjob[w] # None}
Threw == {f \in Fibers : fstate[f] = "threw"}

\* The sets that the counters count are finite.
LEMMA CountedFinite ==
    /\ IsFiniteSet(Active) /\ IsFiniteSet(Working) /\ IsFiniteSet(Threw)
    /\ Cardinality(Active) \in Nat /\ Cardinality(Working) \in Nat /\ Cardinality(Threw) \in Nat
<1>1. Active \subseteq Fibers /\ Threw \subseteq Fibers /\ Working \subseteq Workers
  BY Zenon DEF Active, Threw, Working
<1>2. IsFiniteSet(Active) /\ IsFiniteSet(Working) /\ IsFiniteSet(Threw)
  BY <1>1, FibersAssumption, WorkersAssumption, FS_Subset, Zenon
<1> QED BY <1>2, FS_CardinalityType, Zenon

\* The three parts of CountersExact, one per counter.
ActiveExact == active_fibers_ = Cardinality(Active)
PendingExact == pending_blocking_ = Len(blocking_jobs_) + Cardinality(Working)
ThrewExact == unhandled = Cardinality(Threw)

\* Together they are CountersExact.
LEMMA ExactForm == CountersExact <=> ActiveExact /\ PendingExact /\ ThrewExact
BY Zenon DEF CountersExact, ActiveExact, PendingExact, ThrewExact, Working, Threw

\* A step that leaves the counters and the sets alone.
LEMMA SameFibers ==
    ASSUME ActiveExact, ThrewExact, UNCHANGED <<active_fibers_, unhandled>>,
           Active' = Active, Threw' = Threw
    PROVE  ActiveExact' /\ ThrewExact'
BY Zenon DEF ActiveExact, ThrewExact

\* The same for pending_blocking_.
LEMMA SameJobs ==
    ASSUME PendingExact, UNCHANGED <<pending_blocking_, blocking_jobs_, wjob>>
    PROVE  PendingExact'
<1>1. Working' = Working
  BY Zenon DEF Working
<1> QED BY <1>1, Zenon DEF PendingExact

\* spawn() counts the fiber it adds.
LEMMA SpawnCounts ==
    ASSUME Inv, ActiveExact, ThrewExact, NEW f \in Fibers, fstate[f] \in {"new", "posted"}, Spawn(f),
           UNCHANGED unhandled
    PROVE  ActiveExact' /\ ThrewExact'
<1>1. f \notin Active /\ Active' = Active \cup {f} /\ Threw' = Threw
  BY Zenon DEF Spawn, Active, Threw, Inv, Types
<1>2. Cardinality(Active \cup {f}) = Cardinality(Active) + 1
  BY <1>1, CountedFinite, FS_AddElement, Zenon
<1>3. ActiveExact'
  BY <1>1, <1>2, Zenon DEF ActiveExact, Spawn
<1> QED BY <1>1, <1>3, Zenon DEF ThrewExact

\* The end of a fiber is counted down, and reported when it threw.
LEMMA EndCounts ==
    ASSUME Inv, ActiveExact, ThrewExact, NEW f \in Fibers, FiberEnd(f)
    PROVE  ActiveExact' /\ ThrewExact'
<1>1. fstate[f] = "live" /\ active_fibers_' = active_fibers_ - 1
  BY Zenon DEF FiberEnd
<1>2. f \in Active /\ Active' = Active \ {f} /\ f \notin Threw
  BY Zenon DEF FiberEnd, Active, Threw, Inv, Types
<1>3. Cardinality(Active \ {f}) = Cardinality(Active) - 1
  BY <1>2, CountedFinite, FS_RemoveElement, Zenon
<1>4. ActiveExact'
  BY <1>1, <1>2, <1>3, Zenon DEF ActiveExact
<1>5. CASE fstate' = [fstate EXCEPT ![f] = "done"] /\ UNCHANGED errorVars
  <2>1. Threw' = Threw /\ unhandled' = unhandled
    BY <1>1, <1>5, Zenon DEF Threw, Inv, Types, errorVars
  <2> QED BY <1>4, <2>1, Zenon DEF ThrewExact
<1>6. CASE fstate' = [fstate EXCEPT ![f] = "threw"] /\ Report(f)
  <2>1. Threw' = Threw \cup {f} /\ unhandled' = unhandled + 1
    BY <1>6, Zenon DEF Threw, Inv, Types, Report
  <2>2. Cardinality(Threw \cup {f}) = Cardinality(Threw) + 1
    BY <1>2, CountedFinite, FS_AddElement, Zenon
  <2>3. ThrewExact'
    BY <2>1, <2>2, Zenon DEF ThrewExact
  <2> QED BY <1>4, <2>3, Zenon
<1> QED BY <1>5, <1>6, Zenon DEF FiberEnd

\* run_blocking counts the job it pushes.
LEMMA SubmitCounts ==
    ASSUME Inv, PendingExact, NEW c, NEW j \in Jobs, Submit(c, j), UNCHANGED wjob
    PROVE  PendingExact'
<1>1. Working' = Working /\ pending_blocking_' = pending_blocking_ + 1
  BY Zenon DEF Working, Submit
<1>2. Len(blocking_jobs_') = Len(blocking_jobs_) + 1 /\ Len(blocking_jobs_) \in Nat
  BY DEF Submit, Inv, Types
<1> DEFINE n == Cardinality(Working)
<1>3. n \in Nat /\ pending_blocking_ = Len(blocking_jobs_) + n /\ Cardinality(Working') = n
  BY <1>1, CountedFinite, Zenon DEF PendingExact
<1> HIDE DEF n
<1> QED BY <1>1, <1>2, <1>3 DEF PendingExact

\* A job that a worker takes or is done with is counted in its hands, or no more.
LEMMA WorkerCounts ==
    ASSUME Inv, PendingExact, NEW w \in Workers, WorkerTake(w) \/ WorkerCount(w)
    PROVE  PendingExact'
<1> DEFINE n == Cardinality(Working)
<1>0. n \in Nat /\ pending_blocking_ = Len(blocking_jobs_) + n /\ Len(blocking_jobs_) \in Nat
  BY CountedFinite DEF PendingExact, Inv, Types
<1>1. CASE WorkerTake(w)
  <2>1. Len(blocking_jobs_') = Len(blocking_jobs_) - 1 /\ pending_blocking_' = pending_blocking_
    BY <1>1 DEF WorkerTake, Inv, Types, countVars
  <2>2. w \notin Working /\ Working' = Working \cup {w}
    <3>1. Head(blocking_jobs_) # None /\ wjob' = [wjob EXCEPT ![w] = Head(blocking_jobs_)]
      BY <1>1, DisjointAssumption DEF WorkerTake, Inv, Types
    <3>2. wjob[w] = None
      BY <1>1, Zenon DEF WorkerTake, Inv, JobInv, WorkersOK, Busy
    <3> QED BY <3>1, <3>2, Zenon DEF Working, Inv, Types
  <2>3. Cardinality(Working') = n + 1
    BY <2>2, CountedFinite, FS_AddElement, Zenon
  <2> HIDE DEF n
  <2> QED BY <1>0, <2>1, <2>3 DEF PendingExact
<1>2. CASE WorkerCount(w)
  <2>1. blocking_jobs_' = blocking_jobs_ /\ pending_blocking_' = pending_blocking_ - 1
    BY <1>2, Zenon DEF WorkerCount
  <2>2. w \in Working /\ Working' = Working \ {w}
    <3>1. wjob[w] # None /\ wjob' = [wjob EXCEPT ![w] = None]
      BY <1>2, Zenon DEF WorkerCount, Inv, JobInv, WorkersOK, Busy
    <3> QED BY <3>1, Zenon DEF Working, Inv, Types
  <2>3. Cardinality(Working') = n - 1
    BY <2>2, CountedFinite, FS_RemoveElement, Zenon
  <2> HIDE DEF n
  <2> QED BY <1>0, <2>1, <2>3 DEF PendingExact
<1> QED BY <1>1, <1>2, Zenon

\* A step that moves a fiber only among the states that are counted alike.
LEMMA MovedFiber ==
    ASSUME Inv, NEW f \in Fibers, NEW st, fstate' = [fstate EXCEPT ![f] = st],
           \/ fstate[f] = "new" /\ st = "posted"
           \/ f \in Active /\ st \in {"live", "notify", "blocked"}
    PROVE  Active' = Active /\ Threw' = Threw
<1>1. \A g \in Fibers : fstate'[g] = IF g = f THEN st ELSE fstate[g]
  BY Zenon DEF Inv, Types
<1> QED BY <1>1, Zenon DEF Active, Threw

\* Every step keeps the counters exact.
LEMMA CountStep ==
    ASSUME Inv, SchedInv, CountersExact, [Next]_vars
    PROVE  CountersExact'
<1>0. ActiveExact /\ PendingExact /\ ThrewExact
  BY ExactForm, Zenon
<1> DEFINE Fib == ActiveExact' /\ ThrewExact'
<1>1. ASSUME fstate' = fstate, UNCHANGED <<active_fibers_, unhandled>> PROVE Fib
  <2>1. Active' = Active /\ Threw' = Threw
    BY <1>1, Zenon DEF Active, Threw
  <2> QED BY <1>0, <1>1, <2>1, SameFibers, Zenon
<1>2. ASSUME NEW f \in Fibers, NEW st, fstate' = [fstate EXCEPT ![f] = st],
             \/ fstate[f] = "new" /\ st = "posted"
             \/ f \in Active /\ st \in {"live", "notify", "blocked"},
             UNCHANGED <<active_fibers_, unhandled>>
      PROVE  Fib
  <2>1. Active' = Active /\ Threw' = Threw
    BY <1>2, MovedFiber, Zenon
  <2> QED BY <1>0, <1>2, <2>1, SameFibers, Zenon
<1>3. ASSUME UNCHANGED <<pending_blocking_, blocking_jobs_, wjob>> PROVE PendingExact'
  BY <1>0, <1>3, SameJobs, Zenon
<1>4. ASSUME Fib, PendingExact' PROVE CountersExact'
  BY <1>4, ExactForm, Zenon DEF CountersExact, ActiveExact, PendingExact, ThrewExact, Working, Threw
<1> HIDE DEF Fib
<1>5. ASSUME NEW f \in Fibers, FiberStep(f) PROVE CountersExact'
  <2>1. ASSUME NEW g \in Fibers, FiberSpawn(f, g) PROVE CountersExact'
    <3>1. fstate[g] = "new" /\ Spawn(g) /\ unhandled' = unhandled
      BY <2>1, Zenon DEF FiberSpawn, errorVars
    <3>2. Fib
      BY <1>0, <3>1, SpawnCounts, Zenon DEF Fib
    <3>3. PendingExact'
      BY <1>3, <2>1, Zenon DEF FiberSpawn, workerVars
    <3> QED BY <1>4, <3>2, <3>3, Zenon
  <2>2. CASE FiberYield(f)
    BY <1>1, <1>3, <1>4, <2>2, Zenon DEF FiberYield, countVars, errorVars, workerVars
  <2>3. ASSUME NEW j \in Jobs, FiberSubmit(f, j) PROVE CountersExact'
    <3>1. Fib
      BY <1>2, <2>3, Zenon DEF FiberSubmit, Active, errorVars
    <3>2. PendingExact'
      BY <1>0, <2>3, SubmitCounts, Zenon DEF FiberSubmit
    <3> QED BY <1>4, <3>1, <3>2, Zenon
  <2>4. CASE FiberNotify(f)
    <3>1. Fib
      BY <1>2, <2>4, Zenon DEF FiberNotify, Active, errorVars, countVars
    <3>2. PendingExact'
      BY <1>3, <2>4, Zenon DEF FiberNotify, countVars
    <3> QED BY <1>4, <3>1, <3>2, Zenon
  <2>5. CASE FiberEnd(f)
    <3>1. Fib
      BY <1>0, <2>5, EndCounts, Zenon DEF Fib
    <3>2. PendingExact'
      BY <1>3, <2>5, Zenon DEF FiberEnd, workerVars
    <3> QED BY <1>4, <3>1, <3>2, Zenon
  <2> QED BY <1>5, <2>1, <2>2, <2>3, <2>4, <2>5, SMTT(30) DEF FiberStep
<1>6. ASSUME NEW x \in Foreign, ForeignStep(x) PROVE CountersExact'
  BY <1>1, <1>3, <1>4, <1>6, ZenonT(30)
  DEF ForeignStep, ForeignNotify, ForeignReturn, countVars, errorVars, workerVars
<1>7. ASSUME NEW x \in Foreign, NEW j \in Jobs, ForeignSubmit(x, j) PROVE CountersExact'
  <2>1. Fib
    BY <1>1, <1>7, Zenon DEF ForeignSubmit, errorVars
  <2>2. PendingExact'
    BY <1>0, <1>7, SubmitCounts, Zenon DEF ForeignSubmit
  <2> QED BY <1>4, <2>1, <2>2, Zenon
<1>8. ASSUME NEW w \in Workers, WorkerStep(w) PROVE CountersExact'
  <2>1. Fib
    BY <1>1, <1>8, Zenon DEF WorkerStep, WorkerTake, WorkerWait, WorkerExit, WorkerPost, WorkerCount,
       WorkerNestNotify, WorkerResume, countVars, errorVars
  <2>2. CASE WorkerTake(w) \/ WorkerCount(w)
    <3>1. PendingExact'
      BY <1>0, <2>2, WorkerCounts, Zenon
    <3> QED BY <1>4, <2>1, <3>1, Zenon
  <2>3. CASE \/ WorkerWait(w) \/ WorkerExit(w) \/ WorkerPost(w) \/ WorkerNestNotify(w) \/ WorkerResume(w)
    <3>1. PendingExact'
      BY <1>3, <2>3, Zenon DEF WorkerWait, WorkerExit, WorkerPost, WorkerNestNotify, WorkerResume, countVars
    <3> QED BY <1>4, <2>1, <3>1, Zenon
  <2> QED BY <1>8, <2>2, <2>3, Zenon DEF WorkerStep
<1>9. ASSUME NEW w \in Workers, NEW j \in Jobs, WorkerNest(w, j) PROVE CountersExact'
  <2>1. Fib
    BY <1>1, <1>9, Zenon DEF WorkerNest, errorVars
  <2>2. PendingExact'
    BY <1>0, <1>9, SubmitCounts, Zenon DEF WorkerNest
  <2> QED BY <1>4, <2>1, <2>2, Zenon
<1>10. CASE Drain
  <2>1. PendingExact'
    BY <1>3, <1>10, Zenon DEF Drain, DrainSpawn, DrainResolve, DrainThrow, workerVars, countVars
  <2>2. CASE DrainSpawn
    <3>1. loop_tasks_ # <<>> /\ Head(loop_tasks_) \in Fibers /\ Spawn(Head(loop_tasks_))
          /\ unhandled' = unhandled
      BY <2>2, Zenon DEF DrainSpawn, Pop, errorVars
    <3>2. In(loop_tasks_, Head(loop_tasks_))
      BY <3>1, TailIn, Zenon DEF Inv, Types
    <3>3. fstate[Head(loop_tasks_)] = "posted"
      BY <3>1, <3>2, Zenon DEF SchedInv, TaskInv
    <3>4. Fib
      BY <1>0, <3>1, <3>3, SpawnCounts, Zenon DEF Fib
    <3> QED BY <1>4, <2>1, <3>4, Zenon
  <2>3. CASE DrainThrow
    BY <1>1, <1>4, <2>1, <2>3, ZenonT(30) DEF DrainThrow, countVars, errorVars
  <2>4. CASE DrainResolve
    <3> DEFINE j == Head(loop_tasks_)
    <3>1. /\ loop_tasks_ # <<>> /\ j \in Jobs /\ UNCHANGED <<active_fibers_, unhandled>>
          /\ \/ caller[j] \in Fibers /\ fstate' = [fstate EXCEPT ![caller[j]] = "live"]
             \/ fstate' = fstate
      BY <2>4, Zenon DEF DrainResolve, Pop, countVars, errorVars
    <3>2. In(loop_tasks_, j)
      BY <3>1, TailIn, Zenon DEF Inv, Types
    <3> HIDE DEF j
    <3>3. promise[j] = "unset"
      BY <3>1, <3>2, Zenon DEF Inv, JobInv, JobState
    <3>4. caller[j] \in Fibers => caller[j] \in Active
      BY <3>1, <3>3 DEF SchedInv, CallerInv, Awaits, Active
    <3>5. Fib
      BY <1>1, <1>2, <3>1, <3>4, Zenon
    <3> QED BY <1>4, <2>1, <3>5, Zenon
  <2> QED BY <1>10, <2>2, <2>3, <2>4, Zenon DEF Drain
<1>11. CASE \/ Check \/ Yield \/ IdleCheck \/ Destroy \/ Stop \/ TakeLast \/ UNCHANGED vars
  BY <1>1, <1>3, <1>4, <1>11, Zenon
  DEF Check, Yield, IdleCheck, Destroy, DestroyBegin, DestroyNotify, DestroyJoin, DestroyClose,
      DestroyEnd, Stop, TakeLast, vars, countVars, errorVars, workerVars
<1>12. ASSUME NEW t \in Fibers \cup Throwers, Dispatch(t) PROVE CountersExact'
  <2>1. Fib
    BY <1>1, <1>2, <1>12, Zenon DEF Dispatch, countVars, errorVars
  <2>2. PendingExact'
    BY <1>3, <1>12, Zenon DEF Dispatch, countVars, workerVars
  <2> QED BY <1>4, <2>1, <2>2, Zenon
<1> QED BY <1>5, <1>6, <1>7, <1>8, <1>9, <1>10, <1>11, <1>12, SMTT(30) DEF Next, LoopStep

\* active_fibers_, pending_blocking_ and the count of unhandled exceptions agree at
\* every step with the fibers, the jobs and the workers they stand for.
THEOREM CountersAreExact == Spec => []CountersExact
<1>1. Init => CountersExact
  <2> SUFFICES ASSUME Init PROVE CountersExact
    BY Zenon
  <2>1. /\ fstate = [f \in Fibers |-> IF f = Root THEN "posted" ELSE "new"]
        /\ wjob = [w \in Workers |-> None] /\ blocking_jobs_ = <<>>
        /\ active_fibers_ = 0 /\ pending_blocking_ = 0 /\ unhandled = 0
    BY Zenon DEF Init
  <2>2. Active = {} /\ Working = {} /\ Threw = {}
    BY <2>1, Zenon DEF Active, Working, Threw
  <2>3. Cardinality({}) = 0
    BY FS_EmptySet, Zenon
  <2>4. Cardinality(Active) = 0 /\ Cardinality(Working) = 0 /\ Cardinality(Threw) = 0
    BY <2>2, <2>3, Zenon
  <2> QED BY <2>1, <2>4, ExactForm DEF ActiveExact, PendingExact, ThrewExact
<1>2. Inv /\ SchedInv /\ CountersExact /\ [Next]_vars => CountersExact'
  BY CountStep, Zenon
<1> QED BY <1>1, <1>2, Invariance, SchedInvariance, PTL DEF Spec

\* What run() reads before it returns is sound: with both counters at zero and no
\* task queued, no run_blocking call is still waiting for its result.
THEOREM IdleIsQuiet == Spec => []IdleMeansQuiet
<1>1. Inv /\ CountersExact => IdleMeansQuiet
  <2> SUFFICES ASSUME Inv, CountersExact, pending_blocking_ = 0, loop_tasks_ = <<>>,
                      NEW j \in Jobs, promise[j] = "unset"
               PROVE  FALSE
    BY Zenon DEF IdleMeansQuiet
  <2> DEFINE n == Cardinality(Working)
             l == Len(blocking_jobs_)
  <2>1. n \in Nat /\ l \in Nat /\ 0 = l + n
    BY CountedFinite, ExactForm DEF PendingExact, Inv, Types
  <2> HIDE DEF n, l
  <2>2. n = 0 /\ l = 0
    BY <2>1
  <2>3. Working = {}
    BY <2>2, CountedFinite, FS_EmptySet, Zenon DEF n
  <2>4. blocking_jobs_ = <<>>
    BY <2>2 DEF l, Inv, Types
  <2>5. ~In(blocking_jobs_, j) /\ ~In(loop_tasks_, j)
    BY <2>4 DEF In
  <2>6. ~Held(j)
    BY <2>3, DisjointAssumption, Zenon DEF Held, Working
  <2> QED BY <2>5, <2>6, Zenon DEF Inv, JobInv, JobState
<1> QED BY <1>1, Invariance, CountersAreExact, PTL
=============================================================================
