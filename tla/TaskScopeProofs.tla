--------------------------- MODULE TaskScopeProofs ---------------------------
(***************************************************************************)
(* Proofs about TaskScope for every finite set of tasks and any joiners:   *)
(* a join waits for what was spawned before it, and no failure is lost.    *)
(***************************************************************************)
EXTENDS TaskScope, FiniteSetTheorems, TLAPS

Results == Tasks \cup {None, "ok", "dead", "timeout"}

Types ==
    /\ alive \in BOOLEAN /\ cancel \in BOOLEAN
    /\ first \in Tasks \cup {None} /\ failed \in SUBSET Tasks
    /\ tpc \in [Tasks -> {"new", "ready", "ended", "notify_cv", "notify_std", "done"}]
    /\ jpc \in [Joiners -> {"new", "locked", "parking", "parked", "awake", "returned"}]
    /\ result \in [Joiners -> Results]
    /\ before \in [Joiners -> SUBSET Tasks]

\* The tasks that active counts.
Running == {t \in Tasks : Unfinished(t)}

Counted == active = Cardinality(Running)

\* Every task the joiner waits for has ended.
Joined(j) == \A t \in before[j] : ~Unfinished(t)

\* A joiner that saw its predicate true waits for nobody, unless the loop died
\* under a foreign thread; a result stands for a completed wait; and the tasks a
\* joiner waits for cannot be spawned again.
JoinersOK ==
    \A j \in Joiners :
        /\ \A t \in before[j] : tpc[t] # "new"
        /\ jpc[j] # "returned" => result[j] = None
        /\ jpc[j] = "awake" /\ (j \notin Threads \/ alive) => Joined(j)
        /\ result[j] \in Tasks \cup {"ok"} => Joined(j)

\* first_exception is one of the failures, and there is one whenever a task failed.
FirstOK ==
    /\ first = None => failed = {}
    /\ first # None => first \in failed /\ cancel

Inv == Types /\ Counted /\ JoinersOK /\ FirstOK /\ FailureReaches

-----------------------------------------------------------------------------
(* The counter *)

\* The set of running tasks is finite and its size is a number.
LEMMA RunningFinite == IsFiniteSet(Running) /\ Cardinality(Running) \in Nat
<1>1. Running \subseteq Tasks
  BY Zenon DEF Running
<1> QED BY <1>1, TasksAssumption, FS_Subset, FS_CardinalityType, Zenon

\* When active is zero no task runs.
LEMMA NoneRunning ==
    ASSUME Types, Counted, active = 0, NEW t \in Tasks
    PROVE  ~Unfinished(t)
<1>1. Running = {}
  BY RunningFinite, FS_EmptySet, Zenon DEF Counted
<1> QED BY <1>1, Zenon DEF Running

-----------------------------------------------------------------------------
(* Steps of tasks *)

\* What a step of a task, or of the loop, may do for the joiners not to notice:
\* nothing is started again, nobody is woken past its predicate.
Quiet ==
    /\ \A t \in Tasks : tpc[t] # "new" => tpc'[t] # "new" /\ (Unfinished(t)' => Unfinished(t))
    /\ \A j \in Joiners : /\ jpc'[j] = "awake" <=> jpc[j] = "awake"
                          /\ jpc'[j] = "returned" <=> jpc[j] = "returned"
    /\ alive' => alive
    /\ UNCHANGED <<result, before>>

\* A quiet step keeps what holds of the joiners.
LEMMA QuietJoiners ==
    ASSUME Types, JoinersOK, Quiet
    PROVE  JoinersOK'
<1> SUFFICES ASSUME NEW j \in Joiners
             PROVE  /\ \A t \in before[j] : tpc'[t] # "new"
                    /\ jpc'[j] # "returned" => result[j] = None
                    /\ jpc'[j] = "awake" /\ (j \notin Threads \/ alive') => Joined(j)'
                    /\ result[j] \in Tasks \cup {"ok"} => Joined(j)'
  BY Zenon DEF JoinersOK, Quiet
<1>1. before[j] \subseteq Tasks /\ before' = before
  BY Zenon DEF Types, Quiet
<1>2. Joined(j) => Joined(j)'
  BY <1>1, Zenon DEF Joined, JoinersOK, Quiet
<1> QED BY <1>1, <1>2, Zenon DEF JoinersOK, Quiet

\* A task that throws is not one that a completed join has waited for.
LEMMA FailuresKept ==
    ASSUME Types, JoinersOK, FailureReaches, UNCHANGED <<result, before, late>>,
           cancel => cancel', NEW t \in Tasks, Unfinished(t),
           failed' = failed \cup {t}
    PROVE  FailureReaches'
<1> SUFFICES ASSUME NEW j \in Joiners
             PROVE  /\ result[j] = "ok" => j \in late \/ before[j] \cap failed' = {}
                    /\ result[j] \in Tasks => result[j] \in failed' /\ cancel'
  BY Zenon DEF FailureReaches
<1>1. result[j] = "ok" => t \notin before[j]
  BY Zenon DEF JoinersOK, Joined
<1> QED BY <1>1, Zenon DEF FailureReaches

\* Every step of a task, request_cancel and the death of the loop.
LEMMA TaskSteps ==
    ASSUME Inv,
           \/ RequestCancel \/ LoopDies
           \/ \E t \in Tasks : TaskStep(t) \/ \E th \in Schedulers : Spawn(th, t)
    PROVE  Inv'
<1>1. CASE RequestCancel \/ LoopDies
  <2>1. /\ UNCHANGED <<active, first, tpc, failed, jpc, result, before, late>>
        /\ alive' \in BOOLEAN /\ cancel' \in BOOLEAN /\ (alive' => alive) /\ (cancel => cancel')
    <3>1. CASE RequestCancel
      BY <3>1, Zenon DEF RequestCancel, joinVars, Inv, Types
    <3>2. CASE LoopDies
      BY <3>2, Zenon DEF LoopDies, taskVars, joinVars, Inv, Types
    <3> QED BY <1>1, <3>1, <3>2, Zenon
  <2>2. Types' /\ Counted' /\ Quiet
    BY <2>1, Zenon DEF Inv, Types, Counted, Running, Unfinished, Quiet
  <2>3. FirstOK' /\ FailureReaches'
    BY <2>1, Zenon DEF Inv, FirstOK, FailureReaches
  <2> QED BY <2>2, <2>3, QuietJoiners, Zenon DEF Inv
<1>2. ASSUME NEW t \in Tasks, NEW th \in Schedulers, Spawn(th, t) PROVE Inv'
  <2>1. /\ tpc[t] = "new" /\ tpc' = [tpc EXCEPT ![t] = "ready"] /\ active' = active + 1
        /\ UNCHANGED <<alive, cancel, first, failed, jpc, result, before, late>>
    BY <1>2, Zenon DEF Spawn, joinVars
  <2>2. Types' /\ Quiet
    BY <2>1, Zenon DEF Inv, Types, Quiet, Unfinished
  <2>3. Running' = Running \cup {t} /\ t \notin Running
    BY <2>1, Zenon DEF Inv, Types, Running, Unfinished
  <2>4. Cardinality(Running \cup {t}) = Cardinality(Running) + 1
    BY <2>3, RunningFinite, FS_AddElement, Zenon
  <2>5. Counted'
    BY <2>1, <2>3, <2>4, Zenon DEF Inv, Counted
  <2>6. FirstOK' /\ FailureReaches'
    BY <2>1, Zenon DEF Inv, FirstOK, FailureReaches
  <2> QED BY <2>2, <2>5, <2>6, QuietJoiners, Zenon DEF Inv
<1>3. ASSUME NEW t \in Tasks, TaskReturn(t) PROVE Inv'
  <2>1. /\ tpc[t] = "ready" /\ tpc' = [tpc EXCEPT ![t] = "ended"]
        /\ UNCHANGED <<alive, active, cancel, first, failed, jpc, result, before, late>>
    BY <1>3, Zenon DEF TaskReturn, joinVars
  <2>2. Types' /\ Quiet /\ Running' = Running
    BY <2>1, Zenon DEF Inv, Types, Quiet, Unfinished, Running
  <2>3. Counted' /\ FirstOK' /\ FailureReaches'
    BY <2>1, <2>2, Zenon DEF Inv, Counted, FirstOK, FailureReaches
  <2> QED BY <2>2, <2>3, QuietJoiners, Zenon DEF Inv
<1>4. ASSUME NEW t \in Tasks, TaskThrow(t) PROVE Inv'
  <2>1. /\ tpc[t] = "ready" /\ tpc' = [tpc EXCEPT ![t] = "ended"] /\ cancel' = TRUE
        /\ failed' = failed \cup {t} /\ first' = IF first = None THEN t ELSE first
        /\ UNCHANGED <<alive, active, jpc, result, before, late>>
    BY <1>4, Zenon DEF TaskThrow, joinVars
  <2>2. Types' /\ Quiet /\ Running' = Running
    BY <2>1, Zenon DEF Inv, Types, Quiet, Unfinished, Running
  <2>3. Counted'
    BY <2>1, <2>2, Zenon DEF Inv, Counted
  <2>4. FirstOK'
    BY <2>1, DisjointAssumption, Zenon DEF Inv, FirstOK
  <2>5. FailureReaches'
    BY <2>1, FailuresKept, Zenon DEF Inv, Unfinished
  <2> QED BY <2>2, <2>3, <2>4, <2>5, QuietJoiners, Zenon DEF Inv
<1>5. ASSUME NEW t \in Tasks, TaskSub(t) PROVE Inv'
  <2>1. /\ tpc[t] = "ended" /\ active' = active - 1
        /\ tpc' = [tpc EXCEPT ![t] = IF active = 1 THEN "notify_cv" ELSE "done"]
        /\ UNCHANGED <<alive, cancel, first, failed, jpc, result, before, late>>
    BY <1>5, Zenon DEF TaskSub, joinVars
  <2>2. Types' /\ Quiet
    BY <2>1, Zenon DEF Inv, Types, Quiet, Unfinished
  <2>3. Running' = Running \ {t} /\ t \in Running
    BY <2>1, Zenon DEF Inv, Types, Running, Unfinished
  <2>4. Cardinality(Running \ {t}) = Cardinality(Running) - 1
    BY <2>3, RunningFinite, FS_RemoveElement, SMTT(30)
  <2>5. Counted'
    BY <2>1, <2>3, <2>4, Zenon DEF Inv, Counted
  <2>6. FirstOK' /\ FailureReaches'
    BY <2>1, Zenon DEF Inv, FirstOK, FailureReaches
  <2> QED BY <2>2, <2>5, <2>6, QuietJoiners, Zenon DEF Inv
<1>6. ASSUME NEW t \in Tasks, TaskNotifyCv(t) \/ TaskNotifyStd(t) PROVE Inv'
  <2>1. PICK p \in {"notify_std", "done"}, J \in {LoopJoiners, Threads} :
           /\ tpc[t] \in {"notify_cv", "notify_std"} /\ tpc' = [tpc EXCEPT ![t] = p] /\ Notify(J)
           /\ UNCHANGED <<alive, active, cancel, first, failed>>
    BY <1>6, Zenon DEF TaskNotifyCv, TaskNotifyStd
  <2>2. Types' /\ Quiet /\ Running' = Running
    BY <2>1, Zenon DEF Inv, Types, Quiet, Unfinished, Running, Notify
  <2>3. Counted' /\ FirstOK' /\ FailureReaches'
    BY <2>1, <2>2, Zenon DEF Inv, Counted, FirstOK, FailureReaches, Notify
  <2> QED BY <2>2, <2>3, QuietJoiners, Zenon DEF Inv
<1> QED BY <1>1, <1>2, <1>3, <1>4, <1>5, <1>6, Zenon DEF TaskStep

-----------------------------------------------------------------------------
(* Steps of joiners *)

\* A step of one joiner: it is enough to look at that one.
LEMMA OneJoiner ==
    ASSUME Inv, NEW j \in Joiners, UNCHANGED <<alive, taskVars>>,
           NEW p \in {"locked", "parking", "parked", "awake", "returned"},
           NEW r \in Results, NEW b \in SUBSET Tasks, late \subseteq late',
           jpc' = [jpc EXCEPT ![j] = p], result' = [result EXCEPT ![j] = r],
           before' = [before EXCEPT ![j] = b],
           \A t \in b : tpc[t] # "new",
           p # "returned" => r = None,
           p = "awake" /\ (j \notin Threads \/ alive) => \A t \in b : ~Unfinished(t),
           r \in Tasks \cup {"ok"} => \A t \in b : ~Unfinished(t),
           r = "ok" => j \in late' \/ failed = {},
           r \in Tasks => r = first
    PROVE  Inv'
<1>0. UNCHANGED <<active, cancel, first, failed, tpc>>
  BY Zenon DEF taskVars
<1>1. Types' /\ Counted' /\ FirstOK'
  BY <1>0, Zenon DEF Inv, Types, Counted, Running, Unfinished, FirstOK
<1>2. \A i \in Joiners \ {j} : jpc'[i] = jpc[i] /\ result'[i] = result[i] /\ before'[i] = before[i]
  BY Zenon DEF Inv, Types
<1>3. jpc'[j] = p /\ result'[j] = r /\ before'[j] = b
  BY Zenon DEF Inv, Types
<1>4. JoinersOK'
  <2> SUFFICES ASSUME NEW i \in Joiners
               PROVE  /\ \A t \in before'[i] : tpc[t] # "new"
                      /\ jpc'[i] # "returned" => result'[i] = None
                      /\ jpc'[i] = "awake" /\ (i \notin Threads \/ alive) =>
                            \A t \in before'[i] : ~Unfinished(t)
                      /\ result'[i] \in Tasks \cup {"ok"} => \A t \in before'[i] : ~Unfinished(t)
    BY <1>0, Zenon DEF JoinersOK, Joined, Unfinished
  <2>1. CASE i = j
    BY <1>3, <2>1, Zenon
  <2>2. CASE i # j
    BY <1>2, <2>2, Zenon DEF Inv, JoinersOK, Joined
  <2> QED BY <2>1, <2>2, Zenon
<1>5. FailureReaches'
  <2> SUFFICES ASSUME NEW i \in Joiners
               PROVE  /\ result'[i] = "ok" => i \in late' \/ before'[i] \cap failed = {}
                      /\ result'[i] \in Tasks => result'[i] \in failed /\ cancel
    BY <1>0, Zenon DEF FailureReaches
  <2>1. CASE i = j
    BY <1>3, <2>1, DisjointAssumption, Zenon DEF Inv, FirstOK
  <2>2. CASE i # j
    BY <1>2, <2>2, Zenon DEF Inv, FailureReaches
  <2> QED BY <2>1, <2>2, Zenon
<1> QED BY <1>1, <1>4, <1>5, Zenon DEF Inv

\* Every step of a join.
LEMMA JoinSteps ==
    ASSUME Inv, NEW j \in Joiners,
           JoinBegin(j) \/ JoinStep(j) \/ JoinSpurious(j) \/ JoinTimeout(j)
    PROVE  Inv'
<1>0. /\ UNCHANGED <<alive, taskVars>> /\ jpc[j] # "returned"
      /\ result[j] \in Results /\ before[j] \in SUBSET Tasks
      /\ \A t \in before[j] : tpc[t] # "new"
      /\ result = [result EXCEPT ![j] = result[j]] /\ before = [before EXCEPT ![j] = before[j]]
  <2>1. UNCHANGED <<alive, taskVars>> /\ jpc[j] # "returned"
    BY Zenon DEF JoinBegin, JoinStep, JoinTest, JoinPark, JoinEnd, JoinSpurious, JoinTimeout
  <2> QED BY <2>1, Zenon DEF Inv, Types, JoinersOK
<1>1. result[j] = None
  BY <1>0, Zenon DEF Inv, JoinersOK
<1>2. None \notin Tasks \cup {"ok"} /\ {"dead", "timeout"} \cap (Tasks \cup {"ok"}) = {}
      /\ "ok" \notin Tasks
  BY DisjointAssumption, ResultsAssumption, Zenon
<1>3. active = 0 => \A t \in Tasks : ~Unfinished(t)
  BY NoneRunning, Zenon DEF Inv
<1>4. ASSUME NEW r \in {"dead", "timeout"}, JoinReturn(j, r) PROVE Inv'
  BY <1>0, <1>2, <1>4, OneJoiner, Zenon DEF JoinReturn, Results
<1>5. ASSUME NEW p \in {"locked", "parking", "parked"}, jpc' = [jpc EXCEPT ![j] = p],
             UNCHANGED <<result, before, late>>
      PROVE  Inv'
  BY <1>0, <1>1, <1>2, <1>5, OneJoiner, Zenon
<1>6. ASSUME Satisfied(j), jpc' = [jpc EXCEPT ![j] = "awake"], UNCHANGED <<result, before, late>>
      PROVE  Inv'
  <2>1. (j \notin Threads \/ alive) => \A t \in before[j] : ~Unfinished(t)
    BY <1>0, <1>3, <1>6, Zenon DEF Satisfied
  <2> QED BY <1>0, <1>1, <1>2, <1>6, <2>1, OneJoiner, ZenonT(30)
<1>7. CASE JoinBegin(j)
  <2>1. PICK b \in SUBSET Tasks : b = {t \in Tasks : tpc[t] # "new"}
    BY Zenon
  <2>2. before' = [before EXCEPT ![j] = b] /\ \A t \in b : tpc[t] # "new"
    BY <1>7, <2>1, Zenon DEF JoinBegin
  <2>3. CASE ~alive
    <3>1. PICK r : r = IF j \in timed' /\ active = 0 THEN "ok" ELSE "dead"
      BY Zenon
    <3>2. /\ jpc' = [jpc EXCEPT ![j] = "returned"] /\ result' = [result EXCEPT ![j] = r]
          /\ late' = late \cup {j}
      BY <1>7, <2>3, <3>1, Zenon DEF JoinBegin
    <3>3. r \in Results /\ r \notin Tasks /\ (r = "ok" => \A t \in b : ~Unfinished(t))
      BY <1>2, <1>3, <3>1, Zenon DEF Results
    <3>4. r \in Tasks \cup {"ok"} => \A t \in b : ~Unfinished(t)
      BY <3>3, Zenon
    <3>5. PICK p : p = "returned"
      BY Zenon
    <3>6. jpc' = [jpc EXCEPT ![j] = p] /\ p \in {"locked", "parking", "parked", "awake", "returned"}
          /\ p # "awake" /\ (p # "returned" => r = None)
      BY <3>2, <3>5, Zenon
    <3>7. j \in late'
      BY <3>2, Zenon
    <3> QED BY <1>0, <2>2, <3>2, <3>3, <3>4, <3>6, <3>7, OneJoiner, ZenonT(30)
  <2>4. CASE alive
    <3>1. jpc' = [jpc EXCEPT ![j] = "locked"] /\ UNCHANGED <<result, late>>
      BY <1>7, <2>4, Zenon DEF JoinBegin
    <3>2. result' = [result EXCEPT ![j] = None] /\ None \in Results
      BY <1>0, <1>1, <3>1, Zenon DEF Results
    <3>3. PICK p, r : p = "locked" /\ r = None
      BY Zenon
    <3>4. /\ jpc' = [jpc EXCEPT ![j] = p] /\ p \in {"locked", "parking", "parked", "awake", "returned"}
          /\ p # "awake" /\ (p # "returned" => r = None)
      BY <3>1, <3>3, Zenon
    <3>5. /\ result' = [result EXCEPT ![j] = r] /\ r \in Results
          /\ r \notin Tasks /\ r # "ok" /\ r \notin Tasks \cup {"ok"}
      BY <1>2, <3>2, <3>3, Zenon
    <3>6. late \subseteq late'
      BY <3>1, Zenon
    <3> QED BY <1>0, <2>2, <3>4, <3>5, <3>6, OneJoiner, ZenonT(30)
  <2> QED BY <2>3, <2>4, Zenon
<1>8. CASE JoinTest(j)
  <2>1. CASE Satisfied(j)
    BY <1>6, <1>8, <2>1, Zenon DEF JoinTest
  <2>2. CASE ~Satisfied(j)
    BY <1>5, <1>8, <2>2, Zenon DEF JoinTest
  <2> QED BY <2>1, <2>2, Zenon
<1>9. CASE JoinPark(j) \/ JoinSpurious(j)
  BY <1>5, <1>9, Zenon DEF JoinPark, JoinSpurious
<1>10. CASE JoinTimeout(j)
  BY <1>4, <1>6, <1>10, Zenon DEF JoinTimeout
<1>11. CASE JoinEnd(j)
  <2>1. CASE j \in Threads /\ ~alive /\ active > 0
    BY <1>4, <1>11, <2>1, Zenon DEF JoinEnd
  <2>2. CASE ~(j \in Threads /\ ~alive /\ active > 0)
    <3>1. PICK r : r = IF first # None THEN first ELSE "ok"
      BY Zenon
    <3>2. JoinReturn(j, r) /\ jpc[j] = "awake"
      BY <1>11, <2>2, <3>1, Zenon DEF JoinEnd
    <3>3. active \in Nat
      BY RunningFinite, Zenon DEF Inv, Counted
    <3>4. \A t \in before[j] : ~Unfinished(t)
      <4>1. CASE j \notin Threads \/ alive
        BY <3>2, <4>1, Zenon DEF Inv, JoinersOK, Joined
      <4>2. CASE active = 0
        BY <1>0, <1>3, <4>2, Zenon
      <4> QED BY <2>2, <3>3, <4>1, <4>2
    <3>5. r \in Results /\ (r = "ok" => failed = {}) /\ (r \in Tasks => r = first)
      BY <1>2, <3>1, Zenon DEF Inv, Types, FirstOK, Results
    <3> QED BY <1>0, <3>2, <3>4, <3>5, OneJoiner, Zenon DEF JoinReturn
  <2> QED BY <2>1, <2>2, Zenon
<1> QED BY <1>7, <1>8, <1>9, <1>10, <1>11, Zenon DEF JoinStep

-----------------------------------------------------------------------------
(* The theorems *)

\* The invariant is inductive.
LEMMA InvHolds == Spec => []Inv
<1>1. Init => Inv
  <2> SUFFICES ASSUME Init PROVE Inv
    BY Zenon
  <2>1. Types
    BY Zenon DEF Init, Types, Results
  <2>2. Running = {} /\ active = 0
    BY Zenon DEF Init, Running, Unfinished
  <2>3. Counted
    BY <2>2, FS_EmptySet, Zenon DEF Counted
  <2>4. JoinersOK /\ FirstOK /\ FailureReaches
    BY DisjointAssumption, ResultsAssumption, Zenon DEF Init, JoinersOK, Joined, FirstOK, FailureReaches
  <2> QED BY <2>1, <2>3, <2>4, Zenon DEF Inv
<1>2. Inv /\ [Next]_vars => Inv'
  <2> SUFFICES ASSUME Inv, [Next]_vars PROVE Inv'
    BY Zenon
  <2>1. CASE UNCHANGED vars
    BY <2>1, Zenon DEF vars, taskVars, joinVars, Inv, Types, Counted, Running, Unfinished, JoinersOK,
                Joined, FirstOK, FailureReaches
  <2> QED BY <2>1, TaskSteps, JoinSteps, Zenon DEF Next
<1> QED BY <1>1, <1>2, PTL DEF Spec

\* For any finite set of tasks, on any threads: join(), join_for() and ~TaskScope
\* return a completed result only when every task spawned before them has ended, and
\* so does a join_for() that returns true after the loop is gone.
THEOREM JoinIsComplete == Spec => []JoinWaitsForAll
<1>1. Inv => JoinWaitsForAll
  BY Zenon DEF Inv, JoinersOK, Joined, JoinWaitsForAll
<1> QED BY <1>1, InvHolds, PTL

\* ... and a join that was called while the loop lived and completes rethrows when one
\* of those tasks threw, even when the loop dies under it.
THEOREM NoFailureIsLost == Spec => []FailureReaches
<1>1. Inv => FailureReaches
  BY Zenon DEF Inv
<1> QED BY <1>1, InvHolds, PTL
=============================================================================
