---------------------------- MODULE MessageQueue ----------------------------
(***************************************************************************)
(* fiberuv::MessageQueue<T> (include/fiberuv/fiberuv.hpp): an unbounded    *)
(* FIFO shared by fibers and threads.  Every call runs its critical        *)
(* section under mutex_ and finishes outside it, so a call is modelled by  *)
(* one atomic step per critical section and one per step taken unlocked.   *)
(*                                                                         *)
(* A message is identified with the send()/emplace() call that carries it  *)
(* and a receive call with the promise it waits on; each call happens at   *)
(* most once, so two calls in sequence and two calls in parallel are both  *)
(* behaviours of the model.                                                *)
(***************************************************************************)
EXTENDS Waiters, FiniteSets

CONSTANTS
    Messages,       \* send() and emplace() calls
    FiberCalls,     \* recv() and recv_for() calls
    ThreadCalls,    \* recv_blocking() and recv_blocking_for() calls
    Timed,          \* the receive calls that are the _for variant
    NullOpt,        \* std::nullopt
    Unset           \* no value yet: an unset promise, a call still running

Calls == FiberCalls \cup ThreadCalls

ASSUME CallsAssumption ==
    /\ FiberCalls \cap ThreadCalls = {}
    /\ Timed \subseteq Calls
    /\ IsFiniteSet(ThreadCalls)

ASSUME ValuesAssumption ==
    /\ NullOpt \notin Messages
    /\ Unset \notin Messages \cup Calls
    /\ NullOpt # Unset

VARIABLES
    queue,      \* queue_
    closed,     \* closed_
    waiters,    \* fiber_waiters_: the recv calls whose promise is listed
    notifying,  \* close() has set closed_ and still has to notify recv_cv_
    closing,    \* waiters close() took over and still has to set to nullopt
    spc,        \* where each send call is
    target,     \* the call whose promise a send popped from fiber_waiters_
    rpc,        \* where each receive call is
    promise,    \* the value of each receive call's promise
    result,     \* what each receive call returned
    sent,       \* history: messages for which send returns true, in lock order
    taken       \* history: messages given to a receive call, in lock order

queueVars == <<queue, sent, taken>>
closeVars == <<closed, notifying, closing>>
sendVars  == <<spc, target>>
recvVars  == <<rpc, promise, result>>
vars == <<queueVars, waiters, closeVars, sendVars, recvVars>>

SendStates == {"new", "handoff", "accepted", "rejected"}
\* asleep: in recv_cv_'s wait set; awake: called or woken, about to take the
\* lock and test the predicate; expired: a timeout has fired, the lock is not
\* yet retaken; late: recv_for found its waiter gone and is about to poll the
\* future a last time.
RecvStates == {"new", "waiting", "asleep", "awake", "expired", "late", "returned"}

Init ==
    /\ queue = <<>> /\ sent = <<>> /\ taken = <<>>
    /\ waiters = <<>>
    /\ closed = FALSE /\ notifying = FALSE /\ closing = <<>>
    /\ spc = [m \in Messages |-> "new"]
    /\ target = [m \in Messages |-> Unset]
    /\ rpc = [c \in Calls |-> "new"]
    /\ promise = [c \in Calls |-> Unset]
    /\ result = [c \in Calls |-> Unset]

-----------------------------------------------------------------------------
(* send, emplace, send_impl, send_payload *)

Asleep == {c \in ThreadCalls : rpc[c] = "asleep"}

\* Faulty: the push does not signal recv_cv_.
NotifyNobody == rpc' = rpc

\* recv_cv_.notify_one()
NotifyOne ==
    IF Asleep = {}
    THEN rpc' = rpc
    ELSE \E c \in Asleep : rpc' = [rpc EXCEPT ![c] = "awake"]

SendClosed(m) ==
    /\ spc[m] = "new" /\ closed
    /\ spc' = [spc EXCEPT ![m] = "rejected"]
    /\ UNCHANGED <<queueVars, waiters, closeVars, target, recvVars>>

SendToWaiter(m) ==
    /\ spc[m] = "new" /\ ~closed /\ waiters # <<>>
    /\ spc' = [spc EXCEPT ![m] = "handoff"]
    /\ target' = [target EXCEPT ![m] = Head(waiters)]
    /\ waiters' = Tail(waiters)
    /\ sent' = Append(sent, m)
    /\ taken' = Append(taken, m)
    /\ UNCHANGED <<queue, closeVars, recvVars>>

SendToQueue(m) ==
    /\ spc[m] = "new" /\ ~closed /\ waiters = <<>>
    /\ spc' = [spc EXCEPT ![m] = "accepted"]
    /\ queue' = Append(queue, m)
    /\ sent' = Append(sent, m)
    /\ NotifyOne
    /\ UNCHANGED <<taken, waiters, closeVars, target, promise, result>>

Send(m) == SendClosed(m) \/ SendToWaiter(m) \/ SendToQueue(m)

\* waiter->set_value(payload), after the lock is released
SetValue(m) ==
    /\ spc[m] = "handoff"
    /\ spc' = [spc EXCEPT ![m] = "accepted"]
    /\ promise' = [promise EXCEPT ![target[m]] = m]
    /\ UNCHANGED <<queueVars, waiters, closeVars, target, rpc, result>>

-----------------------------------------------------------------------------
(* recv, recv_for, try_recv *)

Return(c, v) ==
    /\ rpc' = [rpc EXCEPT ![c] = "returned"]
    /\ result' = [result EXCEPT ![c] = v]
    /\ UNCHANGED promise

\* Faulty: the message is copied out and stays at the front.
PeekFront(c) ==
    /\ queue # <<>>
    /\ taken' = Append(taken, Head(queue))
    /\ Return(c, Head(queue))
    /\ UNCHANGED queue

\* pop_front_unlocked(), returned by the caller
PopFront(c) ==
    /\ queue # <<>>
    /\ queue' = Tail(queue)
    /\ taken' = Append(taken, Head(queue))
    /\ Return(c, Head(queue))

\* Faulty: the waiter is listed without looking at the queue first.
EnlistAlways(c) ==
    /\ ~closed
    /\ waiters' = Append(waiters, c)
    /\ rpc' = [rpc EXCEPT ![c] = "waiting"]
    /\ UNCHANGED <<queue, taken, promise, result>>

Enlist(c) ==
    /\ queue = <<>> /\ ~closed
    /\ waiters' = Append(waiters, c)
    /\ rpc' = [rpc EXCEPT ![c] = "waiting"]
    /\ UNCHANGED <<queue, taken, promise, result>>

\* The first critical section of recv() and recv_for()
Recv(c) ==
    /\ c \in FiberCalls /\ rpc[c] = "new"
    /\ \/ PopFront(c) /\ UNCHANGED waiters
       \/ /\ queue = <<>> /\ closed
          /\ Return(c, NullOpt)
          /\ UNCHANGED <<queue, taken, waiters>>
       \/ Enlist(c)
    /\ UNCHANGED <<sent, closeVars, sendVars>>

\* future.get(), or future.wait_for(ms) finding the promise set
RecvGet(c) ==
    /\ rpc[c] = "waiting" /\ promise[c] # Unset
    /\ Return(c, promise[c])
    /\ UNCHANGED <<queueVars, waiters, closeVars, sendVars>>

\* future.wait_for(ms) reports a timeout
RecvTimeout(c) ==
    /\ c \in Timed /\ rpc[c] = "waiting" /\ promise[c] = Unset
    /\ rpc' = [rpc EXCEPT ![c] = "expired"]
    /\ UNCHANGED <<queueVars, waiters, closeVars, sendVars, promise, result>>

\* Faulty: the timed-out call returns and leaves its promise listed.
RecvExpireUnlisted(c) ==
    /\ c \in FiberCalls /\ rpc[c] = "expired"
    /\ IF c \in Range(waiters)
       THEN Return(c, NullOpt)
       ELSE rpc' = [rpc EXCEPT ![c] = "late"] /\ UNCHANGED <<promise, result>>
    /\ UNCHANGED <<queueVars, waiters, closeVars, sendVars>>

\* The second critical section of recv_for(): find and erase the own waiter
RecvExpire(c) ==
    /\ c \in FiberCalls /\ rpc[c] = "expired"
    /\ \/ \E i \in DOMAIN waiters :
             /\ waiters[i] = c
             /\ waiters' = Erase(waiters, i)
             /\ Return(c, NullOpt)
       \/ /\ c \notin Range(waiters)
          /\ rpc' = [rpc EXCEPT ![c] = "late"]
          /\ UNCHANGED <<waiters, promise, result>>
    /\ UNCHANGED <<queueVars, closeVars, sendVars>>

\* Faulty: the future is read without polling it first.
RecvLateUnchecked(c) ==
    /\ rpc[c] = "late"
    /\ Return(c, promise[c])
    /\ UNCHANGED <<queueVars, waiters, closeVars, sendVars>>

\* future.wait_for(0) and the two returns after it
RecvLate(c) ==
    /\ rpc[c] = "late"
    /\ Return(c, IF promise[c] = Unset THEN NullOpt ELSE promise[c])
    /\ UNCHANGED <<queueVars, waiters, closeVars, sendVars>>

TryRecv(c) ==
    /\ rpc[c] = "new"
    /\ \/ PopFront(c)
       \/ queue = <<>> /\ Return(c, NullOpt) /\ UNCHANGED <<queue, taken>>
    /\ UNCHANGED <<sent, waiters, closeVars, sendVars>>

-----------------------------------------------------------------------------
(* recv_blocking, recv_blocking_for *)

\* The lock is taken and the predicate closed_ || !queue_.empty() tested.
RecvBlocking(c) ==
    /\ c \in ThreadCalls /\ rpc[c] \in {"new", "awake"}
    /\ \/ PopFront(c)
       \/ /\ queue = <<>> /\ closed
          /\ Return(c, NullOpt)
          /\ UNCHANGED <<queue, taken>>
       \/ /\ queue = <<>> /\ ~closed
          /\ rpc' = [rpc EXCEPT ![c] = "asleep"]
          /\ UNCHANGED <<queue, taken, promise, result>>
    /\ UNCHANGED <<sent, waiters, closeVars, sendVars>>

\* A wakeup nobody signalled, which std::condition_variable permits
SpuriousWakeup(c) ==
    /\ c \in Asleep
    /\ rpc' = [rpc EXCEPT ![c] = "awake"]
    /\ UNCHANGED <<queueVars, waiters, closeVars, sendVars, promise, result>>

\* recv_cv_.wait_for reaches its deadline
BlockingTimeout(c) ==
    /\ c \in Timed /\ c \in Asleep
    /\ rpc' = [rpc EXCEPT ![c] = "expired"]
    /\ UNCHANGED <<queueVars, waiters, closeVars, sendVars, promise, result>>

BlockingExpire(c) ==
    /\ c \in ThreadCalls /\ rpc[c] = "expired"
    /\ \/ PopFront(c)
       \/ queue = <<>> /\ Return(c, NullOpt) /\ UNCHANGED <<queue, taken>>
    /\ UNCHANGED <<sent, waiters, closeVars, sendVars>>

-----------------------------------------------------------------------------
(* close, ~MessageQueue.  A second close() returns at once: a stutter. *)

\* Faulty: closing throws the queued messages away.
CloseDiscarding ==
    /\ ~closed
    /\ closed' = TRUE /\ notifying' = TRUE
    /\ closing' = waiters /\ waiters' = <<>>
    /\ queue' = <<>>
    /\ UNCHANGED <<sent, taken, sendVars, recvVars>>

Close ==
    /\ ~closed
    /\ closed' = TRUE /\ notifying' = TRUE
    /\ closing' = waiters /\ waiters' = <<>>
    /\ UNCHANGED <<queueVars, sendVars, recvVars>>

\* Faulty: only one sleeping thread is told.
CloseNotifyOne ==
    /\ notifying /\ notifying' = FALSE
    /\ NotifyOne
    /\ UNCHANGED <<queueVars, waiters, closed, closing, sendVars, promise, result>>

CloseNotify ==
    /\ notifying /\ notifying' = FALSE
    /\ rpc' = [c \in Calls |-> IF c \in Asleep THEN "awake" ELSE rpc[c]]
    /\ UNCHANGED <<queueVars, waiters, closed, closing, sendVars, promise, result>>

CloseResolve ==
    /\ ~notifying /\ closing # <<>>
    /\ promise' = [promise EXCEPT ![Head(closing)] = NullOpt]
    /\ closing' = Tail(closing)
    /\ UNCHANGED <<queueVars, waiters, closed, notifying, sendVars, rpc, result>>

-----------------------------------------------------------------------------

\* The steps of a call that has started and is not waiting for anybody
Proceed(c) ==
    \/ RecvGet(c) \/ RecvExpire(c) \/ RecvLate(c)
    \/ BlockingExpire(c)
    \/ rpc[c] = "awake" /\ RecvBlocking(c)

Timeout(c) == RecvTimeout(c) \/ BlockingTimeout(c)

Next ==
    \/ \E m \in Messages : Send(m) \/ SetValue(m)
    \/ \E c \in Calls :
          \/ Recv(c) \/ RecvGet(c) \/ RecvExpire(c) \/ RecvLate(c) \/ TryRecv(c)
          \/ RecvBlocking(c) \/ BlockingExpire(c) \/ SpuriousWakeup(c)
          \/ Timeout(c)
    \/ Close \/ CloseNotify \/ CloseResolve

\* Calls that have started run to their next wait, and clocks advance.  A
\* deadline is absolute, so a spurious wakeup does not postpone it for ever:
\* strong fairness for the timeouts.
Fairness ==
    /\ \A m \in Messages : WF_vars(SetValue(m))
    /\ \A c \in Calls : WF_vars(Proceed(c)) /\ SF_vars(Timeout(c))
    /\ WF_vars(CloseNotify) /\ WF_vars(CloseResolve)

Spec == Init /\ [][Next]_vars /\ Fairness

-----------------------------------------------------------------------------
(* Properties *)

\* Every variable of the queue keeps its type: promises and results hold
\* messages or nullopt, only fiber calls are listed as waiters, and a call has
\* a result exactly when it has returned.
TypeOK ==
    /\ queue \in Seq(Messages) /\ sent \in Seq(Messages) /\ taken \in Seq(Messages)
    /\ waiters \in Seq(FiberCalls) /\ closing \in Seq(FiberCalls)
    /\ closed \in BOOLEAN /\ notifying \in BOOLEAN
    /\ spc \in [Messages -> SendStates]
    /\ target \in [Messages -> FiberCalls \cup {Unset}]
    /\ rpc \in [Calls -> RecvStates]
    /\ promise \in [Calls -> Messages \cup {NullOpt, Unset}]
    /\ result \in [Calls -> Messages \cup {NullOpt, Unset}]
    /\ \A c \in Calls : rpc[c] = "returned" <=> result[c] # Unset

\* The queue is FIFO across its two paths: messages are given out, popped from
\* queue_ or handed to a popped waiter, in exactly the order in which send
\* accepted them.
FifoOrder == sent = taken \o queue

\* A listed waiter is a call that is still waiting and has nothing coming: no
\* send holds its promise, it is listed once, and neither a queued message nor
\* closed_ was overlooked when it was listed.
WaitersSound ==
    /\ waiters # <<>> => queue = <<>> /\ ~closed
    /\ \A i \in DOMAIN waiters :
          /\ rpc[waiters[i]] \in {"waiting", "expired"}
          /\ promise[waiters[i]] = Unset
          /\ \A j \in DOMAIN waiters : waiters[i] = waiters[j] => i = j
          /\ \A m \in Messages : spc[m] = "handoff" => target[m] # waiters[i]

\* No message is returned by two receive calls.
DeliveredOnce ==
    \A c, d \in Calls : result[c] = result[d] /\ result[c] \in Messages => c = d

\* A send has returned true and the message can still reach, or has reached, a
\* receive call.
Reachable(m) ==
    \/ m \in Range(queue)
    \/ \E c \in Calls : result[c] = m
    \/ \E c \in FiberCalls : promise[c] = m /\ rpc[c] # "returned"

\* A message that send accepted is lost only in one way: it was handed to a
\* recv_for call that timed out and returned nullopt before set_value ran.
LostOnlyToTimeout ==
    \A m \in Messages : spc[m] = "accepted" =>
        \/ Reachable(m)
        \/ target[m] \in Timed /\ result[target[m]] = NullOpt

\* "A cross-thread message queue for fiber/thread send and receive": a message
\* for which send returned true is queued, on its way or received.
AcceptedIsReachable == \A m \in Messages : spc[m] = "accepted" => Reachable(m)

\* recv_cv_ loses no signal: while a thread sleeps, every queued message has a
\* thread of its own that is awake and about to take the lock.
NoLostSignal ==
    Asleep # {} =>
        Len(queue) <= Cardinality({c \in ThreadCalls : rpc[c] = "awake"})

\* A receive call returns once the queue is closed, and a _for call returns
\* whatever the senders do.
ReceiveReturns ==
    \A c \in Calls :
        (rpc[c] # "new" /\ (closed \/ c \in Timed)) ~> rpc[c] = "returned"

=============================================================================
