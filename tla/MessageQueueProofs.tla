------------------------ MODULE MessageQueueProofs --------------------------
(***************************************************************************)
(* Proofs about MessageQueue for any number of messages and calls.         *)
(***************************************************************************)
EXTENDS MessageQueue, FiniteSetTheorems, TLAPS

-----------------------------------------------------------------------------
\* Lists of waiters

\* Erasing position i of a list, of fiber_waiters_ for one, shifts what is behind it.
LEMMA EraseProperties ==
    ASSUME NEW S, NEW s \in Seq(S), NEW i \in 1 .. Len(s)
    PROVE  /\ Erase(s, i) \in Seq(S)
           /\ Len(Erase(s, i)) = Len(s) - 1
           /\ \A k \in 1 .. Len(s) - 1 : Erase(s, i)[k] = IF k < i THEN s[k] ELSE s[k + 1]
<1> DEFINE t == [k \in 1 .. Len(s) - 1 |-> IF k < i THEN s[k] ELSE s[k + 1]]
<1>1. Len(s) - 1 \in Nat /\ \A k \in 1 .. Len(s) - 1 : s[k] \in S /\ s[k + 1] \in S
  OBVIOUS
<1>2. t \in [1 .. Len(s) - 1 -> S]
  BY <1>1, Zenon
<1>3. t \in Seq(S) /\ Len(t) = Len(s) - 1
  BY <1>1, <1>2
<1> QED BY <1>3, Zenon DEF Erase

\* What a list without duplicates holds, and that it has none, after one more
\* element is appended.
LEMMA AppendSet ==
    ASSUME NEW S, NEW s \in Seq(S), NEW e \in S
    PROVE  /\ Range(Append(s, e)) = Range(s) \cup {e}
           /\ IsInjective(s) /\ e \notin Range(s) => IsInjective(Append(s, e))
<1> DEFINE t == Append(s, e)
<1>1. /\ DOMAIN t = 1 .. Len(s) + 1 /\ DOMAIN s = 1 .. Len(s) /\ Len(s) \in Nat
      /\ t[Len(s) + 1] = e /\ \A i \in 1 .. Len(s) : t[i] = s[i]
  OBVIOUS
<1> HIDE DEF t
<1>2. Range(t) = Range(s) \cup {e}
  BY <1>1, SMTT(30) DEF Range
<1>3. IsInjective(s) /\ e \notin Range(s) => IsInjective(t)
  BY <1>1, SMTT(30) DEF Range, IsInjective
<1> QED
  BY <1>2, <1>3, Zenon DEF t

\* The same after its head is taken away.
LEMMA TailSet ==
    ASSUME NEW S, NEW s \in Seq(S), s # <<>>, IsInjective(s)
    PROVE  /\ Head(s) \in S /\ Head(s) \in Range(s)
           /\ Range(Tail(s)) = Range(s) \ {Head(s)}
           /\ IsInjective(Tail(s))
<1> DEFINE t == Tail(s)
<1>1. /\ DOMAIN t = 1 .. Len(s) - 1 /\ DOMAIN s = 1 .. Len(s) /\ Len(s) \in Nat \ {0}
      /\ Head(s) = s[1] /\ \A i \in 1 .. Len(s) - 1 : t[i] = s[i + 1]
      /\ Head(s) \in S
  OBVIOUS
<1> HIDE DEF t
<1>2. Head(s) \in Range(s)
  BY <1>1 DEF Range
<1>3. Range(t) = Range(s) \ {Head(s)}
  <2>1. ASSUME NEW x \in Range(t) PROVE x \in Range(s) \ {Head(s)}
    <3>1. PICK i \in 1 .. Len(s) - 1 : x = t[i]
      BY <1>1, <2>1, Zenon DEF Range
    <3>2. i + 1 \in DOMAIN s /\ x = s[i + 1] /\ 1 \in DOMAIN s /\ i + 1 # 1
      BY <1>1, <3>1
    <3> QED
      BY <1>1, <3>2, Zenon DEF Range, IsInjective
  <2>2. ASSUME NEW x \in Range(s), x # Head(s) PROVE x \in Range(t)
    <3>1. PICK i \in 1 .. Len(s) : x = s[i]
      BY <1>1, <2>2, Zenon DEF Range
    <3>2. i - 1 \in DOMAIN t /\ t[i - 1] = s[(i - 1) + 1] /\ (i - 1) + 1 = i
      BY <1>1, <2>2, <3>1
    <3> QED
      BY <3>1, <3>2, Zenon DEF Range
  <2> QED
    BY <2>1, <2>2, Zenon
<1>4. IsInjective(t)
  <2> SUFFICES ASSUME NEW i \in DOMAIN t, NEW j \in DOMAIN t, t[i] = t[j] PROVE i = j
    BY Zenon DEF IsInjective
  <2>1. i + 1 \in DOMAIN s /\ j + 1 \in DOMAIN s /\ s[i + 1] = s[j + 1]
    BY <1>1
  <2>2. i + 1 = j + 1
    BY <2>1, Zenon DEF IsInjective
  <2> QED
    BY <1>1, <2>2
<1> QED
  BY <1>1, <1>2, <1>3, <1>4, Zenon DEF t

\* The same after position i is erased.
LEMMA EraseSet ==
    ASSUME NEW S, NEW s \in Seq(S), NEW i \in 1 .. Len(s), IsInjective(s)
    PROVE  /\ Range(Erase(s, i)) = Range(s) \ {s[i]}
           /\ IsInjective(Erase(s, i))
<1> DEFINE t == Erase(s, i)
<1>1. /\ t \in Seq(S) /\ Len(t) = Len(s) - 1
      /\ \A k \in 1 .. Len(s) - 1 : t[k] = IF k < i THEN s[k] ELSE s[k + 1]
  BY EraseProperties, Zenon
<1> HIDE DEF t
<1>2. DOMAIN t = 1 .. Len(s) - 1 /\ DOMAIN s = 1 .. Len(s) /\ Len(s) \in Nat \ {0}
  BY <1>1
<1> DEFINE At(k) == IF k < i THEN k ELSE k + 1
<1>3. \A k \in DOMAIN t : At(k) \in DOMAIN s /\ At(k) # i /\ t[k] = s[At(k)]
  BY <1>1, <1>2, SMTT(30)
<1>4. \A k \in DOMAIN s \ {i} : \E l \in DOMAIN t : At(l) = k
  <2> SUFFICES ASSUME NEW k \in DOMAIN s \ {i} PROVE \E l \in DOMAIN t : At(l) = k
    BY Zenon
  <2>1. CASE k < i
    BY <1>2, <2>1
  <2>2. CASE ~(k < i)
    <3>1. k - 1 \in DOMAIN t /\ At(k - 1) = k
      BY <1>2, <2>2
    <3> QED
      BY <3>1, Zenon
  <2> QED
    BY <2>1, <2>2, Zenon
<1>5. \A k, l \in DOMAIN t : At(k) = At(l) => k = l
  BY <1>2, SMTT(30)
<1> HIDE DEF At
<1>6. i \in DOMAIN s
  BY <1>2, Zenon
<1>7. Range(t) = Range(s) \ {s[i]}
  BY <1>3, <1>4, <1>6, SMTT(30) DEF Range, IsInjective
<1>8. IsInjective(t)
  BY <1>3, <1>5, SMTT(30) DEF IsInjective
<1> QED
  BY <1>7, <1>8, Zenon DEF t


-----------------------------------------------------------------------------
(* Type correctness *)

\* Popping the front keeps the types and returns a message to the caller.
LEMMA PopFrontType ==
    ASSUME TypeOK, NEW c \in Calls, PopFront(c)
    PROVE  /\ Head(queue) \in Messages
           /\ queue' \in Seq(Messages) /\ taken' \in Seq(Messages)
           /\ rpc' = [rpc EXCEPT ![c] = "returned"]
           /\ result' = [result EXCEPT ![c] = Head(queue)]
           /\ promise' = promise
BY DEF TypeOK, PopFront, Return

\* The part of TypeOK about receive calls.
ReturnTyped ==
    /\ rpc \in [Calls -> RecvStates]
    /\ promise \in [Calls -> Messages \cup {NullOpt, Unset}]
    /\ result \in [Calls -> Messages \cup {NullOpt, Unset}]
    /\ \A d \in Calls : rpc[d] = "returned" <=> result[d] # Unset

\* Returning a message or nullopt keeps the types.
LEMMA ReturnType ==
    ASSUME TypeOK, NEW c \in Calls, NEW v \in Messages \cup {NullOpt},
           rpc' = [rpc EXCEPT ![c] = "returned"],
           result' = [result EXCEPT ![c] = v],
           promise' = promise
    PROVE  ReturnTyped'
BY ValuesAssumption, Zenon DEF TypeOK, RecvStates, ReturnTyped

\* Moving a call that has not returned to another such state keeps the types.
LEMMA MoveType ==
    ASSUME TypeOK, NEW c \in Calls, NEW st \in RecvStates \ {"returned"},
           rpc[c] # "returned",
           rpc' = [rpc EXCEPT ![c] = st],
           UNCHANGED <<promise, result>>
    PROVE  ReturnTyped'
BY Zenon DEF TypeOK, RecvStates, ReturnTyped

\* notify_one wakes at most one sleeping thread and touches nothing else.
LEMMA NotifyOneEffect ==
    ASSUME NotifyOne
    PROVE  \/ Asleep = {} /\ rpc' = rpc
           \/ \E c \in Asleep : rpc' = [rpc EXCEPT ![c] = "awake"]
BY SMTT(30) DEF NotifyOne

\* Every step of the queue keeps the types of its variables.
LEMMA TypeStep == TypeOK /\ [Next]_vars => TypeOK'
<1> SUFFICES ASSUME TypeOK, [Next]_vars PROVE TypeOK'
  BY Zenon
<1> USE CallsAssumption, ValuesAssumption
<1> USE DEF TypeOK, Calls, SendStates, RecvStates, queueVars, closeVars, sendVars, recvVars
<1>1. ASSUME NEW m \in Messages, SendClosed(m) PROVE TypeOK'
  BY <1>1, Zenon DEF SendClosed
<1>2. ASSUME NEW m \in Messages, SendToWaiter(m) PROVE TypeOK'
  BY <1>2, SMTT(30) DEF SendToWaiter
<1>3. ASSUME NEW m \in Messages, SendToQueue(m) PROVE TypeOK'
  <2>1. CASE rpc' = rpc
    BY <1>3, <2>1 DEF SendToQueue
  <2>2. ASSUME NEW c \in Asleep, rpc' = [rpc EXCEPT ![c] = "awake"] PROVE TypeOK'
    <3>1. c \in Calls /\ rpc[c] # "returned" /\ "awake" \in RecvStates \ {"returned"}
      BY Zenon DEF Asleep
    <3>2. ReturnTyped'
      BY <1>3, <2>2, <3>1, MoveType, Zenon DEF SendToQueue
    <3> QED
      BY <1>3, <3>2, SMTT(30) DEF SendToQueue, ReturnTyped
  <2> QED
    BY <1>3, <2>1, <2>2, NotifyOneEffect, Zenon DEF SendToQueue
<1>4. ASSUME NEW m \in Messages, SetValue(m) PROVE TypeOK'
  BY <1>4, Zenon DEF SetValue
<1>5. ASSUME NEW c \in Calls, Recv(c) PROVE TypeOK'
  <2>1. CASE PopFront(c) /\ UNCHANGED waiters
    <3>1. /\ Head(queue) \in Messages \cup {NullOpt}
          /\ queue' \in Seq(Messages) /\ taken' \in Seq(Messages)
          /\ rpc' = [rpc EXCEPT ![c] = "returned"]
          /\ result' = [result EXCEPT ![c] = Head(queue)]
          /\ promise' = promise
      BY <2>1, PopFrontType, Zenon
    <3>2. ReturnTyped'
      BY <3>1, ReturnType, Zenon
    <3> QED
      BY <1>5, <2>1, <3>1, <3>2, SMTT(30) DEF Recv, ReturnTyped
  <2>2. CASE Return(c, NullOpt) /\ UNCHANGED <<queue, taken>> /\ UNCHANGED waiters
    <3>1. ReturnTyped'
      BY <2>2, ReturnType, Zenon DEF Return
    <3> QED
      BY <1>5, <2>2, <3>1, SMTT(30) DEF Recv, ReturnTyped
  <2>3. CASE Enlist(c)
    <3>1. ReturnTyped'
      BY <1>5, <2>3, MoveType, Zenon DEF Enlist, Recv
    <3> QED
      BY <1>5, <2>3, <3>1, SMTT(30) DEF Recv, Enlist, ReturnTyped
  <2> QED
    BY <1>5, <2>1, <2>2, <2>3, SMTT(30) DEF Recv
<1>6. ASSUME NEW c \in Calls, RecvGet(c) PROVE TypeOK'
  BY <1>6, Zenon DEF RecvGet, Return
<1>7. ASSUME NEW c \in Calls, Timeout(c) PROVE TypeOK'
  BY <1>7, SMTT(30) DEF Timeout, RecvTimeout, BlockingTimeout, Asleep
<1>8. ASSUME NEW c \in Calls, RecvExpire(c) PROVE TypeOK'
  <2>1. ASSUME NEW i \in DOMAIN waiters, waiters' = Erase(waiters, i), Return(c, NullOpt)
        PROVE  TypeOK'
    <3>0. i \in 1 .. Len(waiters)
      OBVIOUS
    <3>1. waiters' \in Seq(FiberCalls)
      BY <2>1, <3>0, EraseProperties, Zenon
    <3>2. ReturnTyped'
      BY <2>1, ReturnType, ZenonT(30) DEF Return
    <3> QED
      BY <1>8, <3>1, <3>2, SMTT(30) DEF RecvExpire, ReturnTyped
  <2>2. CASE rpc' = [rpc EXCEPT ![c] = "late"] /\ UNCHANGED <<waiters, promise, result>>
    <3>1. ReturnTyped'
      BY <1>8, <2>2, MoveType, Zenon DEF RecvExpire
    <3> QED
      BY <1>8, <2>2, <3>1, SMTT(30) DEF RecvExpire, ReturnTyped
  <2> QED
    BY <1>8, <2>1, <2>2, Zenon DEF RecvExpire
<1>9. ASSUME NEW c \in Calls, RecvLate(c) PROVE TypeOK'
  BY <1>9, Zenon DEF RecvLate, Return
<1>10. ASSUME NEW c \in Calls, TryRecv(c) PROVE TypeOK'
  <2>1. CASE PopFront(c)
    <3>1. /\ Head(queue) \in Messages \cup {NullOpt}
          /\ queue' \in Seq(Messages) /\ taken' \in Seq(Messages)
          /\ rpc' = [rpc EXCEPT ![c] = "returned"]
          /\ result' = [result EXCEPT ![c] = Head(queue)]
          /\ promise' = promise
      BY <2>1, PopFrontType, Zenon
    <3>2. ReturnTyped'
      BY <3>1, ReturnType, Zenon
    <3> QED
      BY <1>10, <3>1, <3>2, SMTT(30) DEF TryRecv, ReturnTyped
  <2>2. CASE Return(c, NullOpt) /\ UNCHANGED <<queue, taken>>
    <3>1. ReturnTyped'
      BY <2>2, ReturnType, Zenon DEF Return
    <3> QED
      BY <1>10, <2>2, <3>1, Zenon DEF TryRecv, ReturnTyped
  <2> QED
    BY <1>10, <2>1, <2>2, SMTT(30) DEF TryRecv
<1>11. ASSUME NEW c \in Calls, RecvBlocking(c) PROVE TypeOK'
  <2>1. CASE PopFront(c)
    <3>1. /\ Head(queue) \in Messages \cup {NullOpt}
          /\ queue' \in Seq(Messages) /\ taken' \in Seq(Messages)
          /\ rpc' = [rpc EXCEPT ![c] = "returned"]
          /\ result' = [result EXCEPT ![c] = Head(queue)]
          /\ promise' = promise
      BY <2>1, PopFrontType, Zenon
    <3>2. ReturnTyped'
      BY <3>1, ReturnType, Zenon
    <3> QED
      BY <1>11, <3>1, <3>2, SMTT(30) DEF RecvBlocking, ReturnTyped
  <2>2. CASE Return(c, NullOpt) /\ UNCHANGED <<queue, taken>>
    <3>1. ReturnTyped'
      BY <2>2, ReturnType, Zenon DEF Return
    <3> QED
      BY <1>11, <2>2, <3>1, SMTT(30) DEF RecvBlocking, ReturnTyped
  <2>3. CASE rpc' = [rpc EXCEPT ![c] = "asleep"] /\ UNCHANGED <<queue, taken, promise, result>>
    <3>1. ReturnTyped'
      BY <1>11, <2>3, MoveType, ZenonT(30) DEF RecvBlocking
    <3> QED
      BY <1>11, <2>3, <3>1, SMTT(30) DEF RecvBlocking, ReturnTyped
  <2> QED
    BY <1>11, <2>1, <2>2, <2>3, SMTT(30) DEF RecvBlocking
<1>12. ASSUME NEW c \in Calls, BlockingExpire(c) PROVE TypeOK'
  <2>1. CASE PopFront(c)
    <3>1. /\ Head(queue) \in Messages \cup {NullOpt}
          /\ queue' \in Seq(Messages) /\ taken' \in Seq(Messages)
          /\ rpc' = [rpc EXCEPT ![c] = "returned"]
          /\ result' = [result EXCEPT ![c] = Head(queue)]
          /\ promise' = promise
      BY <2>1, PopFrontType, Zenon
    <3>2. ReturnTyped'
      BY <3>1, ReturnType, Zenon
    <3> QED
      BY <1>12, <3>1, <3>2, SMTT(30) DEF BlockingExpire, ReturnTyped
  <2>2. CASE Return(c, NullOpt) /\ UNCHANGED <<queue, taken>>
    <3>1. ReturnTyped'
      BY <2>2, ReturnType, Zenon DEF Return
    <3> QED
      BY <1>12, <2>2, <3>1, SMTT(30) DEF BlockingExpire, ReturnTyped
  <2> QED
    BY <1>12, <2>1, <2>2, SMTT(30) DEF BlockingExpire
<1>13. ASSUME NEW c \in Calls, SpuriousWakeup(c) PROVE TypeOK'
  BY <1>13, Zenon DEF SpuriousWakeup, Asleep
<1>14. CASE Close
  BY <1>14, SMTT(30) DEF Close
<1>15. CASE CloseNotify
  BY <1>15, Zenon DEF CloseNotify, Asleep
<1>16. CASE CloseResolve
  BY <1>16 DEF CloseResolve
<1>17. CASE UNCHANGED vars
  BY <1>17, Zenon DEF vars
<1> QED
  BY <1>1, <1>2, <1>3, <1>4, <1>5, <1>6, <1>7, <1>8, <1>9, <1>10, <1>11, <1>12, <1>13,
     <1>14, <1>15, <1>16, <1>17, ZenonT(30) DEF Next, Send

\* The initial state is well typed.
LEMMA InitType == Init => TypeOK
<1> SUFFICES ASSUME Init PROVE TypeOK
  BY Zenon
<1> USE CallsAssumption, ValuesAssumption DEF Init, Calls, SendStates, RecvStates
<1>1. queue \in Seq(Messages) /\ sent \in Seq(Messages) /\ taken \in Seq(Messages)
  OBVIOUS
<1>2. waiters \in Seq(FiberCalls) /\ closing \in Seq(FiberCalls)
  OBVIOUS
<1>3. closed \in BOOLEAN /\ notifying \in BOOLEAN
  BY Zenon
<1>4. spc \in [Messages -> SendStates] /\ target \in [Messages -> FiberCalls \cup {Unset}]
  BY Zenon
<1>5. rpc \in [Calls -> RecvStates]
  BY Zenon
<1>6. /\ promise \in [Calls -> Messages \cup {NullOpt, Unset}]
      /\ result \in [Calls -> Messages \cup {NullOpt, Unset}]
  BY Zenon
<1>7. \A c \in Calls : rpc[c] = "returned" <=> result[c] # Unset
  BY Zenon
<1> QED
  BY <1>1, <1>2, <1>3, <1>4, <1>5, <1>6, <1>7, Zenon DEF TypeOK

\* The queue, its waiters, the promises and the results keep their types in
\* every behaviour of the code.
THEOREM TypeCorrect == Spec => []TypeOK
<1> QED
  BY InitType, TypeStep, PTL DEF Spec

-----------------------------------------------------------------------------
(* FIFO order *)

\* Appending to the right operand of a concatenation appends to the whole.
LEMMA ConcatAppend ==
    ASSUME NEW S, NEW t \in Seq(S), NEW q \in Seq(S), NEW e \in S
    PROVE  t \o Append(q, e) = Append(t \o q, e)
OBVIOUS

\* Moving the head of the right operand to the end of the left one does not
\* change the concatenation.
LEMMA ConcatMoveHead ==
    ASSUME NEW S, NEW t \in Seq(S), NEW q \in Seq(S), q # <<>>
    PROVE  Append(t, Head(q)) \o Tail(q) = t \o q
OBVIOUS

\* A waiter is listed only while queue_ is empty: the first half of
\* WaitersSound, and what makes the hand-off path of send overtake nobody.
ListedWhenEmpty == waiters # <<>> => queue = <<>>

FifoInv == TypeOK /\ ListedWhenEmpty /\ FifoOrder

\* Popping the front of queue_ keeps the order.
LEMMA PopFrontFifo ==
    ASSUME TypeOK, FifoOrder, NEW c \in Calls, PopFront(c), sent' = sent
    PROVE  FifoOrder'
<1>1. /\ queue \in Seq(Messages) /\ taken \in Seq(Messages) /\ queue # <<>>
      /\ queue' = Tail(queue) /\ taken' = Append(taken, Head(queue))
  BY Zenon DEF TypeOK, PopFront
<1>2. taken' \o queue' = taken \o queue
  BY <1>1, ConcatMoveHead, Zenon
<1> QED
  BY <1>2, Zenon DEF FifoOrder

\* Every step keeps the order of messages.
LEMMA FifoStep == FifoInv /\ [Next]_vars => FifoInv'
<1> SUFFICES ASSUME TypeOK, ListedWhenEmpty, FifoOrder, [Next]_vars
             PROVE  ListedWhenEmpty' /\ FifoOrder'
  BY TypeStep, Zenon DEF FifoInv
<1> DEFINE Goal == ListedWhenEmpty' /\ FifoOrder'
<1> USE DEF queueVars, closeVars, sendVars, recvVars
<1>1. ASSUME UNCHANGED queueVars, UNCHANGED waiters PROVE Goal
  BY <1>1, Zenon DEF ListedWhenEmpty, FifoOrder
<1>2. ASSUME NEW m \in Messages, SendToWaiter(m) PROVE Goal
  <2>1. queue = <<>> /\ queue' = <<>> /\ sent' = Append(sent, m) /\ taken' = Append(taken, m)
    BY <1>2, Zenon DEF SendToWaiter, ListedWhenEmpty
  <2>2. taken \in Seq(Messages) /\ taken' \in Seq(Messages)
    BY <2>1 DEF TypeOK
  <2>3. sent = taken
    BY <2>1, <2>2 DEF FifoOrder
  <2>4. taken' \o queue' = taken'
    BY <2>1, <2>2
  <2> QED
    BY <2>1, <2>3, <2>4, SMTT(30) DEF FifoOrder, ListedWhenEmpty
<1>3. ASSUME NEW m \in Messages, SendToQueue(m) PROVE Goal
  <2>1. /\ queue \in Seq(Messages) /\ taken \in Seq(Messages)
        /\ queue' = Append(queue, m) /\ sent' = Append(sent, m) /\ taken' = taken
        /\ waiters' = <<>>
    BY <1>3, Zenon DEF SendToQueue, TypeOK
  <2>2. taken \o Append(queue, m) = Append(taken \o queue, m)
    BY <2>1, ConcatAppend
  <2> QED
    BY <2>1, <2>2, Zenon DEF FifoOrder, ListedWhenEmpty
<1>4. ASSUME NEW c \in Calls, PopFront(c), UNCHANGED <<sent, waiters>> PROVE Goal
  <2>1. waiters' = <<>>
    BY <1>4, Zenon DEF PopFront, ListedWhenEmpty
  <2>2. FifoOrder'
    BY <1>4, PopFrontFifo, SMTT(30)
  <2> QED
    BY <2>1, <2>2, Zenon DEF ListedWhenEmpty
<1>5. ASSUME NEW c \in Calls, Recv(c) PROVE Goal
  <2>1. CASE Enlist(c)
    BY <1>5, <2>1, Zenon DEF Recv, Enlist, ListedWhenEmpty, FifoOrder
  <2> QED
    BY <1>1, <1>4, <1>5, <2>1, SMTT(30) DEF Recv
<1>6. ASSUME NEW c \in Calls, RecvExpire(c) PROVE Goal
  <2>1. waiters = <<>> => waiters' = <<>>
    BY <1>6 DEF RecvExpire
  <2> QED
    BY <1>6, <2>1, Zenon DEF RecvExpire, ListedWhenEmpty, FifoOrder
<1>7. ASSUME NEW c \in Calls, TryRecv(c) \/ RecvBlocking(c) \/ BlockingExpire(c) PROVE Goal
  BY <1>1, <1>4, <1>7, Zenon DEF TryRecv, RecvBlocking, BlockingExpire
<1>8. CASE Close
  BY <1>8, Zenon DEF Close, ListedWhenEmpty, FifoOrder
<1>9. ASSUME NEW m \in Messages, SendClosed(m) \/ SetValue(m) PROVE Goal
  BY <1>1, <1>9, SMTT(30) DEF SendClosed, SetValue
<1>10. ASSUME NEW c \in Calls,
              RecvGet(c) \/ RecvLate(c) \/ Timeout(c) \/ SpuriousWakeup(c)
       PROVE  Goal
  BY <1>1, <1>10, Zenon DEF RecvGet, RecvLate, Timeout, RecvTimeout, BlockingTimeout, SpuriousWakeup
<1>11. CASE CloseNotify \/ CloseResolve \/ UNCHANGED vars
  BY <1>1, <1>11, Zenon DEF CloseNotify, CloseResolve, vars
<1>12. ASSUME NEW m \in Messages, Send(m) \/ SetValue(m) PROVE Goal
  BY <1>2, <1>3, <1>9, <1>12, SMTT(30) DEF Send
<1>13. ASSUME NEW c \in Calls,
              \/ Recv(c) \/ RecvGet(c) \/ RecvExpire(c) \/ RecvLate(c) \/ TryRecv(c)
              \/ RecvBlocking(c) \/ BlockingExpire(c) \/ SpuriousWakeup(c)
              \/ Timeout(c)
       PROVE  Goal
  BY <1>5, <1>6, <1>7, <1>10, <1>13, SMTT(30)
<1> QED
  BY <1>8, <1>11, <1>12, <1>13, SMTT(30) DEF Next, Goal

\* For every set of calls, messages leave the queue, popped by a receiver or
\* handed to a waiting fiber, in the order in which send accepted them.
THEOREM Fifo == Spec => []FifoOrder
<1>1. Init => FifoInv
  <2> SUFFICES ASSUME Init PROVE ListedWhenEmpty /\ FifoOrder
    BY InitType, Zenon DEF FifoInv
  <2>1. <<>> \o <<>> = <<>>
    OBVIOUS
  <2> QED
    BY <2>1, Zenon DEF Init, ListedWhenEmpty, FifoOrder
<1>2. FifoInv => FifoOrder
  BY Zenon DEF FifoInv
<1> QED
  BY <1>1, <1>2, FifoStep, PTL DEF Spec

-----------------------------------------------------------------------------
(* No lost signal *)

\* The threads that hold or compete for the lock on their way to the predicate
Awake == {c \in ThreadCalls : rpc[c] = "awake"}

\* The number of awake threads changes by one when one thread wakes or leaves.
LEMMA AwakeCount ==
    ASSUME NEW c
    PROVE  /\ Cardinality(Awake) \in Nat
           /\ Cardinality(Awake \cup {c})
                = IF c \in Awake THEN Cardinality(Awake) ELSE Cardinality(Awake) + 1
           /\ Cardinality(Awake \ {c})
                = IF c \in Awake THEN Cardinality(Awake) - 1 ELSE Cardinality(Awake)
<1>1. IsFiniteSet(Awake)
  <2>1. Awake \in SUBSET ThreadCalls
    BY Zenon DEF Awake
  <2> QED
    BY <2>1, CallsAssumption, FS_Subset, Zenon
<1>2. Cardinality(Awake) \in Nat
  BY <1>1, FS_CardinalityType, Zenon
<1>3. Cardinality(Awake \cup {c})
        = IF c \in Awake THEN Cardinality(Awake) ELSE Cardinality(Awake) + 1
  BY <1>1, FS_AddElement, Zenon
<1>4. Cardinality(Awake \ {c})
        = IF c \in Awake THEN Cardinality(Awake) - 1 ELSE Cardinality(Awake)
  BY <1>1, FS_RemoveElement, Zenon
<1> QED
  BY <1>2, <1>3, <1>4, Zenon

\* A step that grows neither the queue nor the set of sleepers from nothing,
\* and puts no awake thread elsewhere, loses no signal.
LEMMA SignalKept ==
    ASSUME TypeOK, NoLostSignal, NEW c,
           Asleep' # {} => Asleep # {},
           \/ Awake' = Awake /\ queue' = queue
           \/ Awake' = Awake \cup {c} /\ queue' = queue
           \/ Awake' = Awake /\ Len(queue') = Len(queue) - 1
           \/ Awake' = Awake \ {c} /\ Len(queue') = Len(queue) - 1
    PROVE  NoLostSignal'
<1> SUFFICES ASSUME Asleep' # {} PROVE Len(queue') <= Cardinality(Awake')
  BY Zenon DEF NoLostSignal, Awake
<1>1. Len(queue) <= Cardinality(Awake) /\ Len(queue) \in Nat
  BY DEF NoLostSignal, Awake, TypeOK
<1> DEFINE n == Cardinality(Awake)
           more == Cardinality(Awake \cup {c})
           less == Cardinality(Awake \ {c})
<1>2. n \in Nat /\ (more = n \/ more = n + 1) /\ (less = n \/ less = n - 1)
  BY AwakeCount, Zenon
<1>3. \/ Cardinality(Awake') = n /\ queue' = queue
      \/ Cardinality(Awake') = more /\ queue' = queue
      \/ Cardinality(Awake') = n /\ Len(queue') = Len(queue) - 1
      \/ Cardinality(Awake') = less /\ Len(queue') = Len(queue) - 1
  BY Zenon
<1>4. Len(queue) <= n
  BY <1>1, Zenon
<1> HIDE DEF n, more, less
<1> QED
  BY <1>1, <1>2, <1>3, <1>4, SMTT(30)

\* A call that moves between two states other than asleep and awake leaves both
\* sets as they are; one that stops sleeping or being awake leaves its set.
LEMMA MoveSets ==
    ASSUME TypeOK, NEW c \in Calls, NEW st, rpc' = [rpc EXCEPT ![c] = st]
    PROVE  /\ st # "asleep" => Asleep' = Asleep \ {c}
           /\ st # "awake" => Awake' = Awake \ {c}
           /\ st = "awake" /\ c \in ThreadCalls => Awake' = Awake \cup {c}
BY Zenon DEF TypeOK, Asleep, Awake, Calls

\* Every step keeps the signal.
LEMMA SignalStep == TypeOK /\ NoLostSignal /\ [Next]_vars => NoLostSignal'
<1> SUFFICES ASSUME TypeOK, NoLostSignal, [Next]_vars PROVE NoLostSignal'
  BY Zenon
<1> USE DEF queueVars, closeVars, sendVars, recvVars
<1>1. ASSUME UNCHANGED <<queue, rpc>> PROVE NoLostSignal'
  BY <1>1, Zenon DEF NoLostSignal, Asleep
<1>2. ASSUME NEW c \in Calls, PopFront(c) PROVE NoLostSignal'
  <2>1. rpc' = [rpc EXCEPT ![c] = "returned"] /\ Len(queue') = Len(queue) - 1
    BY <1>2 DEF PopFront, Return, TypeOK
  <2>0. "returned" # "asleep" /\ "returned" # "awake"
    BY Zenon
  <2>2. Asleep' = Asleep \ {c} /\ Awake' = Awake \ {c}
    BY <2>0, <2>1, MoveSets, Zenon
  <2> QED
    BY <2>1, <2>2, SignalKept, Zenon
<1>3. ASSUME NEW c \in Calls, NEW st \in RecvStates \ {"asleep", "awake"},
             queue' = queue, rpc' = [rpc EXCEPT ![c] = st],
             c \notin Awake \/ queue = <<>>
      PROVE  NoLostSignal'
  <2>1. Asleep' = Asleep \ {c} /\ Awake' = Awake \ {c}
    BY <1>3, MoveSets, Zenon
  <2>2. CASE c \notin Awake
    <3>1. Awake' = Awake
      BY <2>1, <2>2, Zenon
    <3> QED
      BY <1>3, <2>1, <3>1, SignalKept, Zenon
  <2>3. CASE queue = <<>>
    BY <1>3, <2>3, CallsAssumption, FS_Subset, FS_CardinalityType DEF NoLostSignal
  <2> QED
    BY <1>3, <2>2, <2>3, Zenon
<1>4. ASSUME NEW m \in Messages, SendToQueue(m) PROVE NoLostSignal'
  <2>1. Len(queue') = Len(queue) + 1 /\ Len(queue) \in Nat
    BY <1>4 DEF SendToQueue, TypeOK
  <2>2. CASE rpc' = rpc /\ Asleep = {}
    BY <2>2, Zenon DEF NoLostSignal, Asleep
  <2>3. ASSUME NEW c \in Asleep, rpc' = [rpc EXCEPT ![c] = "awake"] PROVE NoLostSignal'
    <3>1. c \in Calls /\ c \in ThreadCalls /\ c \notin Awake
      BY Zenon DEF Asleep, Awake, Calls
    <3>2. Awake' = Awake \cup {c}
      BY <2>3, <3>1, MoveSets, Zenon
    <3>3. Len(queue) <= Cardinality(Awake)
      BY Zenon DEF NoLostSignal, Awake
    <3>4. Cardinality(Awake \cup {c}) = Cardinality(Awake) + 1 /\ Cardinality(Awake) \in Nat
      BY <3>1, AwakeCount, Zenon
    <3>5. Len(queue') <= Cardinality(Awake')
      BY <2>1, <3>2, <3>3, <3>4
    <3> QED
      BY <3>5, Zenon DEF NoLostSignal, Awake
  <2> QED
    BY <1>4, <2>2, <2>3, NotifyOneEffect, SMTT(30) DEF SendToQueue
<1>5. ASSUME NEW c \in Calls, Recv(c) PROVE NoLostSignal'
  <2>1. c \notin Awake
    BY <1>5, Zenon DEF Recv, Awake
  <2> QED
    BY <1>2, <1>3, <1>5, <2>1, SMTT(30) DEF Recv, Enlist, Return, RecvStates
<1>6. ASSUME NEW c \in Calls, RecvGet(c) \/ RecvLate(c) \/ RecvExpire(c) \/ Timeout(c)
      PROVE  NoLostSignal'
  <2>1. c \notin Awake
    BY <1>6, Zenon DEF RecvGet, RecvLate, RecvExpire, Timeout, RecvTimeout, BlockingTimeout, Asleep, Awake
  <2> QED
    BY <1>3, <1>6, <2>1, SMTT(30)
    DEF RecvGet, RecvLate, RecvExpire, Timeout, RecvTimeout, BlockingTimeout, Return, RecvStates
<1>7. ASSUME NEW c \in Calls, TryRecv(c) \/ BlockingExpire(c) PROVE NoLostSignal'
  BY <1>2, <1>3, <1>7, Zenon DEF TryRecv, BlockingExpire, Return, RecvStates
<1>8. ASSUME NEW c \in Calls, RecvBlocking(c) PROVE NoLostSignal'
  <2>1. CASE queue = <<>> /\ queue' = queue
    BY <2>1, CallsAssumption, FS_Subset, FS_CardinalityType, SMTT(30) DEF NoLostSignal
  <2> QED
    BY <1>2, <1>8, <2>1, SMTT(30) DEF RecvBlocking
<1>9. ASSUME NEW c \in Calls, SpuriousWakeup(c) PROVE NoLostSignal'
  <2>1. c \in ThreadCalls /\ rpc' = [rpc EXCEPT ![c] = "awake"] /\ queue' = queue
    BY <1>9, Zenon DEF SpuriousWakeup, Asleep
  <2>2. Asleep' = Asleep \ {c} /\ Awake' = Awake \cup {c}
    BY <2>1, MoveSets, Zenon
  <2> QED
    BY <2>1, <2>2, SignalKept, Zenon
<1>10. CASE CloseNotify
  <2>1. Asleep' = {}
    BY <1>10, Zenon DEF CloseNotify, Asleep, Calls, TypeOK
  <2> QED
    BY <2>1, Zenon DEF NoLostSignal
<1>11. CASE Close \/ CloseResolve \/ UNCHANGED vars
  BY <1>1, <1>11, Zenon DEF Close, CloseResolve, vars
<1>12. ASSUME NEW m \in Messages, SendClosed(m) \/ SendToWaiter(m) \/ SetValue(m)
       PROVE  NoLostSignal'
  BY <1>1, <1>12, Zenon DEF SendClosed, SendToWaiter, SetValue
<1> QED
  BY <1>4, <1>5, <1>6, <1>7, <1>8, <1>9, <1>10, <1>11, <1>12, SMTT(30) DEF Next, Send

\* For every finite set of receiving threads, recv_cv_ loses no signal: while a
\* thread sleeps in recv_blocking, each queued message has an awake thread.
THEOREM SignalNotLost == Spec => []NoLostSignal
<1>1. Init => NoLostSignal
  BY Zenon DEF Init, NoLostSignal, Asleep, Calls
<1> QED
  BY <1>1, SignalStep, TypeCorrect, PTL DEF Spec

-----------------------------------------------------------------------------
(* Who holds which promise and which message *)

\* The promises in fiber_waiters_, the ones close() took over, and the messages
\* in queue_
Listed == Range(waiters)
Ending == Range(closing)
Queued == Range(queue)

\* No send took the promise of c; and nobody has set it
Untaken(c) == \A m \in Messages : target[m] # c
Free(c) == promise[c] = Unset /\ Untaken(c)

\* Nothing is listed twice; waiters are listed while the queue is empty and
\* open, and close() takes them over when it closes it.
ListsInv ==
    /\ IsInjective(queue) /\ IsInjective(waiters) /\ IsInjective(closing)
    /\ waiters # <<>> => queue = <<>> /\ ~closed
    /\ ~closed => closing = <<>>

\* A call that is new, listed or taken over by close() has nothing coming; only
\* a timed call expires; what is in a promise was handed to it; what a call
\* returned was popped or handed to it, and to no other call.
CallInv(c) ==
    /\ rpc[c] = "new" \/ c \in Listed \/ c \in Ending => Free(c)
    /\ c \in Listed => rpc[c] \in {"waiting", "expired"}
    /\ c \in Ending => rpc[c] # "new"
    /\ rpc[c] \in {"expired", "late"} => c \in Timed
    /\ promise[c] \in Messages => target[promise[c]] = c
    /\ result[c] \in Messages => /\ target[result[c]] \in {c, Unset}
                                 /\ spc[result[c]] = "accepted"
                                 /\ result[c] \notin Queued

\* A message is new or rejected, or on its way to the promise of one call, or
\* in that promise, or in the queue, or was returned.
SendInv(m) ==
    /\ spc[m] \in {"new", "rejected"} => target[m] = Unset
    /\ spc[m] = "handoff" => target[m] # Unset
    /\ m \in Queued => spc[m] = "accepted" /\ target[m] = Unset
    /\ spc[m] = "accepted" /\ target[m] = Unset => m \in Queued \/ \E c \in Calls : result[c] = m
    /\ target[m] # Unset =>
         /\ promise[target[m]] = IF spc[m] = "handoff" THEN Unset ELSE m
         /\ \/ result[target[m]] \in {Unset, m}
            \/ result[target[m]] = NullOpt /\ target[m] \in Timed
         /\ \A n \in Messages : target[n] = target[m] => n = m

HoldInv ==
    /\ TypeOK /\ ListsInv /\ DeliveredOnce
    /\ \A c \in Calls : CallInv(c)
    /\ \A m \in Messages : SendInv(m)

\* What the lists of the queue hold when they are empty.
LEMMA EmptySet == Range(<<>>) = {} /\ IsInjective(<<>>)
BY DEF Range, IsInjective

\* The three parts of HoldInv that are about calls and messages.
Holds ==
    /\ DeliveredOnce
    /\ \A c \in Calls : CallInv(c)
    /\ \A m \in Messages : SendInv(m)

\* The types of the tables of sends and receive calls, apart from the lists.
Tables ==
    /\ spc \in [Messages -> SendStates]
    /\ target \in [Messages -> FiberCalls \cup {Unset}]
    /\ rpc \in [Calls -> RecvStates]
    /\ promise \in [Calls -> Messages \cup {NullOpt, Unset}]
    /\ result \in [Calls -> Messages \cup {NullOpt, Unset}]
    /\ \A c \in Calls : rpc[c] = "returned" <=> result[c] # Unset

\* The tables have their types wherever HoldInv holds.
LEMMA HoldTables == HoldInv => Tables
BY Zenon DEF HoldInv, TypeOK, Tables

\* A receive call that no send and no list refers to returns the front of the
\* queue.
LEMMA PopFrontHolds ==
    ASSUME HoldInv, NEW c \in Calls, PopFront(c), Untaken(c), c \notin Listed, c \notin Ending,
           rpc[c] # "returned",
           UNCHANGED <<waiters, closeVars, sendVars>>
    PROVE  ListsInv' /\ Holds'
<1>1. /\ Head(queue) \in Messages /\ Head(queue) \in Queued
      /\ Queued' = Queued \ {Head(queue)}
      /\ IsInjective(queue')
  BY TailSet, Zenon DEF HoldInv, TypeOK, ListsInv, PopFront, Queued
<1> PICK m : m = Head(queue)
  BY Zenon
<1>2. /\ rpc' = [rpc EXCEPT ![c] = "returned"] /\ result' = [result EXCEPT ![c] = m]
      /\ promise' = promise
  BY Zenon DEF PopFront, Return
<1>3. m \in Messages /\ m \in Queued /\ Queued' = Queued \ {m}
  BY <1>1, Zenon
<1>4. Listed' = Listed /\ Ending' = Ending /\ spc' = spc /\ target' = target
  BY Zenon DEF closeVars, sendVars, Listed, Ending
<1>5. ListsInv'
  BY <1>1, Zenon DEF PopFront, HoldInv, ListsInv, closeVars
<1>6. result[c] = Unset /\ \A d \in Calls : result[d] # m
  BY <1>3, HoldTables DEF Tables, CallInv, HoldInv
<1>7. DeliveredOnce'
  BY <1>2, <1>6, HoldTables, Zenon DEF Tables, DeliveredOnce, HoldInv
<1>8. ASSUME NEW d \in Calls PROVE CallInv(d)'
  <2>1. CallInv(d)
    BY Zenon DEF HoldInv
  <2>2. SendInv(m)
    BY <1>3, Zenon DEF HoldInv
  <2> QED
    BY <1>2, <1>3, <1>4, <1>6, <2>1, <2>2, SMTT(30), HoldTables DEF Tables, CallInv, SendInv, Free, Untaken
<1>9. ASSUME NEW n \in Messages PROVE SendInv(n)'
  <2>1. SendInv(n)
    BY Zenon DEF HoldInv
  <2>2. target[n] # c
    BY Zenon DEF Untaken
  <2>3. n = m => \E d \in Calls : result'[d] = n
    BY <1>2, HoldTables, Zenon DEF Tables
  <2>4. \A d \in Calls : result[d] = n => result'[d] = n
    BY <1>2, <1>6, ValuesAssumption, HoldTables, Zenon DEF Tables
  <2>5. target[n] # Unset => target[n] \in Calls /\ result'[target[n]] = result[target[n]]
    BY <1>2, <2>2, HoldTables, Zenon DEF Tables, Calls
  <2> QED
    BY <1>2, <1>3, <1>4, <2>1, <2>3, <2>4, <2>5, SMTT(30) DEF SendInv
<1> QED
  BY <1>5, <1>7, <1>8, <1>9, Zenon DEF Holds

\* A call to which nothing was handed, or which takes what was handed to it,
\* returns without touching the queue.
LEMMA ReturnHolds ==
    ASSUME HoldInv, NEW c \in Calls, NEW v \in Messages \cup {NullOpt},
           rpc[c] # "returned", c \notin Listed',
           v \in Messages => v = promise[c],
           v = NullOpt => Untaken(c) \/ promise[c] = NullOpt \/ c \in Timed,
           Return(c, v), Listed' \subseteq Listed,
           UNCHANGED <<queueVars, closeVars, sendVars>>
    PROVE  Holds'
<1>1. /\ rpc' = [rpc EXCEPT ![c] = "returned"] /\ result' = [result EXCEPT ![c] = v]
      /\ promise' = promise /\ result[c] = Unset
  BY HoldTables, Zenon DEF Return, Tables
<1>2. Ending' = Ending /\ Queued' = Queued /\ spc' = spc /\ target' = target
  BY Zenon DEF closeVars, sendVars, queueVars, Ending, Queued
<1>3. CallInv(c) /\ (v \in Messages => SendInv(v))
  BY Zenon DEF HoldInv
<1>4. v \in Messages => target[v] = c /\ spc[v] = "accepted" /\ v \notin Queued
  BY <1>3, CallsAssumption, ValuesAssumption, HoldTables DEF CallInv, SendInv, Tables, SendStates, Calls
<1>5. DeliveredOnce'
  <2>1. ASSUME NEW d \in Calls, v \in Messages, result[d] = v PROVE d = c
    <3>1. CallInv(d)
      BY Zenon DEF HoldInv
    <3> QED
      BY <1>4, <2>1, <3>1, CallsAssumption, ValuesAssumption, Zenon DEF CallInv
  <2> QED
    BY <1>1, <2>1, ValuesAssumption, HoldTables, Zenon DEF Tables, DeliveredOnce, HoldInv
<1>6. ASSUME NEW d \in Calls PROVE CallInv(d)'
  <2>1. CallInv(d)
    BY Zenon DEF HoldInv
  <2> QED
    BY <1>1, <1>2, <1>4, <2>1, SMTT(30), HoldTables DEF Tables, CallInv, Free, Untaken
<1>7. ASSUME NEW n \in Messages PROVE SendInv(n)'
  <2>1. SendInv(n)
    BY Zenon DEF HoldInv
  <2>2. \A d \in Calls : result[d] = n => result'[d] = n
    BY <1>1, ValuesAssumption, HoldTables, Zenon DEF Tables
  <2>3. target[n] # Unset => target[n] \in Calls
    BY HoldTables, Zenon DEF Tables, Calls
  <2>4. target[n] = c => v = n \/ (v = NullOpt /\ c \in Timed)
    BY <1>4, <2>1, CallsAssumption, ValuesAssumption, SMTT(30), HoldTables DEF SendInv, Free, Untaken, Tables
  <2>5. target[n] # Unset =>
          \/ result'[target[n]] \in {Unset, n}
          \/ result'[target[n]] = NullOpt /\ target[n] \in Timed
    BY <1>1, <2>1, <2>3, <2>4, HoldTables, Zenon DEF SendInv, Tables
  <2> QED
    BY <1>1, <1>2, <2>1, <2>2, <2>5, SMTT(30) DEF SendInv
<1> QED
  BY <1>5, <1>6, <1>7, Zenon DEF Holds

\* A call that goes from one wait to another keeps what it holds.
LEMMA MoveHolds ==
    ASSUME HoldInv, NEW c \in Calls, NEW st \in RecvStates \ {"new", "returned"},
           rpc' = [rpc EXCEPT ![c] = st],
           st \in {"expired", "late"} => c \in Timed,
           c \in Listed' => st \in {"waiting", "expired"} /\ Free(c),
           Listed' \subseteq Listed \cup {c},
           UNCHANGED <<queueVars, closeVars, sendVars, promise, result>>
    PROVE  Holds'
<1>2. Ending' = Ending /\ Queued' = Queued /\ spc' = spc /\ target' = target
  BY Zenon DEF closeVars, sendVars, queueVars, Ending, Queued
<1>5. DeliveredOnce'
  BY Zenon DEF HoldInv, DeliveredOnce
<1>6. ASSUME NEW d \in Calls PROVE CallInv(d)'
  <2>1. CallInv(d)
    BY Zenon DEF HoldInv
  <2> QED
    BY <1>2, <2>1, SMTT(30), HoldTables DEF Tables, CallInv, Free, Untaken
<1>7. ASSUME NEW n \in Messages PROVE SendInv(n)'
  <2>1. SendInv(n)
    BY Zenon DEF HoldInv
  <2> QED
    BY <1>2, <2>1, SMTT(30) DEF SendInv
<1> QED
  BY <1>5, <1>6, <1>7, Zenon DEF Holds

\* Every step of a send keeps each message in one place.
LEMMA SendHolds ==
    ASSUME HoldInv, NEW m \in Messages, Send(m) \/ SetValue(m)
    PROVE  ListsInv' /\ Holds'
<1> USE DEF queueVars, closeVars, sendVars, recvVars
<1>0. SendInv(m) /\ Tables
  BY HoldTables, Zenon DEF HoldInv
<1>1. CASE SendClosed(m)
  <2>1. ListsInv' /\ DeliveredOnce'
    BY <1>1, Zenon DEF SendClosed, HoldInv, ListsInv, DeliveredOnce
  <2>2. Listed' = Listed /\ Ending' = Ending /\ Queued' = Queued
    BY <1>1, Zenon DEF SendClosed, Listed, Ending, Queued
  <2>3. ASSUME NEW d \in Calls PROVE CallInv(d)'
    <3>1. CallInv(d)
      BY Zenon DEF HoldInv
    <3> QED
      BY <1>0, <1>1, <2>2, <3>1, SMTT(30) DEF SendClosed, CallInv, Free, Untaken, Tables
  <2>4. ASSUME NEW n \in Messages PROVE SendInv(n)'
    <3>1. SendInv(n)
      BY Zenon DEF HoldInv
    <3> QED
      BY <1>0, <1>1, <2>2, <3>1, SMTT(30) DEF SendClosed, SendInv, Tables
  <2> QED
    BY <2>1, <2>3, <2>4, Zenon DEF Holds
<1>2. CASE SendToWaiter(m)
  <2> PICK c : c = Head(waiters)
    BY Zenon
  <2>1. /\ c \in FiberCalls /\ c \in Listed /\ Listed' = Listed \ {c}
        /\ IsInjective(waiters')
    BY <1>2, TailSet, Zenon DEF SendToWaiter, HoldInv, TypeOK, ListsInv, Listed
  <2>2. Ending' = Ending /\ Queued' = Queued /\ closed' = closed /\ queue' = queue
    BY <1>2, Zenon DEF SendToWaiter, Ending, Queued
  <2>3. ListsInv' /\ DeliveredOnce'
    BY <1>2, <2>1, Zenon DEF SendToWaiter, HoldInv, ListsInv, DeliveredOnce
  <2>4. /\ spc[m] = "new" /\ spc' = [spc EXCEPT ![m] = "handoff"] /\ target' = [target EXCEPT ![m] = c]
        /\ UNCHANGED <<rpc, promise, result>>
    BY <1>2, Zenon DEF SendToWaiter
  <2>5. c \in Calls /\ c # Unset /\ CallInv(c) /\ closing = <<>>
    BY <1>2, <2>1, CallsAssumption, ValuesAssumption, Zenon DEF SendToWaiter, HoldInv, ListsInv, Calls
  <2>6. c \notin Ending /\ Free(c) /\ result[c] = Unset
    BY <1>0, <2>1, <2>5, EmptySet, Zenon DEF CallInv, Ending, Tables
  <2>7. ASSUME NEW d \in Calls PROVE CallInv(d)'
    <3>1. CallInv(d)
      BY Zenon DEF HoldInv
    <3>2. target[m] = Unset /\ d # Unset
      BY <1>0, <2>4, ValuesAssumption, Zenon DEF SendInv
    <3>3. d # c => (Free(d) => Free(d)')
      BY <1>0, <2>4, Zenon DEF Free, Untaken, Tables
    <3> QED
      BY <1>0, <2>1, <2>2, <2>4, <2>5, <2>6, <3>1, <3>2, <3>3, SMTT(30) DEF CallInv, Tables
  <2>8. ASSUME NEW n \in Messages PROVE SendInv(n)'
    <3>1. SendInv(n)
      BY ZenonT(30) DEF HoldInv
    <3> QED
      BY <1>0, <2>2, <2>4, <2>5, <2>6, <3>1, SMTT(30) DEF SendInv, Tables, Free, Untaken
  <2> QED
    BY <2>3, <2>7, <2>8, Zenon DEF Holds
<1>3. CASE SendToQueue(m)
  <2>1. m \notin Queued /\ (\A d \in Calls : result[d] # m) /\ target[m] = Unset
    BY <1>0, <1>3 DEF SendToQueue, SendInv, CallInv, HoldInv
  <2>2. Queued' = Queued \cup {m} /\ IsInjective(queue')
    <3>1. queue \in Seq(Messages) /\ IsInjective(queue) /\ queue' = Append(queue, m)
      BY <1>0, <1>3, Zenon DEF SendToQueue, HoldInv, ListsInv, TypeOK
    <3> QED
      BY <2>1, <3>1, AppendSet, ZenonT(30) DEF Queued
  <2>3. Listed' = Listed /\ Ending' = Ending
    BY <1>3, Zenon DEF SendToQueue, Listed, Ending
  <2>4. ListsInv' /\ DeliveredOnce'
    BY <1>3, <2>2, Zenon DEF SendToQueue, HoldInv, ListsInv, DeliveredOnce
  <2>5. /\ spc[m] = "new" /\ spc' = [spc EXCEPT ![m] = "accepted"]
        /\ UNCHANGED <<target, promise, result>>
    BY <1>3, Zenon DEF SendToQueue
  <2>6. ASSUME NEW d \in Calls
        PROVE  rpc'[d] = rpc[d] \/ (rpc[d] = "asleep" /\ rpc'[d] = "awake" /\ d \in ThreadCalls)
    BY <1>0, <1>3, NotifyOneEffect, Zenon DEF SendToQueue, Tables, Asleep
  <2>7. ASSUME NEW d \in Calls PROVE CallInv(d)'
    <3>1. CallInv(d) /\ (d \in Listed => d \notin ThreadCalls)
      BY <1>0, CallsAssumption DEF HoldInv, TypeOK, Listed, Range
    <3>2. Free(d) => Free(d)'
      BY <2>5, Zenon DEF Free, Untaken
    <3> QED
      BY <1>0, <2>1, <2>2, <2>3, <2>5, <2>6, <3>1, <3>2, SMTT(30) DEF CallInv, Tables
  <2>8. ASSUME NEW n \in Messages PROVE SendInv(n)'
    <3>1. SendInv(n)
      BY Zenon DEF HoldInv
    <3> QED
      BY <1>0, <2>1, <2>2, <2>5, <3>1, SMTT(30) DEF SendInv, Tables
  <2> QED
    BY <2>4, <2>7, <2>8, Zenon DEF Holds
<1>4. CASE SetValue(m)
  <2> PICK c : c = target[m]
    BY Zenon
  <2>1. /\ spc[m] = "handoff" /\ spc' = [spc EXCEPT ![m] = "accepted"]
        /\ promise' = [promise EXCEPT ![c] = m]
        /\ UNCHANGED <<target, rpc, result>>
    BY <1>4, Zenon DEF SetValue
  <2>2. ListsInv' /\ DeliveredOnce'
    BY <1>4, Zenon DEF SetValue, HoldInv, ListsInv, DeliveredOnce
  <2>3. Listed' = Listed /\ Ending' = Ending /\ Queued' = Queued
    BY <1>4, Zenon DEF SetValue, Listed, Ending, Queued
  <2>4. c = target[m] /\ c \in Calls /\ promise[c] = Unset
    BY <1>0, <2>1, Zenon DEF SendInv, Tables, Calls
  <2>5. ASSUME NEW d \in Calls PROVE CallInv(d)'
    <3>1. CallInv(d)
      BY Zenon DEF HoldInv
    <3>2. ~Free(c)
      BY <2>4, Zenon DEF Free, Untaken
    <3>3. d # c => (Free(d) => Free(d)')
      BY <1>0, <2>1, Zenon DEF Free, Untaken, Tables
    <3> QED
      BY <1>0, <2>1, <2>3, <2>4, <3>1, <3>2, <3>3, SMTT(30) DEF CallInv, Tables
  <2>6. ASSUME NEW n \in Messages PROVE SendInv(n)'
    <3>1. SendInv(n)
      BY Zenon DEF HoldInv
    <3> QED
      BY <1>0, <2>1, <2>3, <2>4, <3>1, SMTT(30) DEF SendInv, Tables
  <2> QED
    BY <2>2, <2>5, <2>6, Zenon DEF Holds
<1> QED
  BY <1>1, <1>2, <1>3, <1>4, Zenon DEF Send

\* Every step of a receive call keeps each message in one place.
LEMMA RecvHolds ==
    ASSUME HoldInv, NEW c \in Calls,
           \/ Recv(c) \/ RecvGet(c) \/ RecvExpire(c) \/ RecvLate(c) \/ TryRecv(c)
           \/ RecvBlocking(c) \/ BlockingExpire(c) \/ SpuriousWakeup(c)
           \/ Timeout(c)
    PROVE  ListsInv' /\ Holds'
<1> USE DEF queueVars, closeVars, sendVars, recvVars
<1>0. Tables /\ CallInv(c)
  BY HoldTables, Zenon DEF HoldInv
<1>1. rpc[c] = "new" => Free(c) /\ Untaken(c) /\ c \notin Listed /\ c \notin Ending
  BY <1>0, Zenon DEF CallInv, Free
<1>2. c \in ThreadCalls => Untaken(c) /\ c \notin Listed /\ c \notin Ending
  <2>1. ASSUME c \in ThreadCalls PROVE c \notin FiberCalls /\ c # Unset
    BY <2>1, CallsAssumption, ValuesAssumption, ZenonT(30) DEF Calls
  <2>2. ASSUME c \in ThreadCalls PROVE c \notin Listed /\ c \notin Ending
    BY <2>1, <2>2 DEF HoldInv, TypeOK, Listed, Ending, Range
  <2>3. ASSUME c \in ThreadCalls, NEW m \in Messages PROVE target[m] # c
    BY <1>0, <2>1, <2>3, Zenon DEF Tables
  <2> QED
    BY <2>2, <2>3, Zenon DEF Untaken
<1>3. ASSUME UNCHANGED <<queue, waiters, closeVars>> PROVE ListsInv'
  BY <1>3, Zenon DEF HoldInv, ListsInv
<1>4. ASSUME UNCHANGED waiters PROVE Listed' = Listed
  BY <1>4, Zenon DEF Listed
<1>5. CASE Recv(c)
  <2>1. CASE PopFront(c) /\ UNCHANGED waiters
    BY <1>1, <1>5, <2>1, PopFrontHolds, Zenon DEF Recv
  <2>2. CASE Return(c, NullOpt) /\ UNCHANGED <<queue, taken, waiters>>
    BY <1>1, <1>3, <1>4, <1>5, <2>2, ReturnHolds, ValuesAssumption, Zenon DEF Recv
  <2>3. CASE Enlist(c)
    <3>1. Listed' = Listed \cup {c} /\ IsInjective(waiters')
      <4>1. waiters \in Seq(FiberCalls) /\ IsInjective(waiters) /\ waiters' = Append(waiters, c)
        BY <1>0, <2>3, Zenon DEF Enlist, HoldInv, ListsInv, TypeOK
      <4>2. c \in FiberCalls /\ c \notin Range(waiters)
        BY <1>1, <1>5, Zenon DEF Recv, Listed
      <4>3. /\ Range(Append(waiters, c)) = Range(waiters) \cup {c}
            /\ IsInjective(Append(waiters, c))
        BY <4>1, <4>2, AppendSet
      <4> QED
        BY <4>1, <4>3, Zenon DEF Listed
    <3>2. ListsInv'
      BY <1>5, <2>3, <3>1, Zenon DEF Recv, Enlist, HoldInv, ListsInv
    <3>3. Holds'
      BY <1>1, <1>5, <2>3, <3>1, MoveHolds, Zenon DEF Recv, Enlist, RecvStates
    <3> QED
      BY <3>2, <3>3, Zenon
  <2> QED
    BY <1>5, <2>1, <2>2, <2>3, Zenon DEF Recv
<1>6. CASE RecvGet(c)
  <2>1. c \notin Listed
    BY <1>0, <1>6, Zenon DEF RecvGet, CallInv, Free, Untaken
  <2>2. promise[c] \in Messages \cup {NullOpt}
    BY <1>0, <1>6, Zenon DEF RecvGet, Tables
  <2> QED
    BY <1>3, <1>4, <1>6, <2>1, <2>2, ReturnHolds, Zenon DEF RecvGet
<1>7. CASE RecvExpire(c)
  <2>0. c \in Timed /\ rpc[c] = "expired"
    BY <1>0, <1>7, Zenon DEF RecvExpire, CallInv
  <2>1. ASSUME NEW i \in DOMAIN waiters, waiters[i] = c, waiters' = Erase(waiters, i),
               Return(c, NullOpt)
        PROVE  ListsInv' /\ Holds'
    <3>1. waiters \in Seq(FiberCalls) /\ i \in 1 .. Len(waiters) /\ IsInjective(waiters)
      BY <1>0 DEF TypeOK, HoldInv, ListsInv
    <3>2. Listed' = Listed \ {c} /\ IsInjective(waiters')
      BY <2>1, <3>1, EraseSet, Zenon DEF Listed
    <3>3. waiters # <<>>
      BY <3>1
    <3>4. ListsInv'
      BY <1>7, <3>2, <3>3, Zenon DEF RecvExpire, HoldInv, ListsInv
    <3>5. /\ rpc[c] # "returned" /\ c \notin Listed' /\ Listed' \subseteq Listed
          /\ NullOpt \notin Messages /\ UNCHANGED <<queueVars, closeVars, sendVars>>
      BY <1>7, <2>0, <3>2, ValuesAssumption, Zenon DEF RecvExpire
    <3>6. Holds'
      BY <2>0, <2>1, <3>5, ReturnHolds, Zenon
    <3> QED
      BY <3>4, <3>6, Zenon
  <2>2. CASE c \notin Range(waiters) /\ rpc' = [rpc EXCEPT ![c] = "late"]
             /\ UNCHANGED <<waiters, promise, result>>
    BY <1>3, <1>4, <1>7, <2>0, <2>2, MoveHolds, Zenon DEF RecvExpire, RecvStates, Listed
  <2> QED
    BY <1>7, <2>1, <2>2, Zenon DEF RecvExpire
<1>8. CASE RecvLate(c)
  <2>1. c \notin Listed /\ c \in Timed
    BY <1>0, <1>8, Zenon DEF RecvLate, CallInv
  <2> PICK v : v = IF promise[c] = Unset THEN NullOpt ELSE promise[c]
    BY Zenon
  <2>2. v \in Messages \cup {NullOpt} /\ (v \in Messages => v = promise[c]) /\ Return(c, v)
    BY <1>0, <1>8, ValuesAssumption, Zenon DEF RecvLate, Tables
  <2> QED
    BY <1>3, <1>4, <1>8, <2>1, <2>2, ReturnHolds, Zenon DEF RecvLate
<1>9. CASE TryRecv(c) \/ RecvBlocking(c) \/ BlockingExpire(c)
  <2>1. Untaken(c) /\ c \notin Listed /\ c \notin Ending /\ rpc[c] # "returned" /\ UNCHANGED waiters
    BY <1>1, <1>2, <1>9, Zenon DEF TryRecv, RecvBlocking, BlockingExpire
  <2>2. UNCHANGED <<sent, closeVars, sendVars>>
    BY <1>9, Zenon DEF TryRecv, RecvBlocking, BlockingExpire
  <2>3. CASE PopFront(c)
    BY <2>1, <2>2, <2>3, PopFrontHolds, Zenon
  <2>4. CASE Return(c, NullOpt) /\ UNCHANGED <<queue, taken>>
    <3>1. Listed' \subseteq Listed /\ c \notin Listed' /\ NullOpt \notin Messages
      BY <1>4, <2>1, ValuesAssumption, Zenon
    <3>2. UNCHANGED <<queueVars, closeVars, sendVars>>
      BY <2>2, <2>4, Zenon
    <3>3. Holds'
      BY <2>1, <2>4, <3>1, <3>2, ReturnHolds, Zenon
    <3> QED
      BY <1>3, <2>1, <2>2, <2>4, <3>3, Zenon
  <2>5. CASE rpc' = [rpc EXCEPT ![c] = "asleep"] /\ UNCHANGED <<queue, taken, promise, result>>
    BY <1>3, <1>4, <2>1, <2>2, <2>5, MoveHolds, Zenon DEF RecvStates
  <2> QED
    BY <1>9, <2>3, <2>4, <2>5, Zenon DEF TryRecv, RecvBlocking, BlockingExpire
<1>10. CASE SpuriousWakeup(c) \/ Timeout(c)
  <2>1. PICK st \in {"awake", "expired"} :
          /\ rpc' = [rpc EXCEPT ![c] = st]
          /\ st = "expired" => c \in Timed
          /\ st = "awake" => c \in ThreadCalls
    BY <1>10, Zenon DEF SpuriousWakeup, Timeout, RecvTimeout, BlockingTimeout, Asleep
  <2>2. UNCHANGED <<queueVars, waiters, closeVars, sendVars, promise, result>>
    BY <1>10, Zenon DEF SpuriousWakeup, Timeout, RecvTimeout, BlockingTimeout
  <2>3. c \in Listed => Free(c) /\ st \in {"waiting", "expired"}
    BY <1>0, <1>2, <2>1, Zenon DEF CallInv
  <2> QED
    BY <1>3, <1>4, <2>1, <2>2, <2>3, MoveHolds, Zenon DEF RecvStates
<1> QED
  BY <1>5, <1>6, <1>7, <1>8, <1>9, <1>10, Zenon

\* Every step of close() keeps each message in one place.
LEMMA CloseHolds ==
    ASSUME HoldInv, Close \/ CloseNotify \/ CloseResolve
    PROVE  ListsInv' /\ Holds'
<1> USE DEF queueVars, closeVars, sendVars, recvVars
<1>0. Tables
  BY HoldTables, Zenon
<1>1. CASE Close
  <2>1. Listed' = {} /\ Ending' = Listed /\ Queued' = Queued
    BY <1>1, EmptySet, Zenon DEF Close, Listed, Ending, Queued
  <2>2. ListsInv' /\ DeliveredOnce'
    BY <1>1, EmptySet, Zenon DEF Close, HoldInv, ListsInv, DeliveredOnce
  <2>3. ASSUME NEW d \in Calls PROVE CallInv(d)'
    <3>1. CallInv(d)
      BY Zenon DEF HoldInv
    <3> QED
      BY <1>1, <2>1, <3>1, SMTT(30) DEF Close, CallInv, Free, Untaken
  <2>4. ASSUME NEW n \in Messages PROVE SendInv(n)'
    <3>1. SendInv(n)
      BY Zenon DEF HoldInv
    <3> QED
      BY <1>1, <2>1, <3>1, SMTT(30) DEF Close, SendInv
  <2> QED
    BY <2>2, <2>3, <2>4, Zenon DEF Holds
<1>2. CASE CloseNotify
  <2>1. Listed' = Listed /\ Ending' = Ending /\ Queued' = Queued
    BY <1>2, Zenon DEF CloseNotify, Listed, Ending, Queued
  <2>2. ListsInv' /\ DeliveredOnce'
    BY <1>2, Zenon DEF CloseNotify, HoldInv, ListsInv, DeliveredOnce
  <2>3. ASSUME NEW d \in Calls PROVE CallInv(d)'
    <3>1. CallInv(d)
      BY Zenon DEF HoldInv
    <3>2. rpc'[d] = rpc[d] \/ (rpc[d] = "asleep" /\ rpc'[d] = "awake")
      BY <1>0, <1>2, Zenon DEF CloseNotify, Tables, Asleep
    <3>3. Free(d) => Free(d)'
      BY <1>2, Zenon DEF CloseNotify, Free, Untaken
    <3> QED
      BY <1>2, <2>1, <3>1, <3>2, <3>3, SMTT(30) DEF CloseNotify, CallInv
  <2>4. ASSUME NEW n \in Messages PROVE SendInv(n)'
    <3>1. SendInv(n)
      BY Zenon DEF HoldInv
    <3> QED
      BY <1>2, <2>1, <3>1, SMTT(30) DEF CloseNotify, SendInv
  <2> QED
    BY <2>2, <2>3, <2>4, Zenon DEF Holds
<1>3. CASE CloseResolve
  <2> PICK c : c = Head(closing)
    BY Zenon
  <2>1. c \in FiberCalls /\ c \in Ending /\ Ending' = Ending \ {c} /\ IsInjective(closing')
    BY <1>0, <1>3, TailSet, Zenon DEF CloseResolve, HoldInv, TypeOK, ListsInv, Ending
  <2>2. promise' = [promise EXCEPT ![c] = NullOpt] /\ UNCHANGED <<spc, target, rpc, result>>
    BY <1>3, Zenon DEF CloseResolve
  <2>3. Listed' = Listed /\ Queued' = Queued
    BY <1>3, Zenon DEF CloseResolve, Listed, Queued
  <2>4. closed /\ waiters = <<>>
    BY <1>0, <1>3, Zenon DEF CloseResolve, HoldInv, ListsInv, TypeOK
  <2>5. ListsInv' /\ DeliveredOnce'
    BY <1>3, <2>1, <2>4, Zenon DEF CloseResolve, HoldInv, ListsInv, DeliveredOnce
  <2>6. c \in Calls /\ Free(c) /\ rpc[c] # "new" /\ Listed = {}
    BY <2>1, <2>4, EmptySet, Zenon DEF HoldInv, CallInv, Calls, Listed
  <2>7. ASSUME NEW d \in Calls PROVE CallInv(d)'
    <3>1. CallInv(d)
      BY Zenon DEF HoldInv
    <3>2. d # c => (Free(d) => Free(d)')
      BY <1>0, <2>2, Zenon DEF Free, Untaken, Tables
    <3> QED
      BY <1>0, <2>1, <2>2, <2>3, <2>6, <3>1, <3>2, ValuesAssumption, SMTT(30) DEF CallInv, Tables
  <2>8. ASSUME NEW n \in Messages PROVE SendInv(n)'
    <3>1. SendInv(n) /\ target[n] # c
      BY <2>6, Zenon DEF HoldInv, Free, Untaken
    <3> QED
      BY <1>0, <2>2, <2>3, <3>1, SMTT(30) DEF SendInv, Tables, Calls
  <2> QED
    BY <2>5, <2>7, <2>8, Zenon DEF Holds
<1> QED
  BY <1>1, <1>2, <1>3, Zenon

\* Every step of the queue keeps each message in one place.
LEMMA HoldStep == HoldInv /\ [Next]_vars => HoldInv'
<1> SUFFICES ASSUME HoldInv, [Next]_vars PROVE HoldInv'
  BY Zenon
<1>1. TypeOK'
  BY TypeStep, Zenon DEF HoldInv
<1>2. ASSUME ListsInv' /\ Holds' PROVE HoldInv'
  BY <1>1, <1>2, Zenon DEF Holds, HoldInv
<1>3. ASSUME NEW m \in Messages, Send(m) \/ SetValue(m) PROVE HoldInv'
  BY <1>1, <1>2, <1>3, SendHolds, Zenon
<1>4. ASSUME NEW c \in Calls,
             \/ Recv(c) \/ RecvGet(c) \/ RecvExpire(c) \/ RecvLate(c) \/ TryRecv(c)
             \/ RecvBlocking(c) \/ BlockingExpire(c) \/ SpuriousWakeup(c)
             \/ Timeout(c)
      PROVE  HoldInv'
  BY <1>1, <1>2, <1>4, RecvHolds, Zenon
<1>5. CASE Close \/ CloseNotify \/ CloseResolve
  BY <1>1, <1>2, <1>5, CloseHolds, Zenon
<1>6. CASE UNCHANGED vars
  <2> USE <1>6 DEF vars, queueVars, closeVars, sendVars, recvVars
  <2>1. ListsInv' /\ DeliveredOnce'
    BY Zenon DEF HoldInv, ListsInv, DeliveredOnce
  <2>2. Listed' = Listed /\ Ending' = Ending /\ Queued' = Queued
    BY Zenon DEF Listed, Ending, Queued
  <2>3. ASSUME NEW c \in Calls PROVE CallInv(c)'
    BY <2>2 DEF HoldInv, CallInv, Free, Untaken
  <2>4. ASSUME NEW m \in Messages PROVE SendInv(m)'
    BY <2>2, Zenon DEF HoldInv, SendInv
  <2> QED
    BY <1>2, <2>1, <2>3, <2>4, Zenon DEF Holds
<1> QED
  BY <1>3, <1>4, <1>5, <1>6, Zenon DEF Next

\* Each message is in one place, and each promise has one holder, in every
\* state of the queue.
LEMMA HoldInvariance == Spec => []HoldInv
<1>1. Init => HoldInv
  <2> SUFFICES ASSUME Init PROVE HoldInv
    BY Zenon
  <2>1. TypeOK
    BY InitType, Zenon
  <2>2. Listed = {} /\ Ending = {} /\ Queued = {} /\ ListsInv
    BY EmptySet, Zenon DEF Init, Listed, Ending, Queued, ListsInv
  <2>3. /\ \A c \in Calls : rpc[c] = "new" /\ promise[c] = Unset /\ result[c] = Unset
        /\ \A m \in Messages : spc[m] = "new" /\ target[m] = Unset
    BY Zenon DEF Init
  <2> QED
    BY <2>1, <2>2, <2>3, ValuesAssumption, Zenon
    DEF HoldInv, DeliveredOnce, CallInv, SendInv, Free, Untaken
<1> QED
  BY <1>1, HoldStep, PTL DEF Spec

\* A promise in fiber_waiters_ belongs to a call that still waits, has nothing
\* coming from a send and is listed once, and it was not listed while the queue
\* had a message or was closed.
THEOREM ListedWaitersAreSound == Spec => []WaitersSound
<1>1. HoldInv => WaitersSound
  <2> SUFFICES ASSUME HoldInv PROVE WaitersSound
    BY Zenon
  <2>1. ASSUME NEW i \in DOMAIN waiters
        PROVE  /\ rpc[waiters[i]] \in {"waiting", "expired"}
               /\ promise[waiters[i]] = Unset
               /\ \A m \in Messages : target[m] # waiters[i]
    <3>1. waiters[i] \in Calls /\ waiters[i] \in Listed
      BY DEF HoldInv, TypeOK, Calls, Listed, Range
    <3> QED
      BY <3>1, Zenon DEF HoldInv, CallInv, Free, Untaken
  <2> QED
    BY <2>1, Zenon DEF WaitersSound, HoldInv, ListsInv, IsInjective
<1> QED
  BY <1>1, HoldInvariance, PTL

\* Whatever the interleaving of sends, receives, timeouts and close, no message
\* is returned by two receive calls.
THEOREM MessageReturnedOnce == Spec => []DeliveredOnce
<1>1. HoldInv => DeliveredOnce
  BY Zenon DEF HoldInv
<1> QED
  BY <1>1, HoldInvariance, PTL

\* A message that send accepted stays reachable, except when it was handed to a
\* recv_for that had timed out and returned nullopt before set_value ran.
THEOREM OnlyTimeoutLoses == Spec => []LostOnlyToTimeout
<1>1. HoldInv => LostOnlyToTimeout
  <2> SUFFICES ASSUME HoldInv, NEW m \in Messages, spc[m] = "accepted"
               PROVE  Reachable(m) \/ (target[m] \in Timed /\ result[target[m]] = NullOpt)
    BY Zenon DEF LostOnlyToTimeout
  <2>1. SendInv(m) /\ TypeOK
    BY Zenon DEF HoldInv
  <2>2. CASE target[m] = Unset
    BY <2>1, <2>2, Zenon DEF SendInv, Reachable, Queued
  <2>3. CASE target[m] # Unset
    <3>1. target[m] \in FiberCalls /\ target[m] \in Calls /\ promise[target[m]] = m
      BY <2>1, <2>3, Zenon DEF SendInv, TypeOK, Calls
    <3> QED
      BY <2>1, <2>3, <3>1, Zenon DEF SendInv, Reachable, TypeOK
  <2> QED
    BY <2>2, <2>3, Zenon
<1> QED
  BY <1>1, HoldInvariance, PTL

=============================================================================
