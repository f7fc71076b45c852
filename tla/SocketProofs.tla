---------------------------- MODULE SocketProofs ----------------------------
(***************************************************************************)
(* Proofs about Socket for any calls, peers and datagrams: the pairing of  *)
(* accepts and connections in TcpServer, what close() releases, whom a     *)
(* waiting receive refers to, and that the receives of a UDP socket        *)
(* implement a Mailbox while no UdpSocket is destroyed before its close(). *)
(***************************************************************************)
EXTENDS Socket, TLAPS

-----------------------------------------------------------------------------
\* Lists of waiters

\* Erasing position i of a list, of accept_waiters for one, shifts what is behind it.
LEMMA EraseProperties ==
    ASSUME NEW S, NEW s \in Seq(S), NEW i \in 1 .. Len(s)
    PROVE  /\ Erase(s, i) \in Seq(S)
           /\ Len(Erase(s, i)) = Len(s) - 1
           /\ \A k \in 1 .. Len(s) - 1 : Erase(s, i)[k] = IF k < i THEN s[k] ELSE s[k + 1]
<1> DEFINE t == [k \in 1 .. Len(s) - 1 |-> IF k < i THEN s[k] ELSE s[k + 1]]
<1>1. Len(s) - 1 \in Nat /\ \A k \in 1 .. Len(s) - 1 : s[k] \in S /\ s[k + 1] \in S
  OBVIOUS
<1>2. t \in [1 .. Len(s) - 1 -> S]
  BY <1>1, Zenon
<1>3. t \in Seq(S) /\ Len(t) = Len(s) - 1
  BY <1>1, <1>2
<1> QED BY <1>3, Zenon DEF Erase

\* What a list without duplicates holds, and that it has none, after one more
\* element is appended.
LEMMA AppendSet ==
    ASSUME NEW S, NEW s \in Seq(S), NEW e \in S
    PROVE  /\ Range(Append(s, e)) = Range(s) \cup {e}
           /\ IsInjective(s) /\ e \notin Range(s) => IsInjective(Append(s, e))
<1> DEFINE t == Append(s, e)
<1>1. /\ DOMAIN t = 1 .. Len(s) + 1 /\ DOMAIN s = 1 .. Len(s) /\ Len(s) \in Nat
      /\ t[Len(s) + 1] = e /\ \A i \in 1 .. Len(s) : t[i] = s[i]
  OBVIOUS
<1> HIDE DEF t
<1>2. Range(t) = Range(s) \cup {e}
  BY <1>1, SMTT(30) DEF Range
<1>3. IsInjective(s) /\ e \notin Range(s) => IsInjective(t)
  BY <1>1, SMTT(30) DEF Range, IsInjective
<1> QED
  BY <1>2, <1>3, Zenon DEF t

\* The same after its head is taken away.
LEMMA TailSet ==
    ASSUME NEW S, NEW s \in Seq(S), s # <<>>, IsInjective(s)
    PROVE  /\ Head(s) \in S /\ Head(s) \in Range(s)
           /\ Range(Tail(s)) = Range(s) \ {Head(s)}
           /\ IsInjective(Tail(s))
<1> DEFINE t == Tail(s)
<1>1. /\ DOMAIN t = 1 .. Len(s) - 1 /\ DOMAIN s = 1 .. Len(s) /\ Len(s) \in Nat \ {0}
      /\ Head(s) = s[1] /\ \A i \in 1 .. Len(s) - 1 : t[i] = s[i + 1]
      /\ Head(s) \in S
  OBVIOUS
<1> HIDE DEF t
<1>2. Head(s) \in Range(s)
  BY <1>1 DEF Range
<1>3. Range(t) = Range(s) \ {Head(s)}
  <2>1. ASSUME NEW x \in Range(t) PROVE x \in Range(s) \ {Head(s)}
    <3>1. PICK i \in 1 .. Len(s) - 1 : x = t[i]
      BY <1>1, <2>1, Zenon DEF Range
    <3>2. i + 1 \in DOMAIN s /\ x = s[i + 1] /\ 1 \in DOMAIN s /\ i + 1 # 1
      BY <1>1, <3>1
    <3> QED
      BY <1>1, <3>2, Zenon DEF Range, IsInjective
  <2>2. ASSUME NEW x \in Range(s), x # Head(s) PROVE x \in Range(t)
    <3>1. PICK i \in 1 .. Len(s) : x = s[i]
      BY <1>1, <2>2, Zenon DEF Range
    <3>2. i - 1 \in DOMAIN t /\ t[i - 1] = s[(i - 1) + 1] /\ (i - 1) + 1 = i
      BY <1>1, <2>2, <3>1
    <3> QED
      BY <3>1, <3>2, Zenon DEF Range
  <2> QED
    BY <2>1, <2>2, Zenon
<1>4. IsInjective(t)
  <2> SUFFICES ASSUME NEW i \in DOMAIN t, NEW j \in DOMAIN t, t[i] = t[j] PROVE i = j
    BY Zenon DEF IsInjective
  <2>1. i + 1 \in DOMAIN s /\ j + 1 \in DOMAIN s /\ s[i + 1] = s[j + 1]
    BY <1>1
  <2>2. i + 1 = j + 1
    BY <2>1, Zenon DEF IsInjective
  <2> QED
    BY <1>1, <2>2
<1> QED
  BY <1>1, <1>2, <1>3, <1>4, Zenon DEF t

\* The same after position i is erased.
LEMMA EraseSet ==
    ASSUME NEW S, NEW s \in Seq(S), NEW i \in 1 .. Len(s), IsInjective(s)
    PROVE  /\ Range(Erase(s, i)) = Range(s) \ {s[i]}
           /\ IsInjective(Erase(s, i))
<1> DEFINE t == Erase(s, i)
<1>1. /\ t \in Seq(S) /\ Len(t) = Len(s) - 1
      /\ \A k \in 1 .. Len(s) - 1 : t[k] = IF k < i THEN s[k] ELSE s[k + 1]
  BY EraseProperties, Zenon
<1> HIDE DEF t
<1>2. DOMAIN t = 1 .. Len(s) - 1 /\ DOMAIN s = 1 .. Len(s) /\ Len(s) \in Nat \ {0}
  BY <1>1
<1> DEFINE Old(k) == IF k < i THEN k ELSE k + 1
<1>3. \A k \in DOMAIN t : Old(k) \in DOMAIN s /\ Old(k) # i /\ t[k] = s[Old(k)]
  BY <1>1, <1>2, SMTT(30)
<1>4. \A k \in DOMAIN s \ {i} : \E l \in DOMAIN t : Old(l) = k
  <2> SUFFICES ASSUME NEW k \in DOMAIN s \ {i} PROVE \E l \in DOMAIN t : Old(l) = k
    BY Zenon
  <2>1. CASE k < i
    BY <1>2, <2>1
  <2>2. CASE ~(k < i)
    <3>1. k - 1 \in DOMAIN t /\ Old(k - 1) = k
      BY <1>2, <2>2
    <3> QED
      BY <3>1, Zenon
  <2> QED
    BY <2>1, <2>2, Zenon
<1>5. \A k, l \in DOMAIN t : Old(k) = Old(l) => k = l
  BY <1>2, SMTT(30)
<1> HIDE DEF Old
<1>6. i \in DOMAIN s
  BY <1>2, Zenon
<1>7. Range(t) = Range(s) \ {s[i]}
  BY <1>3, <1>4, <1>6, SMTT(30) DEF Range, IsInjective
<1>8. IsInjective(t)
  BY <1>3, <1>5, SMTT(30) DEF IsInjective
<1> QED
  BY <1>7, <1>8, Zenon DEF t

\* The same after e is looked for and erased, as accept_for() does with its promise.
LEMMA ErasedSet ==
    ASSUME NEW S, NEW s \in Seq(S), IsInjective(s), NEW e
    PROVE  /\ Erased(s, e) \in Seq(S)
           /\ Range(Erased(s, e)) = Range(s) \ {e}
           /\ IsInjective(Erased(s, e))
<1>0. DOMAIN s = 1 .. Len(s)
  OBVIOUS
<1>1. CASE e \notin Range(s)
  BY <1>1, Zenon DEF Erased
<1>2. ASSUME NEW i \in 1 .. Len(s), s[i] = e
      PROVE  /\ Erased(s, e) \in Seq(S)
             /\ Range(Erased(s, e)) = Range(s) \ {e}
             /\ IsInjective(Erased(s, e))
  <2>1. e \in Range(s)
    BY <1>0, <1>2, Zenon DEF Range
  <2>2. \A k \in DOMAIN s : s[k] = e => k = i
    BY <1>0, <1>2, Zenon DEF IsInjective
  <2>3. Erased(s, e) = Erase(s, i)
    <3>1. i = CHOOSE k \in DOMAIN s : s[k] = e /\ \A j \in 1 .. k - 1 : s[j] # e
      BY <1>0, <1>2, <2>2
    <3> QED BY <2>1, <3>1, Zenon DEF Erased
  <2>4. Erase(s, i) \in Seq(S)
    BY EraseProperties, Zenon
  <2>5. Range(Erase(s, i)) = Range(s) \ {s[i]} /\ IsInjective(Erase(s, i))
    BY EraseSet, Zenon
  <2> QED BY <1>2, <2>3, <2>4, <2>5, Zenon
<1> QED BY <1>0, <1>1, <1>2, Zenon DEF Range

-----------------------------------------------------------------------------
(* The invariants *)

AcceptAnswers ==
    {"new", "unused", "waiting", "error", "timeout", "init", "bind", "ok"} \cup Range(Peers)

Servers == [exists : BOOLEAN, listening : BOOLEAN, keepalive : BOOLEAN,
            uv : {"gone", "open", "closing"}, failed : BOOLEAN,
            accepted : Seq(Range(Peers)), waiters : Seq(Accepts)]

ServerTypes ==
    /\ loop \in {"running", "dying", "dead"}
    /\ server \in Servers
    /\ ending \in [owned : Nat, orphaned : Nat]
    /\ came \in 0 .. Len(Peers)
    /\ acall \in [ServerCalls -> AcceptAnswers]

\* Who waits is listed once, and only while no connection is queued.
WaitInv ==
    /\ server.waiters # <<>> => server.accepted = <<>>
    /\ IsInjective(server.waiters)
    /\ \A c \in Accepts : acall[c] = "waiting" <=> c \in Range(server.waiters)

\* A connection is still to come, or is queued once, or was given to one call.
PeerInv ==
    /\ IsInjective(server.accepted)
    /\ \A i \in DOMAIN Peers : i > came =>
          Peers[i] \notin Range(server.accepted) /\ \A c \in Accepts : acall[c] # Peers[i]
    /\ \A c, d \in Accepts : acall[c] \in Range(Peers) =>
          acall[c] \notin Range(server.accepted) /\ (acall[d] = acall[c] => d = c)

\* Only a server that listens owns itself, and failed is never forgotten.
OwnInv ==
    /\ server.uv = "open" /\ ~server.keepalive => server.failed
    /\ ending.orphaned > 0 => server.failed

ServerInv == ServerTypes /\ WaitInv /\ PeerInv /\ OwnInv

Items == {Packets[i] : i \in DOMAIN Packets}

Udps == [exists : BOOLEAN, bound : BOOLEAN, closing : BOOLEAN, closed : BOOLEAN,
         pending : Recvs \cup {None}, buffered : {<<>>}, waiters : SUBSET Closes,
         keepalive : BOOLEAN]

\* The types of the UDP socket.  Nothing is ever buffered: see ReceivingForOne.
UdpTypes ==
    /\ udp \in Udps
    /\ uhandle \in [state : {"gone", "open", "closing"}, cb : BOOLEAN, receiving : BOOLEAN,
                    sends : SUBSET Sends]
    /\ delivered \in 0 .. Len(Packets)
    /\ ucall \in [UdpCalls -> {"new", "unused", "waiting", "ok", "error", "timeout"} \cup Items]

\* An open handle receives only for a receive that waits.
ReceivingForOne ==
    uhandle.receiving /\ uhandle.state = "open" => is_loop_alive /\ udp.pending # None

Socks == [type : {"tcp", "udp"}, closed : BOOLEAN, listening : BOOLEAN, local : BOOLEAN,
          peer : BOOLEAN, conn : Connects \cup {None},
          stray : SUBSET (Connects \cup {"server", "udp"})]

Links == [state : {"none", "open", "walked", "closing", "closed"}, reader : Recvs \cup {None}]

SockTypes ==
    /\ sock \in Socks
    /\ link \in [Connects -> Links]
    /\ ccall \in [Connects -> {"new", "unused", "error", "waiting", "ok"}]
    /\ closer \in [Closes -> [at : {"new", "unused", "conn", "udp", "reset", "done"},
                              on : Connects \cup {None}]]

\* A socket of one type leaves what belongs to the other alone.
KindInv ==
    /\ sock.type = "udp" =>
          /\ server.uv = "gone" /\ sock.conn = None
          /\ \A k \in Connects : link[k] = [state |-> "none", reader |-> None] /\ ccall[k] # "waiting"
          /\ \A c \in Closes : closer[c].at # "conn"
    /\ sock.type = "tcp" => uhandle.state = "gone" /\ \A c \in Closes : closer[c].at # "udp"

\* An open connection is in the slot or stray, and past a close both.
SlotInv ==
    /\ \A k \in Connects : link[k].state = "open" => sock.conn = k \/ k \in sock.stray
    /\ Past => sock.conn = None \/ sock.conn \in sock.stray
    /\ \A k \in Connects : link[k].state = "closed" => link[k].reader = None
    /\ \A c \in Closes : closer[c].at = "conn" => closer[c].on \in Connects

\* What a closed socket has open besides was stored in it past the close.
LeftInv ==
    /\ sock.closed /\ server.uv = "open" => "server" \in sock.stray
    /\ is_loop_alive /\ uhandle.state = "open" => ~udp.closed /\ (Past => "udp" \in sock.stray)

UdpInv == UdpTypes /\ ReceivingForOne
SockInv == SockTypes /\ KindInv /\ SlotInv /\ LeftInv /\ RecvOwned
SocketInv == ServerInv /\ UdpInv /\ SockInv

-----------------------------------------------------------------------------
(* The server *)

\* The elements of Peers and of the lists, and how many there are.
LEMMA ServerFacts ==
    ASSUME ServerTypes
    PROVE  /\ server.waiters \in Seq(Accepts) /\ server.accepted \in Seq(Range(Peers))
           /\ DOMAIN Peers = 1 .. Len(Peers) /\ Len(Peers) \in Nat
           /\ \A i \in DOMAIN Peers : Peers[i] \in Range(Peers)
           /\ Accepts \subseteq ServerCalls /\ Listens \subseteq ServerCalls
BY PeersAssumption DEF ServerTypes, Servers, Range, ServerCalls

\* The lists and the answers to accept() are left alone.
SameQueue ==
    /\ server'.waiters = server.waiters /\ server'.accepted = server.accepted
    /\ came' = came /\ \A c \in Accepts : acall'[c] = acall[c]

\* Then so is what is said of them.
LEMMA QueueSame ==
    ASSUME WaitInv, PeerInv, SameQueue
    PROVE  WaitInv' /\ PeerInv'
<1>1. WaitInv'
  BY Zenon DEF WaitInv, SameQueue
<1>2. PeerInv'
  BY Zenon DEF PeerInv, SameQueue
<1> QED BY <1>1, <1>2, Zenon

\* One accept gets an answer that is not a connection, and nothing is queued.
LEMMA PeerRefused ==
    ASSUME ServerTypes, PeerInv, NEW c \in Accepts, NEW o, o \notin Range(Peers),
           acall' = [acall EXCEPT ![c] = o], server'.accepted = server.accepted, came' = came
    PROVE  PeerInv'
<1>1. \A d \in Accepts : acall'[d] = IF d = c THEN o ELSE acall[d]
  BY Zenon DEF ServerTypes, ServerCalls
<1>2. \A j \in DOMAIN Peers : Peers[j] \in Range(Peers)
  BY ServerFacts, Zenon
<1> QED BY <1>1, <1>2 DEF PeerInv

\* One accept gets a connection that was queued or has just come in.
LEMMA PeerGiven ==
    ASSUME ServerTypes, PeerInv, NEW c \in Accepts, NEW p \in Range(Peers),
           \A d \in Accepts : acall[d] # p,
           acall' = [acall EXCEPT ![c] = p],
           Range(server'.accepted) \subseteq Range(server.accepted) \ {p},
           IsInjective(server'.accepted), came' \in Nat, came' >= came,
           \A j \in DOMAIN Peers : j > came' => Peers[j] # p
    PROVE  PeerInv'
<1>1. \A d \in Accepts : acall'[d] = IF d = c THEN p ELSE acall[d]
  BY Zenon DEF ServerTypes, ServerCalls
<1>2. \A j \in DOMAIN Peers : j > came' => j > came
  BY ServerFacts DEF ServerTypes
<1> QED BY <1>1, <1>2 DEF PeerInv

\* A listen() leaves the lists alone and makes the server keep itself alive, or
\* notes that it failed.
LEMMA ListenServer ==
    ASSUME ServerInv, NEW c \in Listens, NEW o \in {"init", "bind", "ok"}, Listen(c, o)
    PROVE  ServerInv'
<1>0. /\ acall' = [acall EXCEPT ![c] = o] /\ UNCHANGED <<loop, ending, came>>
      /\ server' = Listening([server EXCEPT !.exists = TRUE], o)
  BY Zenon DEF Listen, AcceptAnswer
<1>1. /\ server' \in Servers /\ server'.waiters = server.waiters
      /\ server'.accepted = server.accepted /\ (server.failed => server'.failed)
      /\ (server'.uv = "open" /\ ~server'.keepalive => server'.failed)
  BY <1>0, Zenon DEF Listening, ServerInv, ServerTypes, Servers, OwnInv
<1>2. acall' \in [ServerCalls -> AcceptAnswers]
  BY <1>0, Zenon DEF ServerInv, ServerTypes, ServerCalls, AcceptAnswers
<1>3. \A d \in Accepts : acall'[d] = acall[d]
  BY <1>0, AcceptsAssumption, Zenon DEF ServerInv, ServerTypes, ServerCalls
<1>4. WaitInv' /\ PeerInv'
  BY <1>0, <1>1, <1>3, QueueSame, Zenon DEF ServerInv, SameQueue
<1>5. OwnInv'
  BY <1>0, <1>1, Zenon DEF ServerInv, OwnInv
<1> QED BY <1>0, <1>1, <1>2, <1>4, <1>5, Zenon DEF ServerInv, ServerTypes

\* A connection that comes in goes to the first accept that waits, or is queued.
LEMMA ConnectionServer ==
    ASSUME ServerInv, NEW ok \in BOOLEAN, OnConnection(ok)
    PROVE  ServerInv'
<1> DEFINE p == Peers[came + 1]
<1>0. /\ came' = came + 1 /\ came < Len(Peers) /\ UNCHANGED <<loop, ending>>
      /\ IF ok THEN Dispatch(p) ELSE UNCHANGED <<server, acall>>
  BY Zenon DEF OnConnection
<1>1. /\ came + 1 \in DOMAIN Peers /\ p \in Range(Peers) /\ came' \in 0 .. Len(Peers)
      /\ \A j \in DOMAIN Peers : j > came' => j > came /\ Peers[j] # p
  BY <1>0, ServerFacts, PeersAssumption DEF ServerInv, ServerTypes, IsInjective
<1>2. p \notin Range(server.accepted) /\ \A d \in Accepts : acall[d] # p
  BY <1>0, <1>1 DEF ServerInv, PeerInv, ServerTypes
<1> HIDE DEF p
<1>3. CASE ~ok
  <2>1. UNCHANGED <<server, acall>>
    BY <1>0, <1>3, Zenon
  <2>2. ServerTypes' /\ WaitInv' /\ OwnInv'
    BY <1>0, <1>1, <2>1, Zenon DEF ServerInv, ServerTypes, WaitInv, OwnInv
  <2>3. PeerInv'
    BY <1>1, <2>1, Zenon DEF ServerInv, PeerInv
  <2> QED BY <2>2, <2>3, Zenon DEF ServerInv
<1>4. CASE ok /\ server.waiters # <<>>
  <2> DEFINE c == Head(server.waiters)
  <2>1. acall' = [acall EXCEPT ![c] = p] /\ server' = [server EXCEPT !.waiters = Tail(@)]
    BY <1>0, <1>4, Zenon DEF Dispatch, AcceptAnswer
  <2>2. /\ c \in Accepts /\ c \in Range(server.waiters)
        /\ Range(Tail(server.waiters)) = Range(server.waiters) \ {c}
        /\ IsInjective(Tail(server.waiters)) /\ Tail(server.waiters) \in Seq(Accepts)
    BY <1>4, ServerFacts, TailSet DEF ServerInv, WaitInv
  <2> HIDE DEF c
  <2>3. /\ server' \in Servers /\ server'.waiters = Tail(server.waiters)
        /\ server'.accepted = server.accepted /\ server'.failed = server.failed
        /\ server'.uv = server.uv /\ server'.keepalive = server.keepalive
    BY <2>1, <2>2, Zenon DEF ServerInv, ServerTypes, Servers
  <2>4. acall' \in [ServerCalls -> AcceptAnswers]
    BY <1>1, <2>1, <2>2, Zenon DEF ServerInv, ServerTypes, ServerCalls, AcceptAnswers
  <2>5. \A d \in Accepts : acall'[d] = IF d = c THEN p ELSE acall[d]
    BY <2>1, Zenon DEF ServerInv, ServerTypes, ServerCalls
  <2>6. p # "waiting"
    BY <1>1, PeersAssumption, Zenon
  <2>7. WaitInv'
    BY <1>4, <2>2, <2>3, <2>5, <2>6, Zenon DEF ServerInv, WaitInv
  <2>8. came' \in Nat /\ came' >= came
    BY <1>0 DEF ServerInv, ServerTypes
  <2>9. IsInjective(server'.accepted) /\ Range(server'.accepted) \subseteq Range(server.accepted) \ {p}
    BY <1>2, <2>3, Zenon DEF ServerInv, PeerInv
  <2>10. PeerInv'
    BY <1>1, <1>2, <2>1, <2>2, <2>8, <2>9, PeerGiven, Zenon DEF ServerInv
  <2>11. OwnInv'
    BY <1>0, <2>3, Zenon DEF ServerInv, OwnInv
  <2> QED BY <1>0, <1>1, <2>3, <2>4, <2>7, <2>10, <2>11, Zenon DEF ServerInv, ServerTypes
<1>5. CASE ok /\ server.waiters = <<>>
  <2>1. acall' = acall /\ server' = [server EXCEPT !.accepted = Append(@, p)]
    BY <1>0, <1>5, Zenon DEF Dispatch
  <2>2. /\ Range(Append(server.accepted, p)) = Range(server.accepted) \cup {p}
        /\ IsInjective(Append(server.accepted, p)) /\ Append(server.accepted, p) \in Seq(Range(Peers))
    BY <1>1, <1>2, ServerFacts, AppendSet DEF ServerInv, PeerInv
  <2>3. /\ server' \in Servers /\ server'.waiters = server.waiters
        /\ server'.accepted = Append(server.accepted, p) /\ server'.failed = server.failed
        /\ server'.uv = server.uv /\ server'.keepalive = server.keepalive
    BY <2>1, <2>2, Zenon DEF ServerInv, ServerTypes, Servers
  <2>4. WaitInv' /\ OwnInv'
    BY <1>0, <1>5, <2>1, <2>3, Zenon DEF ServerInv, WaitInv, OwnInv
  <2>5. PeerInv'
    BY <1>1, <1>2, <2>1, <2>2, <2>3, Zenon DEF ServerInv, PeerInv
  <2> QED BY <1>0, <1>1, <2>1, <2>3, <2>4, <2>5, Zenon DEF ServerInv, ServerTypes
<1> QED BY <1>3, <1>4, <1>5, Zenon

\* An accept is refused, takes the first connection queued, or waits behind the others.
LEMMA AcceptServer ==
    ASSUME ServerInv, NEW c \in Accepts, Accept(c)
    PROVE  ServerInv'
<1>0. acall[c] = "new" /\ UNCHANGED <<loop, ending, came>>
  BY Zenon DEF Accept, AcceptFrom
<1>1. c \notin Range(server.waiters)
  BY <1>0, Zenon DEF ServerInv, WaitInv
<1>2. CASE acall' = [acall EXCEPT ![c] = "error"] /\ UNCHANGED server
  <2>1. acall' \in [ServerCalls -> AcceptAnswers]
    BY <1>2, Zenon DEF ServerInv, ServerTypes, ServerCalls, AcceptAnswers
  <2>2. \A d \in Accepts : acall'[d] = IF d = c THEN "error" ELSE acall[d]
    BY <1>2, Zenon DEF ServerInv, ServerTypes, ServerCalls
  <2>3. WaitInv'
    BY <1>1, <1>2, <2>2 DEF ServerInv, WaitInv
  <2>4. "error" \notin Range(Peers)
    BY PeersAssumption, Zenon
  <2>5. PeerInv'
    BY <1>0, <1>2, <2>4, PeerRefused, Zenon DEF ServerInv
  <2>6. OwnInv'
    BY <1>0, <1>2, Zenon DEF ServerInv, OwnInv
  <2> QED BY <1>0, <1>2, <2>1, <2>3, <2>5, <2>6, Zenon DEF ServerInv, ServerTypes
<1>3. CASE /\ server.accepted # <<>> /\ acall' = [acall EXCEPT ![c] = Head(server.accepted)]
           /\ server' = [server EXCEPT !.accepted = Tail(@)]
  <2> DEFINE p == Head(server.accepted)
  <2>1. /\ p \in Range(Peers) /\ p \in Range(server.accepted)
        /\ Range(Tail(server.accepted)) = Range(server.accepted) \ {p}
        /\ IsInjective(Tail(server.accepted)) /\ Tail(server.accepted) \in Seq(Range(Peers))
    BY <1>3, ServerFacts, TailSet DEF ServerInv, PeerInv
  <2>2. acall' = [acall EXCEPT ![c] = p]
    BY <1>3, Zenon
  <2> HIDE DEF p
  <2>3. /\ server' \in Servers /\ server'.waiters = server.waiters
        /\ server'.accepted = Tail(server.accepted) /\ server'.failed = server.failed
        /\ server'.uv = server.uv /\ server'.keepalive = server.keepalive
    BY <1>3, <2>1, Zenon DEF ServerInv, ServerTypes, Servers
  <2>4. acall' \in [ServerCalls -> AcceptAnswers]
    BY <2>1, <2>2, Zenon DEF ServerInv, ServerTypes, ServerCalls, AcceptAnswers
  <2>5. \A d \in Accepts : acall'[d] = IF d = c THEN p ELSE acall[d]
    BY <2>2, Zenon DEF ServerInv, ServerTypes, ServerCalls
  <2>6. p # "waiting"
    BY <2>1, PeersAssumption, Zenon
  <2>7. WaitInv'
    BY <1>1, <1>3, <2>3, <2>5, <2>6, Zenon DEF ServerInv, WaitInv
  <2>8. came' \in Nat /\ came' >= came
    BY <1>0 DEF ServerInv, ServerTypes
  <2>9. /\ IsInjective(server'.accepted)
        /\ Range(server'.accepted) \subseteq Range(server.accepted) \ {p}
        /\ \A d \in Accepts : acall[d] # p
        /\ \A j \in DOMAIN Peers : j > came' => Peers[j] # p
    BY <1>0, <2>1, <2>3, Zenon DEF ServerInv, PeerInv
  <2>10. PeerInv'
    BY <2>1, <2>2, <2>8, <2>9, PeerGiven, Zenon DEF ServerInv
  <2>11. OwnInv'
    BY <1>0, <2>3, Zenon DEF ServerInv, OwnInv
  <2> QED BY <1>0, <2>3, <2>4, <2>7, <2>10, <2>11, Zenon DEF ServerInv, ServerTypes
<1>4. CASE /\ server.accepted = <<>> /\ acall' = [acall EXCEPT ![c] = "waiting"]
           /\ server' = [server EXCEPT !.waiters = Append(@, c)]
  <2>1. /\ Range(Append(server.waiters, c)) = Range(server.waiters) \cup {c}
        /\ IsInjective(Append(server.waiters, c)) /\ Append(server.waiters, c) \in Seq(Accepts)
    BY <1>1, ServerFacts, AppendSet DEF ServerInv, WaitInv
  <2>2. /\ server' \in Servers /\ server'.waiters = Append(server.waiters, c)
        /\ server'.accepted = server.accepted /\ server'.failed = server.failed
        /\ server'.uv = server.uv /\ server'.keepalive = server.keepalive
    BY <1>4, <2>1, Zenon DEF ServerInv, ServerTypes, Servers
  <2>3. acall' \in [ServerCalls -> AcceptAnswers]
    BY <1>4, Zenon DEF ServerInv, ServerTypes, ServerCalls, AcceptAnswers
  <2>4. \A d \in Accepts : acall'[d] = IF d = c THEN "waiting" ELSE acall[d]
    BY <1>4, Zenon DEF ServerInv, ServerTypes, ServerCalls
  <2>5. WaitInv'
    BY <1>4, <2>1, <2>2, <2>4 DEF ServerInv, WaitInv
  <2>6. "waiting" \notin Range(Peers)
    BY PeersAssumption, Zenon
  <2>7. PeerInv'
    BY <1>0, <1>4, <2>2, <2>6, PeerRefused, Zenon DEF ServerInv
  <2>8. OwnInv'
    BY <1>0, <2>2, Zenon DEF ServerInv, OwnInv
  <2> QED BY <1>0, <2>2, <2>3, <2>5, <2>7, <2>8, Zenon DEF ServerInv, ServerTypes
<1> QED BY <1>2, <1>3, <1>4, Zenon DEF Accept, AcceptFrom, AcceptAnswer

\* accept_for() that gives up takes its promise out of the list.
LEMMA TimeoutServer ==
    ASSUME ServerInv, NEW c \in Accepts, AcceptTimeout(c)
    PROVE  ServerInv'
<1> DEFINE rest == Erased(server.waiters, c)
<1>0. /\ acall' = [acall EXCEPT ![c] = "timeout"] /\ UNCHANGED <<loop, ending, came>>
      /\ server' = [server EXCEPT !.waiters = rest]
  BY Zenon DEF AcceptTimeout, AcceptAnswer
<1>1. rest \in Seq(Accepts) /\ Range(rest) = Range(server.waiters) \ {c} /\ IsInjective(rest)
  BY ServerFacts, ErasedSet, Zenon DEF ServerInv, WaitInv
<1>2. c \in Range(server.waiters)
  BY Zenon DEF AcceptTimeout, ServerInv, WaitInv
<1> HIDE DEF rest
<1>3. /\ server' \in Servers /\ server'.waiters = rest
      /\ server'.accepted = server.accepted /\ server'.failed = server.failed
      /\ server'.uv = server.uv /\ server'.keepalive = server.keepalive
  BY <1>0, <1>1, Zenon DEF ServerInv, ServerTypes, Servers
<1>4. acall' \in [ServerCalls -> AcceptAnswers]
  BY <1>0, Zenon DEF ServerInv, ServerTypes, ServerCalls, AcceptAnswers
<1>5. \A d \in Accepts : acall'[d] = IF d = c THEN "timeout" ELSE acall[d]
  BY <1>0, Zenon DEF ServerInv, ServerTypes, ServerCalls
<1>6. server.waiters # <<>>
  BY <1>2 DEF Range
<1>7. WaitInv'
  BY <1>1, <1>3, <1>5, <1>6, Zenon DEF ServerInv, WaitInv
<1>8. "timeout" \notin Range(Peers)
  BY PeersAssumption, Zenon
<1>9. PeerInv'
  BY <1>0, <1>3, <1>8, PeerRefused, Zenon DEF ServerInv
<1>10. OwnInv'
  BY <1>0, <1>3, Zenon DEF ServerInv, OwnInv
<1> QED BY <1>0, <1>3, <1>4, <1>7, <1>9, <1>10, Zenon DEF ServerInv, ServerTypes

\* close() refuses every accept that waits, and its handle is owned unless a
\* listen() had failed.
LEMMA CloseServer ==
    ASSUME ServerInv, ServerClose, UNCHANGED loop
    PROVE  ServerInv'
<1>0. /\ acall' = [d \in ServerCalls |->
                      IF d \in Range(server.waiters) THEN "error" ELSE acall[d]]
      /\ server' = [NoServer EXCEPT !.failed = server.failed] /\ came' = came
  BY Zenon DEF ServerClose
<1>1. \A d \in ServerCalls : acall'[d] = "error" \/ acall'[d] = acall[d]
  BY <1>0, Zenon
<1>2. /\ server' \in Servers /\ server'.waiters = <<>> /\ server'.accepted = <<>>
      /\ server'.failed = server.failed /\ server'.uv = "gone"
  <2>1. server' = [exists |-> FALSE, listening |-> FALSE, keepalive |-> FALSE, uv |-> "gone",
                   failed |-> server.failed, accepted |-> <<>>, waiters |-> <<>>]
    BY <1>0, Zenon DEF NoServer
  <2>2. server.failed \in BOOLEAN
    BY Zenon DEF ServerInv, ServerTypes, Servers
  <2> QED BY <2>1, <2>2 DEF Servers
<1>3. acall' \in [ServerCalls -> AcceptAnswers]
  BY <1>0, Zenon DEF ServerInv, ServerTypes, AcceptAnswers
<1>4. Range(<<>>) = {} /\ IsInjective(<<>>)
  BY DEF Range, IsInjective
<1>5. \A d \in Accepts : acall'[d] # "waiting"
  <2> SUFFICES ASSUME NEW d \in Accepts PROVE acall'[d] # "waiting"
    BY Zenon
  <2> QED BY <1>0, Zenon DEF ServerInv, WaitInv, ServerCalls
<1>6. WaitInv'
  BY <1>2, <1>4, <1>5, Zenon DEF WaitInv
<1>7. "error" \notin Range(Peers) /\ \A j \in DOMAIN Peers : Peers[j] \in Range(Peers)
  BY PeersAssumption, ServerFacts, Zenon DEF ServerInv
<1>8. \A d \in Accepts : acall'[d] \in Range(Peers) => acall'[d] = acall[d]
  BY <1>1, <1>7, Zenon DEF ServerCalls
<1>9. PeerInv'
  BY <1>0, <1>2, <1>4, <1>7, <1>8 DEF ServerInv, PeerInv
<1>10. /\ ending' \in [owned : Nat, orphaned : Nat]
       /\ ending'.orphaned > 0 => ending.orphaned > 0 \/ (server.uv = "open" /\ ~server.keepalive)
  BY DEF ServerClose, ServerInv, ServerTypes
<1>11. OwnInv'
  BY <1>2, <1>10, Zenon DEF ServerInv, OwnInv
<1> QED BY <1>0, <1>2, <1>3, <1>6, <1>9, <1>10, <1>11, Zenon DEF ServerInv, ServerTypes

\* The close callbacks, and the walk of ~EventLoop.
LEMMA EndingServer ==
    ASSUME ServerInv,
           \/ OnServerClosed \/ OnServerWalked
           \/ ServerWalk /\ loop' \in {"running", "dying", "dead"} /\ UNCHANGED <<ending, came, acall>>
    PROVE  ServerInv'
<1>1. CASE OnServerClosed
  <2>1. UNCHANGED <<loop, server, came, acall>>
    BY <1>1, Zenon DEF OnServerClosed
  <2>2. PICK h \in DOMAIN ending : ending[h] > 0 /\ ending' = [ending EXCEPT ![h] = @ - 1]
    BY <1>1, Zenon DEF OnServerClosed
  <2>3. h = "owned" \/ h = "orphaned"
    BY <2>2, Zenon DEF ServerInv, ServerTypes
  <2>4. ending' \in [owned : Nat, orphaned : Nat] /\ (ending'.orphaned > 0 => ending.orphaned > 0)
    <3>1. CASE h = "owned"
      BY <2>2, <3>1 DEF ServerInv, ServerTypes
    <3>2. CASE h = "orphaned"
      BY <2>2, <3>2 DEF ServerInv, ServerTypes
    <3> QED BY <2>3, <3>1, <3>2, Zenon
  <2>5. WaitInv' /\ PeerInv'
    BY <2>1, QueueSame, Zenon DEF ServerInv, SameQueue
  <2> QED BY <2>1, <2>4, <2>5, Zenon DEF ServerInv, ServerTypes, OwnInv
<1>2. CASE \/ OnServerWalked
           \/ ServerWalk /\ loop' \in {"running", "dying", "dead"} /\ UNCHANGED <<ending, came, acall>>
  <2>1. /\ UNCHANGED <<ending, came, acall>> /\ loop' \in {"running", "dying", "dead"}
        /\ server' \in Servers /\ server'.uv # "open" /\ server'.failed = server.failed
        /\ server'.waiters = server.waiters /\ server'.accepted = server.accepted
    BY <1>2 DEF OnServerWalked, ServerWalk, ServerInv, ServerTypes, Servers
  <2>2. WaitInv' /\ PeerInv'
    BY <2>1, QueueSame, Zenon DEF ServerInv, SameQueue
  <2> QED BY <2>1, <2>2, Zenon DEF ServerInv, ServerTypes, OwnInv
<1> QED BY <1>1, <1>2, Zenon

\* The steps of everything else.
LEMMA OtherServer ==
    ASSUME ServerInv, UNCHANGED serverVars, loop' \in {"running", "dying", "dead"}
    PROVE  ServerInv'
<1>1. WaitInv' /\ PeerInv'
  BY QueueSame, Zenon DEF ServerInv, SameQueue, serverVars
<1> QED BY <1>1, Zenon DEF ServerInv, ServerTypes, OwnInv, serverVars

\* Every step of a socket keeps the invariant of its server.
LEMMA ServerStep ==
    ASSUME ServerInv, [Next]_vars
    PROVE  ServerInv'
<1>0. loop \in {"running", "dying", "dead"}
  BY Zenon DEF ServerInv, ServerTypes
<1>1. CASE Callback
  <2>1. CASE OnServerClosed \/ OnServerWalked
    BY <2>1, EndingServer, Zenon
  <2>2. CASE UNCHANGED serverVars /\ UdpCallback
    <3>1. UNCHANGED loop
      BY <2>2, Zenon DEF UdpCallback, OnUdpClosed, OnUdpRecvError, OnUdpRecv, OnUdpSend
    <3> QED BY <1>0, <2>2, <3>1, OtherServer, Zenon
  <2>3. ASSUME NEW k \in Connects, OnLinkClosed(k) PROVE ServerInv'
    BY <1>0, <2>3, OtherServer, Zenon DEF OnLinkClosed
  <2> QED BY <1>1, <2>1, <2>2, <2>3, Zenon DEF Callback
<1>2. ASSUME NEW c \in Closes, CloseTcpResumes(c) \/ CloseTcpReset(c) \/ CloseUdpResumes(c) \/
             CloseDead(c) \/ CloseTcp(c) \/ CloseUdp(c)
      PROVE  ServerInv'
  <2>1. UNCHANGED loop /\ (ServerClose \/ UNCHANGED serverVars)
    BY <1>2, Zenon DEF CloseTcpResumes, CloseTcpReset, CloseUdpResumes, CloseDead, CloseTcp, CloseUdp, Finish
  <2> QED BY <1>0, <2>1, CloseServer, OtherServer, Zenon
<1>3. CASE LoopDies \/ LoopDead
  BY <1>3, EndingServer, OtherServer, Zenon DEF LoopDies, LoopDead
<1>4. ASSUME NEW ok \in BOOLEAN, OnConnection(ok) \/ Bind(ok) PROVE ServerInv'
  BY <1>0, <1>4, ConnectionServer, OtherServer, Zenon DEF Bind
<1>5. ASSUME NEW c \in Accepts, Accept(c) \/ AcceptTimeout(c) PROVE ServerInv'
  BY <1>5, AcceptServer, TimeoutServer, Zenon
<1>6. ASSUME NEW c \in Listens, NEW o \in {"init", "bind", "ok"}, Listen(c, o) PROVE ServerInv'
  BY <1>6, ListenServer, Zenon
<1>7. ASSUME NEW c \in Connects, Connect(c) \/ Connected(c) \/ ConnectFailed(c) \/ TcpRecvDone(c)
      PROVE  ServerInv'
  BY <1>0, <1>7, OtherServer, Zenon DEF Connect, Connected, ConnectFailed, TcpRecvDone
<1>8. ASSUME NEW c \in Recvs,
             \/ TcpRecv(c) \/ Received(c) \/ \E started \in BOOLEAN : Recv(c, started)
             \/ RecvTimeout(c) /\ UNCHANGED serverVars
      PROVE  ServerInv'
  BY <1>0, <1>8, OtherServer, Zenon DEF TcpRecv, Received, Recv, RecvTimeout
<1>9. ASSUME NEW c \in Sends, NEW any \in BOOLEAN, NEW start \in {"ok", "error", "waiting"},
             Send(c, any, start)
      PROVE  ServerInv'
  BY <1>0, <1>9, OtherServer, Zenon DEF Send
<1>10. CASE UNCHANGED vars
  BY <1>0, <1>10, OtherServer, Zenon DEF vars
<1> QED BY <1>1, <1>2, <1>3, <1>4, <1>5, <1>6, <1>7, <1>8, <1>9, <1>10, Zenon DEF Next, Resume

\* The invariant of the server.
LEMMA ServerInvariance == Spec => []ServerInv
<1>1. Init => ServerInv
  <2> SUFFICES ASSUME Init PROVE ServerInv
    BY Zenon
  <2>1. PICK W \in Workloads : ServerInit(W)
    BY Zenon DEF Init
  <2>2. /\ loop = "running" /\ server = NoServer /\ ending = [owned |-> 0, orphaned |-> 0] /\ came = 0
        /\ acall = [c \in ServerCalls |-> IF c \in W THEN "new" ELSE "unused"]
    BY <2>1, Zenon DEF Init, ServerInit
  <2>3. ServerTypes
    BY <2>2, PeersAssumption DEF ServerTypes, Servers, NoServer, AcceptAnswers
  <2>4. Range(<<>>) = {} /\ IsInjective(<<>>) /\ server.waiters = <<>> /\ server.accepted = <<>>
    BY <2>2 DEF Range, IsInjective, NoServer
  <2>5. \A c \in Accepts : acall[c] \in {"new", "unused"}
    BY <2>2, Zenon DEF ServerCalls
  <2>6. WaitInv
    BY <2>4, <2>5, Zenon DEF WaitInv
  <2>7. \A j \in DOMAIN Peers : Peers[j] \in Range(Peers)
    BY <2>3, ServerFacts, Zenon
  <2>8. PeerInv
    BY <2>4, <2>5, <2>7, PeersAssumption, Zenon DEF PeerInv
  <2>9. OwnInv
    BY <2>2 DEF OwnInv, NoServer
  <2> QED BY <2>3, <2>6, <2>8, <2>9, Zenon DEF ServerInv
<1>2. ServerInv /\ [Next]_vars => ServerInv'
  BY ServerStep, Zenon
<1> QED BY <1>1, <1>2, PTL DEF Spec

\* Accepts and connections are paired exactly: accept() and accept_for() never wait
\* beside a queued connection, each connection goes to one of them, and one that
\* gave up gets none.
THEOREM AcceptsAreExact == Spec => []AcceptExact
<1>1. ServerInv => AcceptExact
  <2> SUFFICES ASSUME ServerInv PROVE AcceptExact
    BY Zenon
  <2>1. Range(server.waiters) \subseteq Accepts
    BY ServerFacts DEF Range, ServerInv
  <2> QED BY <2>1, Zenon DEF ServerInv, WaitInv, PeerInv, AcceptExact
<1> QED BY <1>1, ServerInvariance, PTL

\* The handle of a server that is closed is closed while its Impl is there, unless
\* a listen() had failed.
THEOREM EndingServersAreOwned == Spec => []EndingServerOwned
<1>1. ServerInv => EndingServerOwned
  BY Zenon DEF ServerInv, OwnInv, EndingServerOwned
<1> QED BY <1>1, ServerInvariance, PTL

-----------------------------------------------------------------------------
(* The types of the UDP socket *)

UdpAnswers == {"new", "unused", "waiting", "ok", "error", "timeout"} \cup Items

\* Only the answer to one call changes, or nothing.
LEMMA UdpAnswered ==
    ASSUME UdpInv, UNCHANGED <<loop, udp, uhandle, delivered>>,
           \/ ucall' = ucall
           \/ \E c \in UdpCalls, o \in UdpAnswers : UdpAnswer(c, o)
    PROVE  UdpInv'
<1>1. ucall' \in [UdpCalls -> UdpAnswers]
  BY Zenon DEF UdpInv, UdpTypes, UdpAnswer, UdpAnswers
<1> QED BY <1>1, Zenon DEF UdpInv, UdpTypes, ReceivingForOne, UdpAnswers, is_loop_alive

\* on_udp_closed answers everything that waits.
LEMMA UdpHandleClosed ==
    ASSUME UdpInv, OnUdpClosed
    PROVE  UdpInv'
<1>1. uhandle' = NoUdpHandle /\ delivered' = delivered
  BY Zenon DEF OnUdpClosed
<1>2. CASE uhandle.cb
  <2>1. udp' = UdpClosed(udp) /\ ucall' = UdpResolved(udp)
    BY <1>2, Zenon DEF OnUdpClosed
  <2>2. udp' \in Udps
    BY <2>1, Zenon DEF UdpClosed, UdpInv, UdpTypes, Udps
  <2>3. ucall' \in [UdpCalls -> UdpAnswers]
    BY <2>1, Zenon DEF UdpResolved, UdpInv, UdpTypes, UdpAnswers
  <2> QED BY <1>1, <2>2, <2>3, Zenon DEF UdpInv, UdpTypes, UdpAnswers, ReceivingForOne, NoUdpHandle
<1>3. CASE ~uhandle.cb
  <2>1. UNCHANGED <<udp, ucall>>
    BY <1>3, Zenon DEF OnUdpClosed
  <2> QED BY <1>1, <2>1, Zenon DEF UdpInv, UdpTypes, ReceivingForOne, NoUdpHandle
<1> QED BY <1>2, <1>3, Zenon

\* What close() and the destructor leave behind.
LEMMA UdpCloses ==
    ASSUME UdpInv, NEW c \in Closes, UNCHANGED loop,
           UdpClose(c) \/ (~is_loop_alive /\ UdpCloseDead(c))
    PROVE  UdpInv'
<1>1. CASE UdpClose(c)
  <2>1. CASE udp.closed
    BY <1>1, <2>1, UdpAnswered, Zenon DEF UdpClose, UdpCalls, UdpAnswers
  <2>2. CASE ~udp.closed
    <3>1. /\ udp' = [udp EXCEPT !.closing = TRUE, !.waiters = @ \cup {c}]
          /\ uhandle' = [uhandle EXCEPT !.state = "closing", !.cb = TRUE, !.receiving = FALSE]
          /\ ucall' = [ucall EXCEPT ![c] = "waiting"] /\ delivered' = delivered
      BY <1>1, <2>2, Zenon DEF UdpClose, UdpAnswer
    <3>2. ucall' \in [UdpCalls -> UdpAnswers]
      BY <3>1, Zenon DEF UdpInv, UdpTypes, UdpAnswers
    <3>3. udp' \in Udps
      BY <3>1, Zenon DEF UdpInv, UdpTypes, Udps
    <3> QED BY <3>1, <3>2, <3>3, Zenon DEF UdpInv, UdpTypes, UdpAnswers, ReceivingForOne
  <2> QED BY <2>1, <2>2, Zenon
<1>2. CASE ~is_loop_alive /\ UdpCloseDead(c)
  <2>1. udp' \in Udps
    BY <1>2, Zenon DEF UdpCloseDead, UdpInv, UdpTypes, Udps
  <2>2. ucall' \in [UdpCalls -> UdpAnswers]
    BY <1>2, Zenon DEF UdpCloseDead, UdpInv, UdpTypes, UdpAnswers
  <2>3. UNCHANGED <<uhandle, delivered>> /\ ~is_loop_alive
    BY <1>2, Zenon DEF UdpCloseDead, is_loop_alive
  <2> QED BY <2>1, <2>2, <2>3, Zenon DEF UdpInv, UdpTypes, UdpAnswers, ReceivingForOne
<1> QED BY <1>1, <1>2, Zenon

\* A packet, or an error, answers the receive that waits: none is buffered.
LEMMA UdpReceives ==
    ASSUME UdpInv, OnUdpRecvError \/ \E known \in BOOLEAN : OnUdpRecv(known)
    PROVE  /\ UdpInv' /\ UNCHANGED loop
           /\ udp' = [udp EXCEPT !.pending = None] /\ uhandle' = [uhandle EXCEPT !.receiving = FALSE]
           /\ udp.pending \in Recvs /\ is_loop_alive
<1>1. /\ udp.pending \in Recvs /\ is_loop_alive /\ UNCHANGED loop
      /\ uhandle' = [uhandle EXCEPT !.receiving = FALSE]
  BY Zenon DEF OnUdpRecvError, OnUdpRecv, UdpInv, UdpTypes, Udps, ReceivingForOne
<1>2. udp.pending # None /\ udp.pending \in UdpCalls
  BY <1>1, UdpCallsAssumption, Zenon DEF UdpCalls
<1>3. udp' = [udp EXCEPT !.pending = None]
  <2>1. CASE OnUdpRecvError
    BY <2>1, Zenon DEF OnUdpRecvError
  <2>2. ASSUME NEW known \in BOOLEAN, OnUdpRecv(known) PROVE udp' = [udp EXCEPT !.pending = None]
    <3>1. udp' = [udp EXCEPT !.pending = None, !.buffered = udp.buffered]
      BY <1>2, <2>2, Zenon DEF OnUdpRecv
    <3> QED BY <3>1, Zenon DEF UdpInv, UdpTypes, Udps
  <2> QED BY <2>1, <2>2, Zenon
<1>4. delivered' \in 0 .. Len(Packets) /\ ucall' \in [UdpCalls -> UdpAnswers]
  <2>1. CASE OnUdpRecvError
    BY <1>2, <2>1, Zenon DEF OnUdpRecvError, UdpInv, UdpTypes, UdpAnswers
  <2>2. ASSUME NEW known \in BOOLEAN, OnUdpRecv(known)
        PROVE  delivered' \in 0 .. Len(Packets) /\ ucall' \in [UdpCalls -> UdpAnswers]
    <3>1. delivered < Len(Packets) /\ delivered' = delivered + 1
      BY <2>2, Zenon DEF OnUdpRecv
    <3>2. delivered + 1 \in DOMAIN Packets /\ delivered' \in 0 .. Len(Packets)
      BY <3>1, PacketsAssumption DEF UdpInv, UdpTypes
    <3>3. Packets[delivered + 1] \in Items
      BY <3>2, Zenon DEF Items
    <3>4. PICK o \in UdpAnswers : ucall' = [ucall EXCEPT ![udp.pending] = o]
      BY <1>2, <2>2, <3>3, Zenon DEF OnUdpRecv, UdpAnswers
    <3> QED BY <1>2, <3>2, <3>4, Zenon DEF UdpInv, UdpTypes, UdpAnswers
  <2> QED BY <2>1, <2>2, Zenon
<1>5. udp' \in Udps
  BY <1>3, Zenon DEF UdpInv, UdpTypes, Udps
<1>6. UdpInv'
  BY <1>1, <1>4, <1>5, Zenon DEF UdpInv, UdpTypes, UdpAnswers, ReceivingForOne
<1> QED BY <1>1, <1>3, <1>6, Zenon

\* A receive waits, or is answered at once; one that times out stops the handle.
LEMMA UdpRecvs ==
    ASSUME UdpInv, NEW c \in Recvs, UNCHANGED loop,
           (\E started \in BOOLEAN : is_loop_alive /\ UdpRecv(c, started)) \/ RecvTimeout(c)
    PROVE  /\ UdpInv'
           /\ udp'.closed = udp.closed /\ udp'.exists = udp.exists /\ uhandle'.state = uhandle.state
<1>0. c \in UdpCalls
  BY Zenon DEF UdpCalls
<1>1. ASSUME NEW started \in BOOLEAN, is_loop_alive, UdpRecv(c, started)
      PROVE  UdpInv' /\ udp'.closed = udp.closed /\ udp'.exists = udp.exists /\ uhandle'.state = uhandle.state
  <2> DEFINE o == RecvResult(started)
  <2>1. o \in {"error", "waiting"} /\ udp.buffered = <<>>
    BY Zenon DEF RecvResult, UdpInv, UdpTypes, Udps
  <2>2. /\ ucall' = [ucall EXCEPT ![c] = o]
        /\ udp' = [udp EXCEPT !.buffered = udp.buffered,
                              !.pending = IF o = "waiting" THEN c ELSE udp.pending]
        /\ uhandle' = [uhandle EXCEPT !.receiving = uhandle.receiving \/ o = "waiting"]
        /\ delivered' = delivered
    BY <1>1, <2>1, Zenon DEF UdpRecv, UdpAnswer
  <2> HIDE DEF o
  <2>3. ucall' \in [UdpCalls -> UdpAnswers]
    BY <1>0, <2>1, <2>2, Zenon DEF UdpInv, UdpTypes, UdpAnswers
  <2>4. udp' \in Udps /\ udp'.closed = udp.closed /\ udp'.exists = udp.exists
        /\ udp'.pending = IF o = "waiting" THEN c ELSE udp.pending
    BY <2>2, Zenon DEF UdpInv, UdpTypes, Udps
  <2>5. /\ uhandle'.receiving <=> uhandle.receiving \/ o = "waiting"
        /\ uhandle'.state = uhandle.state /\ uhandle'.receiving \in BOOLEAN
        /\ uhandle' \in [state : {"gone", "open", "closing"}, cb : BOOLEAN, receiving : BOOLEAN,
                         sends : SUBSET Sends]
    <3>1. PICK b \in BOOLEAN : b <=> uhandle.receiving \/ o = "waiting"
      BY Zenon
    <3>2. uhandle' = [uhandle EXCEPT !.receiving = b]
      BY <2>2, <3>1, Zenon DEF UdpInv, UdpTypes
    <3> QED BY <3>1, <3>2, Zenon DEF UdpInv, UdpTypes
  <2>6. ReceivingForOne'
    BY <1>1, <2>4, <2>5, UdpCallsAssumption, Zenon DEF UdpInv, ReceivingForOne, is_loop_alive
  <2> QED BY <2>2, <2>3, <2>4, <2>5, <2>6, Zenon DEF UdpInv, UdpTypes, UdpAnswers
<1>2. CASE RecvTimeout(c)
  <2>1. CASE udp.pending = c
    <3>1. /\ ucall' = [ucall EXCEPT ![c] = "timeout"] /\ udp' = [udp EXCEPT !.pending = None]
          /\ uhandle' = [uhandle EXCEPT !.receiving = FALSE] /\ delivered' = delivered
      BY <1>2, <2>1, Zenon DEF RecvTimeout, UdpAnswer
    <3>2. ucall' \in [UdpCalls -> UdpAnswers]
      BY <1>0, <3>1, Zenon DEF UdpInv, UdpTypes, UdpAnswers
    <3>3. udp' \in Udps /\ udp'.closed = udp.closed /\ udp'.exists = udp.exists
      BY <3>1, Zenon DEF UdpInv, UdpTypes, Udps
    <3> QED BY <3>1, <3>2, <3>3, Zenon DEF UdpInv, UdpTypes, UdpAnswers, ReceivingForOne
  <2>2. CASE udp.pending # c
    <3>1. UdpAnswer(c, "timeout") /\ UNCHANGED <<udp, uhandle, delivered>>
      BY <1>2, <2>2, Zenon DEF RecvTimeout
    <3> QED BY <1>0, <3>1, UdpAnswered, Zenon DEF UdpAnswers
  <2> QED BY <2>1, <2>2, Zenon
<1> QED BY <1>1, <1>2, Zenon

\* A send that waits is a request of the handle until on_udp_send answers it.
LEMMA UdpSends ==
    ASSUME UdpInv, NEW c \in Sends, UNCHANGED loop,
           \/ \E start \in {"ok", "error", "waiting"} : UdpSend(c, start)
           \/ \E o \in {"ok", "error"} : OnUdpSend(c, o)
    PROVE  UdpInv' /\ UNCHANGED udp /\ uhandle'.state = uhandle.state
<1>1. PICK S \in SUBSET Sends : uhandle' = [uhandle EXCEPT !.sends = S]
  <2>1. uhandle.sends \cup {c} \in SUBSET Sends /\ uhandle.sends \ {c} \in SUBSET Sends
        /\ uhandle.sends \in SUBSET Sends
    BY Zenon DEF UdpInv, UdpTypes
  <2> QED BY <2>1, Zenon DEF UdpSend, OnUdpSend
<1>2. PICK o \in UdpAnswers : ucall' = [ucall EXCEPT ![c] = o]
  BY Zenon DEF UdpSend, OnUdpSend, UdpAnswer, UdpAnswers
<1>3. ucall' \in [UdpCalls -> UdpAnswers]
  BY <1>2, Zenon DEF UdpInv, UdpTypes, UdpAnswers, UdpCalls
<1>4. UNCHANGED <<udp, delivered>>
  BY Zenon DEF UdpSend, OnUdpSend
<1>5. /\ uhandle'.state = uhandle.state /\ uhandle'.receiving = uhandle.receiving
      /\ uhandle' \in [state : {"gone", "open", "closing"}, cb : BOOLEAN, receiving : BOOLEAN,
                       sends : SUBSET Sends]
  BY <1>1, Zenon DEF UdpInv, UdpTypes
<1> QED BY <1>3, <1>4, <1>5, Zenon DEF UdpInv, UdpTypes, UdpAnswers, ReceivingForOne, is_loop_alive

\* create_udp_socket, in send_to() on a socket that has none.
LEMMA UdpMade ==
    ASSUME UdpInv, NEW S \in SUBSET Sends, UNCHANGED <<loop, delivered>>,
           NEW c \in UdpCalls, NEW o \in UdpAnswers, UdpAnswer(c, o),
           udp' = NewUdp, uhandle' = [NewUdpHandle EXCEPT !.sends = S]
    PROVE  UdpInv' /\ udp'.closed = FALSE
<1>1. /\ udp' = [exists |-> TRUE, bound |-> FALSE, closing |-> FALSE, closed |-> FALSE,
                 pending |-> None, buffered |-> <<>>, waiters |-> {}, keepalive |-> TRUE]
      /\ uhandle' = [state |-> "open", cb |-> FALSE, receiving |-> FALSE, sends |-> S]
  BY Zenon DEF NewUdp, NoUdp, NewUdpHandle, NoUdpHandle
<1>2. ucall' \in [UdpCalls -> UdpAnswers]
  BY Zenon DEF UdpInv, UdpTypes, UdpAnswer, UdpAnswers
<1>3. udp' \in Udps /\ udp'.closed = FALSE
  BY <1>1 DEF Udps
<1>4. /\ uhandle'.receiving = FALSE
      /\ uhandle' \in [state : {"gone", "open", "closing"}, cb : BOOLEAN, receiving : BOOLEAN,
                       sends : SUBSET Sends]
  <2>1. uhandle' = [state |-> "open", cb |-> FALSE, receiving |-> FALSE, sends |-> S]
    BY <1>1, Zenon
  <2>2. uhandle'.receiving = FALSE
    BY <2>1
  <2>3. [state |-> "open", cb |-> FALSE, receiving |-> FALSE, sends |-> S]
          \in [state : {"gone", "open", "closing"}, cb : BOOLEAN, receiving : BOOLEAN,
               sends : SUBSET Sends]
    BY Zenon
  <2> QED BY <2>1, <2>2, <2>3, Zenon
<1> QED BY <1>2, <1>3, <1>4, Zenon DEF UdpInv, UdpTypes, UdpAnswers, ReceivingForOne

\* Every step of a socket keeps the types of its UDP socket.
LEMMA UdpStep ==
    ASSUME SocketInv, [Next]_vars
    PROVE  UdpInv'
<1> USE DEF SocketInv
<1>1. CASE Callback
  <2>1. CASE UNCHANGED udpVars /\ (OnServerClosed \/ OnServerWalked)
    BY <2>1, UdpAnswered, Zenon DEF udpVars, OnServerClosed, OnServerWalked
  <2>2. CASE OnUdpClosed
    BY <2>2, UdpHandleClosed, Zenon
  <2>3. CASE OnUdpRecvError \/ \E known \in BOOLEAN : OnUdpRecv(known)
    BY <2>3, UdpReceives, Zenon
  <2>4. ASSUME NEW c \in Sends, NEW o \in {"ok", "error"}, OnUdpSend(c, o) PROVE UdpInv'
    BY <2>4, UdpSends, Zenon DEF OnUdpSend
  <2>5. ASSUME NEW k \in Connects, OnLinkClosed(k) PROVE UdpInv'
    <3>1. link[k].reader \in Recvs \cup {None}
      BY Zenon DEF SockInv, SockTypes, Links
    <3> QED BY <2>5, <3>1, UdpAnswered, Zenon DEF OnLinkClosed, UdpCalls, UdpAnswers
  <2> QED BY <1>1, <2>1, <2>2, <2>3, <2>4, <2>5, Zenon DEF Callback, UdpCallback
<1>2. ASSUME NEW c \in Closes, CloseTcpResumes(c) \/ CloseTcpReset(c) \/ CloseTcp(c)
      PROVE  UdpInv'
  BY <1>2, UdpAnswered, Zenon DEF CloseTcpResumes, CloseTcpReset, CloseTcp, Finish, udpVars
<1>3. ASSUME NEW c \in Closes, CloseUdp(c) PROVE UdpInv'
  BY <1>3, UdpAnswered, UdpCloses, Zenon DEF CloseUdp, udpVars
<1>4. ASSUME NEW c \in Closes, CloseUdpResumes(c) PROVE UdpInv'
  <2>1. CASE udp' = [udp EXCEPT !.exists = FALSE] /\ UNCHANGED <<loop, uhandle, delivered, ucall>>
    <3>1. udp' \in Udps /\ udp'.pending = udp.pending
      BY <2>1, Zenon DEF UdpInv, UdpTypes, Udps
    <3> QED BY <2>1, <3>1, Zenon DEF UdpInv, UdpTypes, ReceivingForOne, is_loop_alive
  <2> QED BY <1>4, <2>1, UdpCloses, Zenon DEF CloseUdpResumes
<1>5. ASSUME NEW c \in Closes, CloseDead(c) PROVE UdpInv'
  <2>1. CASE udp.exists
    <3>1. UNCHANGED loop /\ ~is_loop_alive /\ UdpCloseDead(c)
      BY <1>5, <2>1, Zenon DEF CloseDead, Finish, is_loop_alive
    <3> QED BY <3>1, UdpCloses, Zenon
  <2>2. CASE ~udp.exists
    <3>1. sock.conn # None => link[sock.conn].reader \in Recvs \cup {None}
      BY Zenon DEF SockInv, SockTypes, Links, Socks
    <3>2. UNCHANGED <<loop, udp, uhandle, delivered>>
          /\ \/ ucall' = ucall
             \/ \E d \in UdpCalls, o \in UdpAnswers : UdpAnswer(d, o)
      BY <1>5, <2>2, <3>1, Zenon DEF CloseDead, Finish, UdpCalls, UdpAnswers
    <3> QED BY <3>2, UdpAnswered, Zenon
  <2> QED BY <2>1, <2>2, Zenon
<1>6. CASE LoopDies
  <2>1. uhandle' = IF uhandle.state = "open"
                   THEN [uhandle EXCEPT !.state = "closing", !.receiving = FALSE] ELSE uhandle
    BY <1>6, Zenon DEF LoopDies, UdpWalk
  <2>2. UNCHANGED <<udp, delivered, ucall>>
    BY <1>6, Zenon DEF LoopDies
  <2>3. uhandle'.state # "open"
        /\ uhandle' \in [state : {"gone", "open", "closing"}, cb : BOOLEAN, receiving : BOOLEAN,
                         sends : SUBSET Sends]
    BY <2>1, Zenon DEF UdpInv, UdpTypes
  <2> QED BY <2>2, <2>3, Zenon DEF UdpInv, UdpTypes, ReceivingForOne
<1>7. CASE LoopDead
  BY <1>7, Zenon DEF LoopDead, udpVars, UdpInv, UdpTypes, ReceivingForOne, is_loop_alive
<1>8. ASSUME NEW ok \in BOOLEAN,
             (OnConnection(ok) /\ UNCHANGED udpVars) \/ (Bind(ok) /\ sock.type # "udp")
      PROVE  UdpInv'
  BY <1>8, UdpAnswered, Zenon DEF udpVars, OnConnection, Bind
<1>9. ASSUME NEW ok \in BOOLEAN, Bind(ok), sock.type = "udp" PROVE UdpInv'
  <2>1. PICK b \in BOOLEAN : b <=> udp.bound \/ (ok /\ ~udp.closed)
    BY Zenon
  <2>2. udp' = [udp EXCEPT !.bound = b] /\ UNCHANGED <<loop, uhandle, delivered, ucall>>
    BY <1>9, <2>1, Zenon DEF Bind, UdpBind, UdpInv, UdpTypes, Udps
  <2>3. udp' \in Udps /\ udp'.pending = udp.pending
    BY <2>2, Zenon DEF UdpInv, UdpTypes, Udps
  <2> QED BY <2>2, <2>3, Zenon DEF UdpInv, UdpTypes, ReceivingForOne, is_loop_alive
<1>10. ASSUME NEW c \in Accepts, Accept(c) \/ (AcceptTimeout(c) /\ UNCHANGED udpVars) PROVE UdpInv'
  BY <1>10, UdpAnswered, Zenon DEF udpVars, Accept, AcceptTimeout
<1>11. ASSUME NEW c \in Listens, NEW o \in {"init", "bind", "ok"}, Listen(c, o) PROVE UdpInv'
  BY <1>11, UdpAnswered, Zenon DEF Listen, udpVars
<1>12. ASSUME NEW c \in Connects, Connect(c) \/ Connected(c) \/ ConnectFailed(c) \/ TcpRecvDone(c)
       PROVE  UdpInv'
  <2>1. link[c].reader \in Recvs \cup {None}
    BY Zenon DEF SockInv, SockTypes, Links
  <2> QED BY <1>12, <2>1, UdpAnswered, Zenon
          DEF Connect, Connected, ConnectFailed, TcpRecvDone, udpVars, UdpCalls, UdpAnswers
<1>13. ASSUME NEW c \in Recvs, TcpRecv(c) \/ Received(c) PROVE UdpInv'
  BY <1>13, UdpAnswered, Zenon DEF TcpRecv, Received, udpVars, UdpCalls, UdpAnswers
<1>14. ASSUME NEW c \in Recvs, RecvTimeout(c) \/ \E started \in BOOLEAN : Recv(c, started) PROVE UdpInv'
  <2>1. UNCHANGED loop
    BY <1>14, Zenon DEF Recv, RecvTimeout
  <2>2. CASE UdpAnswer(c, "error") /\ UNCHANGED <<udp, uhandle, delivered>>
    BY <2>1, <2>2, UdpAnswered, Zenon DEF UdpCalls, UdpAnswers
  <2> QED BY <1>14, <2>1, <2>2, UdpRecvs, Zenon DEF Recv
<1>15. ASSUME NEW c \in Sends, NEW any \in BOOLEAN, NEW start \in {"ok", "error", "waiting"},
              Send(c, any, start)
       PROVE  UdpInv'
  <2>0. c \in UdpCalls /\ start \in UdpAnswers /\ UNCHANGED loop
    BY <1>15, Zenon DEF UdpCalls, UdpAnswers, Send
  <2>1. CASE UdpAnswer(c, "error") /\ UNCHANGED <<udp, uhandle, delivered>>
    BY <2>0, <2>1, UdpAnswered, Zenon DEF UdpAnswers
  <2>2. CASE UdpSend(c, start)
    BY <2>0, <2>2, UdpSends, Zenon
  <2>3. CASE /\ udp' = NewUdp /\ UdpAnswer(c, start) /\ UNCHANGED delivered
             /\ uhandle' = [NewUdpHandle EXCEPT !.sends = IF start = "waiting" THEN {c} ELSE {}]
    <3>1. PICK S \in SUBSET Sends : S = IF start = "waiting" THEN {c} ELSE {}
      BY Zenon
    <3>2. uhandle' = [NewUdpHandle EXCEPT !.sends = S]
      BY <2>3, <3>1, Zenon
    <3> QED BY <2>0, <2>3, <3>2, UdpMade, Zenon
  <2> QED BY <1>15, <2>1, <2>2, <2>3, Zenon DEF Send
<1>16. CASE UNCHANGED vars
  BY <1>16, UdpAnswered, Zenon DEF vars, udpVars
<1> QED BY <1>1, <1>2, <1>3, <1>4, <1>5, <1>6, <1>7, <1>8, <1>9, <1>10, <1>11, <1>12, <1>13, <1>14,
           <1>15, <1>16, Zenon DEF Next, Resume

-----------------------------------------------------------------------------
(* The slot of the socket, and what is left open *)

\* The slot, the connections and the calls of close() are left alone.
LEMMA SlotStays ==
    ASSUME SockInv, SockTypes', loop' = loop, UNCHANGED <<link, closer>>,
           sock'.type = sock.type, sock'.closed = sock.closed, sock'.conn = sock.conn,
           sock.stray \subseteq sock'.stray,
           sock.type = "udp" => server'.uv = "gone" /\ \A k \in Connects : ccall'[k] # "waiting",
           sock.type = "tcp" => uhandle'.state = "gone"
    PROVE  KindInv' /\ SlotInv' /\ RecvOwned'
<1>1. KindInv'
  BY Zenon DEF SockInv, KindInv
<1>2. Past' <=> Past
  BY Zenon DEF Past
<1>3. SlotInv'
  BY <1>2, Zenon DEF SockInv, SlotInv
<1>4. RecvOwned'
  BY Zenon DEF SockInv, RecvOwned, is_loop_alive
<1> QED BY <1>1, <1>3, <1>4, Zenon

\* The steps of the server and of the UDP socket that leave Socket::Impl alone.
LEMMA OutsideSock ==
    ASSUME SockInv, UNCHANGED <<loop, sockVars>>,
           server'.uv \in {server.uv, "gone"},
           uhandle'.state \in {uhandle.state, "gone"},
           uhandle'.state = "open" => udp'.closed = udp.closed
    PROVE  SockInv'
<1>1. SockTypes'
  BY Zenon DEF SockInv, SockTypes, sockVars
<1>2. KindInv' /\ SlotInv' /\ RecvOwned'
  <2>1. /\ UNCHANGED <<link, closer>> /\ loop' = loop
        /\ sock'.type = sock.type /\ sock'.closed = sock.closed /\ sock'.conn = sock.conn
        /\ sock.stray \subseteq sock'.stray
        /\ sock.type = "udp" => server'.uv = "gone" /\ \A k \in Connects : ccall'[k] # "waiting"
        /\ sock.type = "tcp" => uhandle'.state = "gone"
    BY Zenon DEF SockInv, KindInv, sockVars
  <2> QED BY <1>1, <2>1, SlotStays, Zenon
<1>3. LeftInv'
  BY Zenon DEF SockInv, LeftInv, Past, is_loop_alive, sockVars
<1> QED BY <1>1, <1>2, <1>3, Zenon DEF SockInv

\* Only what the socket remembers of its addresses, or the answer to connect().
LEMMA FlagsSock ==
    ASSUME SockInv, UNCHANGED <<loop, link, closer, server, uhandle>>, udp'.closed = udp.closed,
           NEW local \in BOOLEAN, NEW peer \in BOOLEAN,
           sock' = [sock EXCEPT !.local = local, !.peer = peer],
           ccall' \in [Connects -> {"new", "unused", "error", "waiting", "ok"}],
           \A k \in Connects : ccall'[k] = "waiting" => ccall[k] = "waiting" \/ sock.type = "tcp"
    PROVE  SockInv'
<1>1. SockTypes' /\ sock'.type = sock.type /\ sock'.closed = sock.closed /\ sock'.conn = sock.conn
      /\ sock'.stray = sock.stray
  BY Zenon DEF SockInv, SockTypes, Socks
<1>2. KindInv' /\ SlotInv' /\ RecvOwned'
  <2>1. /\ UNCHANGED <<link, closer>> /\ loop' = loop
        /\ sock.stray \subseteq sock'.stray
        /\ sock.type = "udp" => server'.uv = "gone" /\ \A k \in Connects : ccall'[k] # "waiting"
        /\ sock.type = "tcp" => uhandle'.state = "gone"
    BY <1>1, Zenon DEF SockInv, KindInv
  <2> QED BY <1>1, <2>1, SlotStays, Zenon
<1>3. LeftInv'
  BY <1>1, Zenon DEF SockInv, LeftInv, Past, is_loop_alive
<1> QED BY <1>1, <1>2, <1>3, Zenon DEF SockInv

\* listen(), which does not look at closed, leaves a stray server past a close.
LEMMA ListenSock ==
    ASSUME SockInv, NEW c, NEW o, Listen(c, o)
    PROVE  SockInv'
<1>1. PICK l \in BOOLEAN : l <=> sock.listening \/ server'.listening
  BY Zenon
<1>2. PICK S \in SUBSET (Connects \cup {"server", "udp"}) : S = Stray({"server"})
  BY Zenon DEF Stray, SockInv, SockTypes, Socks
<1>3. sock' = [sock EXCEPT !.listening = l, !.stray = S]
  BY <1>1, <1>2, Zenon DEF Listen, SockInv, SockTypes, Socks
<1>4. UNCHANGED <<loop, link, ccall, closer, udp, uhandle>> /\ sock.type = "tcp"
  BY Zenon DEF Listen, udpVars
<1>5. SockTypes' /\ sock'.type = sock.type /\ sock'.closed = sock.closed /\ sock'.conn = sock.conn
      /\ sock'.stray = S
  BY <1>3, <1>4, Zenon DEF SockInv, SockTypes, Socks
<1>6. sock.stray \subseteq S /\ (Past => "server" \in S)
  BY <1>2, Zenon DEF Stray
<1>7. KindInv' /\ SlotInv' /\ RecvOwned'
  BY <1>4, <1>5, <1>6, SlotStays, Zenon DEF SockInv, KindInv
<1>8. LeftInv'
  BY <1>4, <1>5, <1>6, Zenon DEF SockInv, LeftInv, Past, is_loop_alive
<1> QED BY <1>5, <1>7, <1>8, Zenon DEF SockInv

\* send_to(), which does not look at closed either, leaves a stray UdpSocket.
LEMMA SendSock ==
    ASSUME SockInv, UNCHANGED <<loop, server, link, ccall, closer>>, sock.type = "udp",
           ~udp'.closed, sock' = [sock EXCEPT !.stray = Stray({"udp"})]
    PROVE  SockInv'
<1>1. PICK S \in SUBSET (Connects \cup {"server", "udp"}) : S = Stray({"udp"})
  BY Zenon DEF Stray, SockInv, SockTypes, Socks
<1>2. SockTypes' /\ sock'.type = sock.type /\ sock'.closed = sock.closed /\ sock'.conn = sock.conn
      /\ sock'.stray = S
  BY <1>1, Zenon DEF SockInv, SockTypes, Socks
<1>3. sock.stray \subseteq S /\ (Past => "udp" \in S)
  BY <1>1, Zenon DEF Stray
<1>4. KindInv' /\ SlotInv' /\ RecvOwned'
  BY <1>2, <1>3, SlotStays, Zenon DEF SockInv, KindInv
<1>5. LeftInv'
  BY <1>2, <1>3, Zenon DEF SockInv, LeftInv, Past, is_loop_alive
<1> QED BY <1>2, <1>4, <1>5, Zenon DEF SockInv

\* connect() that resumes: what was in the slot is stray, and past a close so is
\* what it stores.
LEMMA ConnectedSock ==
    ASSUME SockInv, NEW c \in Connects, Connected(c)
    PROVE  SockInv'
<1>1. PICK S \in SUBSET (Connects \cup {"server", "udp"}) : S = Stray({c}) \cup ({sock.conn} \ {None})
  BY Zenon DEF Stray, SockInv, SockTypes, Socks
<1>2. /\ sock' = [sock EXCEPT !.conn = c, !.stray = S]
      /\ link' = [link EXCEPT ![c].state = "open"]
      /\ ccall' = [ccall EXCEPT ![c] = "ok"]
      /\ UNCHANGED <<loop, closer, server, udp, uhandle>>
  BY <1>1, Zenon DEF Connected, serverVars, udpVars
<1>3. /\ \A k \in Connects : link'[k] = IF k = c THEN [link[k] EXCEPT !.state = "open"] ELSE link[k]
      /\ \A k \in Connects : link'[k].reader = link[k].reader
      /\ \A k \in Connects : link'[k].state = IF k = c THEN "open" ELSE link[k].state
      /\ link' \in [Connects -> Links]
  BY <1>2 DEF SockInv, SockTypes, Links
<1>4. /\ SockTypes' /\ sock'.type = sock.type /\ sock'.closed = sock.closed /\ sock'.conn = c
      /\ sock'.stray = S
  BY <1>2, <1>3, Zenon DEF SockInv, SockTypes, Socks
<1>5. sock.type = "tcp"
  BY Zenon DEF Connected, SockInv, SockTypes, Socks, KindInv
<1>6. KindInv'
  BY <1>2, <1>4, <1>5, Zenon DEF SockInv, KindInv
<1>7. /\ sock.stray \subseteq S /\ (Past => c \in S)
      /\ sock.conn # None => sock.conn \in S
  BY <1>1, Zenon DEF Stray
<1>8. Past' <=> Past
  BY <1>2, <1>4, Zenon DEF Past
<1>9. SlotInv'
  <2>1. \A k \in Connects : link'[k].state = "open" => sock'.conn = k \/ k \in sock'.stray
    BY <1>3, <1>4, <1>7, ConnectsAssumption DEF SockInv, SlotInv
  <2> QED BY <2>1, <1>2, <1>3, <1>4, <1>7, <1>8 DEF SockInv, SlotInv
<1>10. LeftInv'
  BY <1>2, <1>4, <1>7, <1>8, Zenon DEF SockInv, LeftInv, is_loop_alive
<1>11. RecvOwned'
  BY <1>2, <1>3, <1>4, <1>7, ConnectsAssumption DEF SockInv, RecvOwned, is_loop_alive
<1> QED BY <1>4, <1>6, <1>9, <1>10, <1>11, Zenon DEF SockInv

\* A step that only starts or ends reads, or ends the close of a connection.
LEMMA LinkSock ==
    ASSUME SockInv, UNCHANGED <<loop, sock, ccall, closer, server, udp, uhandle>>,
           sock.type = "tcp", link' \in [Connects -> Links],
           \A k \in Connects :
              /\ link'[k].state = "open" => link[k].state = "open"
              /\ link'[k].state = "closed" => link'[k].reader = None
              /\ link'[k].reader # None => link[k].reader # None \/ k = sock.conn
    PROVE  SockInv'
<1>1. SockTypes'
  BY Zenon DEF SockInv, SockTypes
<1>2. KindInv'
  BY Zenon DEF SockInv, KindInv
<1>3. SlotInv'
  BY Zenon DEF SockInv, SlotInv, Past
<1>4. LeftInv'
  BY Zenon DEF SockInv, LeftInv, Past, is_loop_alive
<1>5. RecvOwned'
  BY Zenon DEF SockInv, RecvOwned, is_loop_alive
<1> QED BY <1>1, <1>2, <1>3, <1>4, <1>5, Zenon DEF SockInv

\* recv_for() on a TCP socket, its end, and on_connection_closed.
LEMMA ReadSock ==
    ASSUME SockInv,
           \/ \E c \in Recvs : TcpRecv(c)
           \/ \E k \in Connects : TcpRecvDone(k) \/ OnLinkClosed(k)
    PROVE  SockInv'
<1>0. UNCHANGED <<loop, sock, ccall, closer, server, udp, uhandle>>
  BY Zenon DEF TcpRecv, TcpRecvDone, OnLinkClosed, serverVars
<1>1. ASSUME NEW c \in Recvs, TcpRecv(c) PROVE SockInv'
  <2>0. sock.type = "tcp"
    BY <1>1, Zenon DEF TcpRecv
  <2>1. CASE UNCHANGED link
    BY <1>0, <2>0, <2>1, LinkSock, Zenon DEF SockInv, SockTypes, SlotInv
  <2>2. CASE /\ sock.conn # None /\ link[sock.conn] = [state |-> "open", reader |-> None]
             /\ link' = [link EXCEPT ![sock.conn].reader = c]
    <3>1. sock.conn \in Connects
      BY <2>2, Zenon DEF SockInv, SockTypes, Socks
    <3>2. \A k \in Connects : link'[k] = IF k = sock.conn THEN [link[k] EXCEPT !.reader = c] ELSE link[k]
      BY <2>2, <3>1, Zenon DEF SockInv, SockTypes
    <3>3. /\ link' \in [Connects -> Links]
          /\ \A k \in Connects : link'[k].state = link[k].state
          /\ \A k \in Connects : link'[k].reader = IF k = sock.conn THEN c ELSE link[k].reader
      BY <2>2, <3>1, <3>2, Zenon DEF SockInv, SockTypes, Links
    <3>4. link[sock.conn].state = "open"
      BY <2>2
    <3>5. \A k \in Connects :
              /\ link'[k].state = "open" => link[k].state = "open"
              /\ link'[k].state = "closed" => link'[k].reader = None
              /\ link'[k].reader # None => link[k].reader # None \/ k = sock.conn
      BY <3>3, <3>4, Zenon DEF SockInv, SlotInv
    <3> QED BY <1>0, <2>0, <3>3, <3>5, LinkSock, Zenon
  <2> QED BY <1>1, <2>1, <2>2, Zenon DEF TcpRecv
<1>2. ASSUME NEW k \in Connects, NEW l \in Links, link' = [link EXCEPT ![k] = l],
             l.reader = None, l.state = link[k].state \/ l.state = "closed",
             link[k] # [state |-> "none", reader |-> None]
      PROVE  SockInv'
  <2>0. sock.type = "tcp"
    BY <1>2, Zenon DEF SockInv, SockTypes, Socks, KindInv
  <2>1. /\ link' \in [Connects -> Links]
        /\ \A j \in Connects : link'[j] = IF j = k THEN l ELSE link[j]
    BY <1>2, Zenon DEF SockInv, SockTypes
  <2>2. \A j \in Connects :
              /\ link'[j].state = "open" => link[j].state = "open"
              /\ link'[j].state = "closed" => link'[j].reader = None
              /\ link'[j].reader # None => link[j].reader # None \/ j = sock.conn
    BY <1>2, <2>1, Zenon DEF SockInv, SlotInv
  <2> QED BY <1>0, <2>0, <2>1, <2>2, LinkSock, Zenon
<1>3. ASSUME NEW k \in Connects, TcpRecvDone(k) PROVE SockInv'
  <2>1. PICK l : l = [link[k] EXCEPT !.reader = None]
    BY Zenon
  <2>2. l \in Links /\ l.reader = None /\ l.state = link[k].state
    BY <2>1, Zenon DEF SockInv, SockTypes, Links
  <2>3. link' = [link EXCEPT ![k] = l] /\ link[k].reader # None
    BY <1>3, <2>1, Zenon DEF TcpRecvDone
  <2>4. link[k] # [state |-> "none", reader |-> None]
    BY <2>3
  <2> QED BY <1>2, <2>2, <2>3, <2>4, Zenon
<1>4. ASSUME NEW k \in Connects, OnLinkClosed(k) PROVE SockInv'
  <2>1. PICK l : l = [state |-> "closed", reader |-> None]
    BY Zenon
  <2>2. l \in Links /\ l.reader = None /\ l.state = "closed"
    BY <2>1, Zenon DEF Links
  <2>3. link' = [link EXCEPT ![k] = l] /\ link[k].state = "closing"
    BY <1>4, <2>1, Zenon DEF OnLinkClosed
  <2>4. link[k] # [state |-> "none", reader |-> None]
    BY <2>3
  <2> QED BY <1>2, <2>2, <2>3, <2>4, Zenon
<1> QED BY <1>1, <1>3, <1>4, Zenon

-----------------------------------------------------------------------------
(* Closing the socket *)

\* Finish(c) and what CloseTcpReset does: the socket is closed and the server let go.
LEMMA FinishSock ==
    ASSUME SockInv, NEW c \in Closes, At(c, "done", None), UNCHANGED <<loop, ccall>>,
           server'.uv = "gone", sock.type = "tcp", uhandle'.state = "gone",
           NEW v \in {None, sock.conn},
           sock' = [sock EXCEPT !.conn = v, !.closed = TRUE, !.listening = FALSE],
           v # None => Past,
           link' \in [Connects -> Links],
           \A k \in Connects :
              /\ link'[k].state = "open" => link[k].state = "open" /\ (k = sock.conn => k \in sock.stray)
              /\ link'[k].state = "closed" => link'[k].reader = None
              /\ link'[k].reader # None /\ is_loop_alive =>
                    /\ link[k].reader # None
                    /\ v # k => k \in sock.stray \/ (k # sock.conn /\ closer[c] # [at |-> "reset", on |-> k])
    PROVE  SockInv'
<1>1. /\ SockTypes' /\ sock'.type = "tcp" /\ sock'.closed /\ sock'.conn = v
      /\ sock'.stray = sock.stray
  BY Zenon DEF SockInv, SockTypes, Socks, At
<1>2. \A d \in Closes : closer'[d] = IF d = c THEN [at |-> "done", on |-> None] ELSE closer[d]
  BY Zenon DEF SockInv, SockTypes, At
<1>3. KindInv'
  BY <1>1, <1>2 DEF SockInv, KindInv
<1>4. SlotInv'
  <2>1. \A k \in Connects : link'[k].state = "open" => sock'.conn = k \/ k \in sock'.stray
    BY <1>1, Zenon DEF SockInv, SlotInv
  <2>2. sock'.conn = None \/ sock'.conn \in sock'.stray
    BY <1>1, Zenon DEF SockInv, SlotInv
  <2>3. \A d \in Closes : closer'[d].at = "conn" => closer'[d].on \in Connects
    BY <1>2 DEF SockInv, SlotInv
  <2> QED BY <2>1, <2>2, <2>3, Zenon DEF SlotInv
<1>5. LeftInv'
  BY <1>1, Zenon DEF LeftInv
<1>6. RecvOwned'
  <2> SUFFICES ASSUME NEW k \in Connects, link'[k].reader # None, is_loop_alive'
               PROVE  \/ sock'.conn = k \/ k \in sock'.stray
                      \/ \E d \in Closes : closer'[d] = [at |-> "reset", on |-> k]
    BY Zenon DEF RecvOwned
  <2>1. is_loop_alive
    BY Zenon DEF is_loop_alive
  <2>2. CASE k \in sock.stray \/ v = k
    BY <1>1, <2>2, Zenon
  <2>3. CASE k # sock.conn /\ closer[c] # [at |-> "reset", on |-> k] /\ k \notin sock.stray
    <3>1. PICK d \in Closes : closer[d] = [at |-> "reset", on |-> k]
      BY <2>1, <2>3, Zenon DEF SockInv, RecvOwned
    <3>2. d # c
      BY <2>3, <3>1, Zenon
    <3> QED BY <1>2, <3>1, <3>2, Zenon
  <2> QED BY <2>1, <2>2, <2>3, Zenon
<1> QED BY <1>1, <1>3, <1>4, <1>5, <1>6, Zenon DEF SockInv

\* close() of a TCP socket up to its first wait, or when the socket is closed.
LEMMA BeginSock ==
    ASSUME SockInv, NEW c \in Closes, closer[c].at = "new", sock.type = "tcp",
           NEW at \in {"done", "conn"}, NEW on \in Connects \cup {None}, At(c, at, on),
           at = "conn" => on \in Connects,
           UNCHANGED <<loop, sock, ccall, server, udp, uhandle>>,
           link' \in [Connects -> Links],
           \A k \in Connects :
              /\ link'[k].reader = link[k].reader
              /\ link'[k].state \in {link[k].state, "closing"}
    PROVE  SockInv'
<1>1. SockTypes'
  BY Zenon DEF SockInv, SockTypes, At
<1>2. \A d \in Closes : closer'[d] = IF d = c THEN [at |-> at, on |-> on] ELSE closer[d]
  BY Zenon DEF SockInv, SockTypes, At
<1>3. \A d \in Closes : closer'[d].at = "reset" <=> closer[d].at = "reset"
  BY <1>2
<1>4. Past' <=> Past
  BY <1>3, Zenon DEF Past
<1>5. KindInv'
  BY <1>2 DEF SockInv, KindInv
<1>6. SlotInv'
  <2>1. \A d \in Closes : closer'[d].at = "conn" => closer'[d].on \in Connects
    BY <1>2 DEF SockInv, SlotInv
  <2>2. \A k \in Connects : link'[k].state = "closed" => link'[k].reader = None
    BY Zenon DEF SockInv, SlotInv
  <2> QED BY <1>4, <2>1, <2>2, Zenon DEF SockInv, SlotInv
<1>7. LeftInv'
  BY <1>4, Zenon DEF SockInv, LeftInv, is_loop_alive
<1>8. RecvOwned'
  <2>1. ASSUME NEW k \in Connects, NEW d \in Closes, closer[d] = [at |-> "reset", on |-> k]
        PROVE  closer'[d] = [at |-> "reset", on |-> k]
    <3>1. d # c
      BY <2>1
    <3> QED BY <1>2, <2>1, <3>1, Zenon
  <2> QED BY <2>1, ZenonT(30) DEF SockInv, RecvOwned, is_loop_alive
<1> QED BY <1>1, <1>5, <1>6, <1>7, <1>8, Zenon DEF SockInv

\* close() of a UDP socket, up to the wait and after it.
LEMMA UdpSock ==
    ASSUME SockInv, NEW c \in Closes, sock.type = "udp",
           NEW at \in {"udp", "reset", "done"}, At(c, at, None),
           NEW cl \in BOOLEAN, sock' = [sock EXCEPT !.closed = cl], sock.closed => cl,
           UNCHANGED <<loop, server, link, ccall>>,
           is_loop_alive /\ uhandle'.state = "open" =>
              /\ ~udp'.closed /\ uhandle.state = "open"
              /\ cl \/ at = "reset" => Past
    PROVE  SockInv'
<1>1. SockTypes' /\ sock'.type = "udp" /\ sock'.closed = cl /\ sock'.conn = None
      /\ sock'.stray = sock.stray
  BY Zenon DEF SockInv, SockTypes, Socks, KindInv, At
<1>2. \A d \in Closes : closer'[d] = IF d = c THEN [at |-> at, on |-> None] ELSE closer[d]
  BY Zenon DEF SockInv, SockTypes, At
<1>3. server.uv = "gone" /\ \A k \in Connects : link[k].state = "none" /\ link[k].reader = None
  BY DEF SockInv, KindInv
<1>4. KindInv'
  BY <1>1, <1>2 DEF SockInv, KindInv
<1>5. SlotInv'
  BY <1>1, <1>3, <1>4, Zenon DEF SlotInv, KindInv
<1>6. LeftInv'
  <2>1. ASSUME is_loop_alive, uhandle'.state = "open", Past' PROVE Past
    BY <1>1, <1>2, <2>1 DEF Past
  <2> QED BY <1>1, <1>3, <2>1, Zenon DEF SockInv, LeftInv, is_loop_alive
<1>7. RecvOwned'
  BY <1>3, Zenon DEF RecvOwned
<1> QED BY <1>1, <1>4, <1>5, <1>6, <1>7, Zenon DEF SockInv

\* ServerClose lets the handle of the server go.
LEMMA ServerGone ==
    ASSUME ServerClose
    PROVE  server'.uv = "gone"
<1>1. server' = [NoServer EXCEPT !.failed = server.failed]
  BY Zenon DEF ServerClose
<1> QED BY <1>1, Zenon DEF NoServer

\* close() on a socket whose loop is gone.
LEMMA DeadSock ==
    ASSUME SockInv, NEW c \in Closes, CloseDead(c)
    PROVE  SockInv'
<1>1. /\ loop' = "dead" /\ server'.uv = "gone" /\ At(c, "done", None) /\ ccall' = ccall
      /\ sock' = [sock EXCEPT !.conn = None, !.closed = TRUE, !.listening = FALSE]
      /\ uhandle' = uhandle
  BY ServerGone, Zenon DEF CloseDead, Finish, UdpCloseDead
<1>2. /\ sock'.type = sock.type /\ sock'.closed = TRUE /\ sock'.conn = None
      /\ sock'.stray = sock.stray /\ sock' \in Socks
  BY <1>1, Zenon DEF SockInv, SockTypes, Socks
<1>3. \A d \in Closes : closer'[d] = IF d = c THEN [at |-> "done", on |-> None] ELSE closer[d]
  BY <1>1, Zenon DEF SockInv, SockTypes, At
<1>4. /\ link' \in [Connects -> Links]
      /\ \A k \in Connects : link'[k] = IF k = sock.conn THEN [state |-> "closed", reader |-> None]
                                        ELSE link[k]
  BY ConnectsAssumption DEF CloseDead, SockInv, SockTypes, Socks, Links
<1>5. SockTypes'
  BY <1>1, <1>2, <1>4, Zenon DEF SockInv, SockTypes, At
<1>6. KindInv'
  BY <1>1, <1>2, <1>3, <1>4, ConnectsAssumption DEF SockInv, KindInv
<1>7. SlotInv'
  <2>1. \A k \in Connects : link'[k].state = "open" => k \in sock'.stray
    BY <1>2, <1>4 DEF SockInv, SlotInv
  <2>2. \A k \in Connects : link'[k].state = "closed" => link'[k].reader = None
    BY <1>4 DEF SockInv, SlotInv
  <2>3. \A d \in Closes : closer'[d].at = "conn" => closer'[d].on \in Connects
    BY <1>3 DEF SockInv, SlotInv
  <2> QED BY <1>2, <2>1, <2>2, <2>3, Zenon DEF SlotInv
<1>8. LeftInv' /\ RecvOwned'
  BY <1>1, Zenon DEF LeftInv, RecvOwned, is_loop_alive
<1> QED BY <1>5, <1>6, <1>7, <1>8, Zenon DEF SockInv

\* tcp_conn.reset(): the connection in the slot is closed by its destructor, which
\* waits: the slot is empty, and the close past it.
LEMMA ResetSock ==
    ASSUME SockInv, NEW c \in Closes, CloseTcpResumes(c), is_loop_alive,
           sock.conn # None, link[sock.conn].state # "closed"
    PROVE  SockInv'
<1>1. /\ link' = [link EXCEPT ![sock.conn].state = "closing"] /\ sock' = [sock EXCEPT !.conn = None]
      /\ At(c, "reset", sock.conn) /\ UNCHANGED <<loop, server, ccall, udp, uhandle>>
      /\ closer[c].at = "conn"
  BY Zenon DEF CloseTcpResumes, serverVars, udpVars
<1>2. sock.conn \in Connects /\ sock.type = "tcp"
  BY <1>1, Zenon DEF SockInv, SockTypes, Socks, KindInv
<1>3. /\ sock'.type = "tcp" /\ sock'.closed = sock.closed /\ sock'.conn = None
      /\ sock'.stray = sock.stray /\ sock' \in Socks
  BY <1>1, <1>2, Zenon DEF SockInv, SockTypes, Socks
<1>4. \A d \in Closes : closer'[d] = IF d = c THEN [at |-> "reset", on |-> sock.conn] ELSE closer[d]
  BY <1>1, Zenon DEF SockInv, SockTypes, At
<1>5. \A k \in Connects : link'[k] = IF k = sock.conn THEN [link[k] EXCEPT !.state = "closing"]
                                     ELSE link[k]
  BY <1>1, <1>2, Zenon DEF SockInv, SockTypes
<1>6. /\ \A k \in Connects : link'[k].reader = link[k].reader
      /\ \A k \in Connects : link'[k].state = IF k = sock.conn THEN "closing" ELSE link[k].state
      /\ link' \in [Connects -> Links]
  BY <1>1, <1>2, <1>5 DEF SockInv, SockTypes, Links
<1>7. SockTypes'
  BY <1>1, <1>2, <1>3, <1>6, Zenon DEF SockInv, SockTypes, At
<1>8. KindInv'
  BY <1>1, <1>3, <1>4 DEF SockInv, KindInv
<1>9. SlotInv'
  <2>1. \A d \in Closes : closer'[d].at = "conn" => closer'[d].on \in Connects
    BY <1>4 DEF SockInv, SlotInv
  <2>2. \A k \in Connects : link'[k].state = "open" => k \in sock'.stray
    BY <1>3, <1>6, Zenon DEF SockInv, SlotInv
  <2>3. \A k \in Connects : link'[k].state = "closed" => link'[k].reader = None
    BY <1>6, Zenon DEF SockInv, SlotInv
  <2> QED BY <1>3, <2>1, <2>2, <2>3, Zenon DEF SlotInv
<1>10. LeftInv'
  BY <1>1, <1>2, <1>3, Zenon DEF SockInv, LeftInv, KindInv
<1>11. RecvOwned'
  <2> SUFFICES ASSUME NEW k \in Connects, link[k].reader # None, k \notin sock.stray
               PROVE  \E d \in Closes : closer'[d] = [at |-> "reset", on |-> k]
    BY <1>3, <1>6, Zenon DEF RecvOwned
  <2>1. CASE k = sock.conn
    BY <1>4, <2>1, Zenon
  <2>2. CASE k # sock.conn
    <3>1. PICK d \in Closes : closer[d] = [at |-> "reset", on |-> k]
      BY <2>2, Zenon DEF SockInv, RecvOwned
    <3>2. d # c
      BY <1>1, <3>1
    <3> QED BY <1>4, <3>1, <3>2, Zenon
  <2> QED BY <2>1, <2>2, Zenon
<1> QED BY <1>7, <1>8, <1>9, <1>10, <1>11, Zenon DEF SockInv

\* The steps of close() on a TCP socket.
LEMMA CloseTcpSock ==
    ASSUME SockInv, NEW c \in Closes, CloseTcp(c) \/ CloseTcpResumes(c) \/ CloseTcpReset(c)
    PROVE  SockInv'
<1>0. sock.type = "tcp" /\ uhandle.state = "gone" /\ uhandle' = uhandle /\ udp' = udp
      /\ link \in [Connects -> Links] /\ sock.conn \in Connects \cup {None}
  BY Zenon DEF CloseTcp, CloseTcpResumes, CloseTcpReset, udpVars, SockInv, SockTypes, Socks, KindInv
<1>1. ASSUME Finish(c), closer[c].at # "reset", link' \in [Connects -> Links],
             \A k \in Connects :
                \/ link'[k] = link[k] /\ (k = sock.conn => link[k].state = "closed")
                \/ link'[k].state = "closed" /\ link'[k].reader = None
      PROVE  SockInv'
  <2>1. /\ server'.uv = "gone" /\ At(c, "done", None) /\ UNCHANGED <<loop, ccall>>
        /\ sock' = [sock EXCEPT !.conn = None, !.closed = TRUE, !.listening = FALSE]
    BY <1>1, ServerGone, Zenon DEF Finish
  <2>2. \A k \in Connects :
           /\ link'[k].state = "open" => link[k].state = "open" /\ (k = sock.conn => k \in sock.stray)
           /\ link'[k].state = "closed" => link'[k].reader = None
           /\ link'[k].reader # None /\ is_loop_alive =>
                 /\ link[k].reader # None
                 /\ None # k =>
                       k \in sock.stray \/ (k # sock.conn /\ closer[c] # [at |-> "reset", on |-> k])
    BY <1>1 DEF SockInv, SlotInv
  <2>3. None \in {None, sock.conn} /\ uhandle'.state = "gone"
    BY <1>0, Zenon
  <2> QED BY <1>0, <1>1, <2>1, <2>2, <2>3, FinishSock, Zenon
<1>2. CASE CloseTcp(c)
  <2>0. closer[c].at = "new"
    BY <1>2, Zenon DEF CloseTcp
  <2>1. CASE sock.closed
    <3>1. At(c, "done", None) /\ UNCHANGED <<loop, sock, ccall, server, udp, uhandle, link>>
      BY <1>0, <1>2, <2>1, Zenon DEF CloseTcp, serverVars
    <3> QED BY <1>0, <2>0, <3>1, BeginSock, Zenon
  <2>2. CASE ~sock.closed /\ sock.conn = None
    BY <1>0, <1>1, <1>2, <2>0, <2>2, ConnectsAssumption, Zenon DEF CloseTcp
  <2>3. CASE ~sock.closed /\ sock.conn # None
    <3>1. PICK st \in {"none", "open", "walked", "closing", "closed"} :
             /\ st = IF link[sock.conn].state = "closed" THEN link[sock.conn].state ELSE "closing"
             /\ link' = [link EXCEPT ![sock.conn].state = st]
      BY <1>0, <1>2, <2>3, Zenon DEF CloseTcp, Links
    <3>2. At(c, "conn", sock.conn) /\ UNCHANGED <<loop, sock, ccall, server, udp, uhandle>>
      BY <1>0, <1>2, <2>3, Zenon DEF CloseTcp, serverVars
    <3>3. \A k \in Connects : link'[k] = IF k = sock.conn THEN [link[k] EXCEPT !.state = st] ELSE link[k]
      BY <1>0, <2>3, <3>1, Zenon
    <3>4. link' \in [Connects -> Links] /\ \A k \in Connects :
              /\ link'[k].reader = link[k].reader
              /\ link'[k].state \in {link[k].state, "closing"}
      BY <1>0, <2>3, <3>1, <3>3 DEF Links
    <3> QED BY <1>0, <2>0, <2>3, <3>2, <3>4, BeginSock, Zenon
  <2> QED BY <2>1, <2>2, <2>3, Zenon
<1>3. CASE CloseTcpResumes(c)
  <2>0. closer[c].at = "conn"
    BY <1>3, Zenon DEF CloseTcpResumes
  <2>1. CASE sock.conn = None \/ link[sock.conn].state = "closed"
    BY <1>0, <1>1, <1>3, <2>0, <2>1, ConnectsAssumption, Zenon DEF CloseTcpResumes
  <2>2. CASE ~is_loop_alive /\ ~(sock.conn = None \/ link[sock.conn].state = "closed")
    <3>1. /\ link' = [link EXCEPT ![sock.conn] = [state |-> "closed", reader |-> None]]
          /\ Finish(c) /\ sock.conn \in Connects
      BY <1>0, <1>3, <2>2, Zenon DEF CloseTcpResumes
    <3>2. /\ link' \in [Connects -> Links]
          /\ \A k \in Connects : link'[k] = IF k = sock.conn THEN [state |-> "closed", reader |-> None]
                                            ELSE link[k]
      BY <1>0, <3>1, Zenon DEF Links
    <3> QED BY <1>1, <2>0, <3>1, <3>2, Zenon
  <2> QED BY <1>3, <2>1, <2>2, ResetSock, Zenon
<1>4. CASE CloseTcpReset(c)
  <2>1. /\ server'.uv = "gone" /\ At(c, "done", None) /\ UNCHANGED <<loop, ccall, link>>
        /\ closer[c].at = "reset" /\ link[closer[c].on].state = "closed"
    BY <1>4, ServerGone, Zenon DEF CloseTcpReset
  <2>2. sock' = [sock EXCEPT !.conn = sock.conn, !.closed = TRUE, !.listening = FALSE]
    BY <1>4, Zenon DEF CloseTcpReset, SockInv, SockTypes, Socks
  <2>3. Past
    BY <2>1, Zenon DEF Past
  <2>4. \A k \in Connects :
           /\ link'[k].state = "open" => link[k].state = "open" /\ (k = sock.conn => k \in sock.stray)
           /\ link'[k].state = "closed" => link'[k].reader = None
           /\ link'[k].reader # None /\ is_loop_alive =>
                 /\ link[k].reader # None
                 /\ sock.conn # k =>
                       k \in sock.stray \/ (k # sock.conn /\ closer[c] # [at |-> "reset", on |-> k])
    BY <2>1, <2>3, ConnectsAssumption DEF SockInv, SlotInv
  <2> QED BY <1>0, <2>1, <2>2, <2>3, <2>4, FinishSock, Zenon
<1> QED BY <1>2, <1>3, <1>4, Zenon

\* The steps of close() on a UDP socket: a UdpSocket that is open when the socket
\* is closed was made by send_to() while the destructor of another one waited.
LEMMA CloseUdpSock ==
    ASSUME SockInv, UdpInv, NEW c \in Closes, CloseUdp(c) \/ CloseUdpResumes(c)
    PROVE  SockInv'
<1>0. sock.type = "udp" /\ UNCHANGED <<loop, server, link, ccall>>
  BY Zenon DEF CloseUdp, CloseUdpResumes, serverVars
<1>1. sock.closed \in BOOLEAN /\ (\A b : b = sock.closed => sock = [sock EXCEPT !.closed = b])
  BY Zenon DEF SockInv, SockTypes, Socks
<1>2. UdpClose(c) => uhandle'.state # "open" \/ (uhandle' = uhandle /\ udp' = udp)
  BY Zenon DEF UdpClose, UdpInv, UdpTypes
<1>3. CASE CloseUdp(c)
  <2>1. PICK at \in {"udp", "done"} : At(c, at, None) /\ (at = "done" => sock.closed)
    BY <1>3, Zenon DEF CloseUdp
  <2>2. sock' = [sock EXCEPT !.closed = sock.closed]
    BY <1>1, <1>3, Zenon DEF CloseUdp
  <2>3. uhandle'.state # "open" \/ (uhandle' = uhandle /\ udp' = udp)
    BY <1>2, <1>3, Zenon DEF CloseUdp, udpVars
  <2>4. is_loop_alive /\ uhandle'.state = "open" =>
           /\ ~udp'.closed /\ uhandle.state = "open"
           /\ sock.closed \/ at = "reset" => Past
    BY <2>3, Zenon DEF SockInv, LeftInv, Past
  <2> QED BY <1>0, <1>1, <2>1, <2>2, <2>4, UdpSock, Zenon
<1>4. CASE CloseUdpResumes(c)
  <2>1. CASE is_loop_alive /\ ~udp.closed /\ closer[c].at = "udp"
    <3>1. /\ At(c, "reset", None) /\ sock' = [sock EXCEPT !.closed = sock.closed]
          /\ UdpClose(c)
      BY <1>1, <1>4, <2>1, Zenon DEF CloseUdpResumes
    <3>2. uhandle' = [uhandle EXCEPT !.state = "closing", !.cb = TRUE, !.receiving = FALSE]
      BY <2>1, <3>1, Zenon DEF UdpClose
    <3>3. uhandle'.state # "open"
      BY <3>2, Zenon DEF UdpInv, UdpTypes
    <3> QED BY <1>0, <1>1, <3>1, <3>3, UdpSock, Zenon
  <2>2. CASE ~(is_loop_alive /\ ~udp.closed /\ closer[c].at = "udp")
    <3>1. /\ At(c, "done", None) /\ sock' = [sock EXCEPT !.closed = TRUE]
          /\ uhandle' = uhandle /\ closer[c].at \in {"udp", "reset"}
          /\ is_loop_alive => udp' = [udp EXCEPT !.exists = FALSE]
      BY <1>4, <2>2, Zenon DEF CloseUdpResumes, UdpCloseDead
    <3>2. is_loop_alive => udp'.closed = udp.closed
      BY <3>1, Zenon DEF UdpInv, UdpTypes, Udps
    <3>3. is_loop_alive /\ uhandle'.state = "open" =>
             /\ ~udp'.closed /\ uhandle.state = "open"
             /\ TRUE \/ "done" = "reset" => Past
      BY <2>2, <3>1, <3>2, Zenon DEF SockInv, LeftInv, Past
    <3> QED BY <1>0, <3>1, <3>3, UdpSock, Zenon
  <2> QED BY <2>1, <2>2, Zenon
<1> QED BY <1>3, <1>4, Zenon

\* ~EventLoop: the walk closes what is open, and no operation is accepted any more.
LEMMA LoopSock ==
    ASSUME SockInv, UdpInv, ServerInv, LoopDies \/ LoopDead
    PROVE  SockInv'
<1>1. /\ UNCHANGED <<sock, ccall, closer>> /\ ~is_loop_alive'
  BY Zenon DEF LoopDies, LoopDead, sockVars, is_loop_alive
<1>2. /\ link' \in [Connects -> Links]
      /\ \A k \in Connects : /\ link'[k].reader = link[k].reader
                             /\ link'[k].state \in {link[k].state, "walked"}
                             /\ link[k].state = "none" => link'[k].state = "none"
  <2>1. CASE LoopDead
    BY <2>1, Zenon DEF LoopDead, sockVars, SockInv, SockTypes
  <2>2. CASE LoopDies
    <3>1. link' = [k \in Connects |-> [link[k] EXCEPT !.state = IF @ = "open" THEN "walked" ELSE @]]
      BY <2>2, Zenon DEF LoopDies
    <3>2. \A k \in Connects : link[k] \in Links
      BY Zenon DEF SockInv, SockTypes
    <3>3. \A k \in Connects : link'[k] = [link[k] EXCEPT !.state =
                                   IF link[k].state = "open" THEN "walked" ELSE link[k].state]
      BY <3>1, Zenon
    <3>4. \A k \in Connects : link'[k] \in Links
      BY <3>2, <3>3, ZenonT(30) DEF Links
    <3>5. link' \in [Connects -> Links]
      BY <3>1, <3>4, Zenon
    <3> QED BY <3>2, <3>3, <3>5, Zenon DEF Links
  <2> QED BY <2>1, <2>2, Zenon
<1>3. /\ server'.uv = "open" => server.uv = "open"
      /\ server.uv = "gone" => server'.uv = "gone"
      /\ uhandle.state = "gone" => uhandle'.state = "gone"
  BY Zenon DEF LoopDies, LoopDead, ServerWalk, UdpWalk, serverVars, udpVars, ServerInv, ServerTypes,
         Servers, UdpInv, UdpTypes
<1>4. SockTypes'
  BY <1>1, <1>2, Zenon DEF SockInv, SockTypes
<1>5. KindInv'
  <2>1. ASSUME NEW k \in Connects, link[k] = [state |-> "none", reader |-> None]
        PROVE  link'[k] = [state |-> "none", reader |-> None]
    <3>1. link'[k].state = "none" /\ link'[k].reader = None /\ link'[k] \in Links
      BY <1>2, <2>1
    <3> QED BY <3>1, Zenon DEF Links
  <2> QED BY <1>1, <1>3, <2>1, Zenon DEF SockInv, KindInv
<1>6. SlotInv'
  BY <1>1, <1>2, Zenon DEF SockInv, SlotInv, Past
<1>7. LeftInv' /\ RecvOwned'
  BY <1>1, <1>3, Zenon DEF SockInv, LeftInv, RecvOwned
<1> QED BY <1>4, <1>5, <1>6, <1>7, Zenon DEF SockInv

\* Every step of a socket keeps what is said of its slot.
LEMMA SockStep ==
    ASSUME SocketInv, [Next]_vars
    PROVE  SockInv'
<1> USE DEF SocketInv
<1>0. server \in Servers /\ udp \in Udps
      /\ uhandle \in [state : {"gone", "open", "closing"}, cb : BOOLEAN, receiving : BOOLEAN,
                      sends : SUBSET Sends]
  BY Zenon DEF ServerInv, ServerTypes, UdpInv, UdpTypes
<1>1. CASE UNCHANGED <<udpVars, sockVars>> /\ (OnServerClosed \/ OnServerWalked)
  <2>1. server'.uv \in {server.uv, "gone"} /\ UNCHANGED <<loop, uhandle, udp>>
    BY <1>0, <1>1, Zenon DEF OnServerClosed, OnServerWalked, Servers, udpVars
  <2> QED BY <1>1, <2>1, OutsideSock, Zenon
<1>2. CASE UNCHANGED <<serverVars, sockVars>> /\ UdpCallback
  <2>1. uhandle'.state \in {uhandle.state, "gone"} /\ UNCHANGED loop
        /\ (uhandle'.state = "open" => udp'.closed = udp.closed)
    <3>1. CASE OnUdpClosed
      BY <3>1, Zenon DEF OnUdpClosed, NoUdpHandle
    <3>2. CASE OnUdpRecvError \/ \E known \in BOOLEAN : OnUdpRecv(known)
      <4>1. /\ udp' = [udp EXCEPT !.pending = None] /\ uhandle' = [uhandle EXCEPT !.receiving = FALSE]
            /\ UNCHANGED loop
        BY <3>2, UdpReceives, Zenon
      <4> QED BY <1>0, <4>1, Zenon DEF Udps
    <3>3. ASSUME NEW c \in Sends, NEW o \in {"ok", "error"}, OnUdpSend(c, o)
          PROVE  UNCHANGED udp /\ uhandle'.state = uhandle.state /\ UNCHANGED loop
      BY <1>0, <3>3, Zenon DEF OnUdpSend
    <3> QED BY <1>2, <3>1, <3>2, <3>3, Zenon DEF UdpCallback
  <2> QED BY <1>2, <2>1, OutsideSock, Zenon DEF serverVars
<1>3. ASSUME NEW k \in Connects, OnLinkClosed(k) \/ TcpRecvDone(k) PROVE SockInv'
  BY <1>3, ReadSock, Zenon
<1>4. ASSUME NEW c \in Closes, CloseTcpResumes(c) \/ CloseTcpReset(c) \/ CloseTcp(c) PROVE SockInv'
  BY <1>4, CloseTcpSock, Zenon
<1>5. ASSUME NEW c \in Closes, CloseUdpResumes(c) \/ CloseUdp(c) \/ CloseDead(c) PROVE SockInv'
  BY <1>5, CloseUdpSock, DeadSock, Zenon
<1>6. CASE LoopDies \/ LoopDead
  BY <1>6, LoopSock, Zenon
<1>7. ASSUME NEW ok \in BOOLEAN, OnConnection(ok), UNCHANGED <<udpVars, sockVars>> PROVE SockInv'
  <2>1. server'.uv = server.uv
    BY <1>0, <1>7, Zenon DEF OnConnection, Dispatch, Servers
  <2> QED BY <1>7, <2>1, OutsideSock, Zenon DEF udpVars, OnConnection
<1>8. ASSUME NEW c \in Accepts, Accept(c) \/ (AcceptTimeout(c) /\ UNCHANGED <<udpVars, sockVars>>)
      PROVE  SockInv'
  <2>1. server'.uv = server.uv
    BY <1>0, <1>8, Zenon DEF Accept, AcceptFrom, AcceptTimeout, Servers
  <2> QED BY <1>8, <2>1, OutsideSock, Zenon DEF udpVars, Accept, AcceptTimeout
<1>9. ASSUME NEW ok \in BOOLEAN, Bind(ok) PROVE SockInv'
  <2>1. PICK l \in BOOLEAN : l <=> sock.local \/ sock.type = "tcp" \/ (ok /\ ~udp.closed)
    BY Zenon
  <2>2. sock' = [sock EXCEPT !.local = l, !.peer = sock.peer] /\ sock.peer \in BOOLEAN
    BY <1>9, <2>1, Zenon DEF Bind, SockInv, SockTypes, Socks
  <2>3. UNCHANGED <<loop, link, closer, server, uhandle, ccall>> /\ udp'.closed = udp.closed
    BY <1>0, <1>9, Zenon DEF Bind, UdpBind, udpVars, serverVars, Udps
  <2> QED BY <2>2, <2>3, FlagsSock, Zenon DEF SockInv, SockTypes
<1>10. ASSUME NEW c \in Listens, NEW o \in {"init", "bind", "ok"}, Listen(c, o) PROVE SockInv'
  BY <1>10, ListenSock, Zenon
<1>11. ASSUME NEW c \in Connects, Connect(c) \/ ConnectFailed(c) PROVE SockInv'
  <2>1. sock.local \in BOOLEAN /\ sock.peer \in BOOLEAN
    BY Zenon DEF SockInv, SockTypes, Socks
  <2>2. PICK p \in BOOLEAN : sock' = [sock EXCEPT !.local = sock.local, !.peer = p]
    <3>1. CASE Connect(c)
      <4>1. PICK p \in BOOLEAN : p <=> sock.peer \/ ccall'[c] = "ok"
        BY Zenon
      <4>2. sock' = [sock EXCEPT !.local = sock.local, !.peer = p]
        BY <3>1, <4>1, Zenon DEF Connect, SockInv, SockTypes, Socks
      <4> QED BY <4>2, Zenon
    <3>2. CASE ConnectFailed(c)
      <4>1. sock' = [sock EXCEPT !.local = sock.local, !.peer = sock.peer]
        BY <3>2, Zenon DEF ConnectFailed, SockInv, SockTypes, Socks
      <4> QED BY <2>1, <4>1, Zenon
    <3> QED BY <1>11, <3>1, <3>2, ZenonT(30)
  <2>3. UNCHANGED <<loop, link, closer, server, uhandle, udp>>
    BY <1>11, Zenon DEF Connect, ConnectFailed, serverVars, udpVars
  <2>4. PICK o \in {"error", "waiting", "ok"} :
           ccall' = [ccall EXCEPT ![c] = o] /\ (o = "waiting" => sock.type = "tcp")
    BY <1>11, Zenon DEF Connect, ConnectFailed
  <2>5. /\ ccall' \in [Connects -> {"new", "unused", "error", "waiting", "ok"}]
        /\ \A k \in Connects : ccall'[k] = "waiting" => ccall[k] = "waiting" \/ sock.type = "tcp"
    BY <2>4, Zenon DEF SockInv, SockTypes
  <2> QED BY <2>1, <2>2, <2>3, <2>5, FlagsSock, Zenon
<1>12. ASSUME NEW c \in Connects, Connected(c) PROVE SockInv'
  BY <1>12, ConnectedSock, Zenon
<1>13. ASSUME NEW c \in Recvs, TcpRecv(c) PROVE SockInv'
  BY <1>13, ReadSock, Zenon
<1>14. ASSUME NEW c \in Recvs, Received(c) PROVE SockInv'
  <2>1. sock' = [sock EXCEPT !.local = sock.local, !.peer = TRUE] /\ sock.local \in BOOLEAN
    BY <1>14, Zenon DEF Received, SockInv, SockTypes, Socks
  <2>2. UNCHANGED <<loop, link, closer, server, uhandle, udp, ccall>>
    BY <1>14, Zenon DEF Received, serverVars, udpVars
  <2> QED BY <2>1, <2>2, FlagsSock, Zenon DEF SockInv, SockTypes
<1>15. ASSUME NEW c \in Recvs, \/ \E started \in BOOLEAN : Recv(c, started)
                               \/ RecvTimeout(c) /\ UNCHANGED <<serverVars, sockVars>>
       PROVE  SockInv'
  <2>1. UNCHANGED <<loop, server, sockVars>>
    BY <1>15, Zenon DEF Recv, RecvTimeout, serverVars
  <2>2. uhandle'.state = uhandle.state /\ udp'.closed = udp.closed
    <3>1. CASE UNCHANGED <<udp, uhandle>>
      BY <3>1, Zenon
    <3> QED BY <1>15, <2>1, <3>1, UdpRecvs, Zenon DEF Recv
  <2> QED BY <2>1, <2>2, OutsideSock, Zenon
<1>16. ASSUME NEW c \in Sends, NEW any \in BOOLEAN, NEW start \in {"ok", "error", "waiting"},
              Send(c, any, start)
       PROVE  SockInv'
  <2>0. UNCHANGED <<loop, server, link, ccall, closer>> /\ sock.type = "udp"
    BY <1>16, Zenon DEF Send, serverVars
  <2>1. CASE udp' = udp /\ uhandle'.state = uhandle.state /\ UNCHANGED sock
    BY <2>0, <2>1, OutsideSock, Zenon DEF sockVars
  <2>2. CASE udp' = NewUdp /\ sock' = [sock EXCEPT !.stray = Stray({"udp"})]
    <3>1. udp' = [exists |-> TRUE, bound |-> FALSE, closing |-> FALSE, closed |-> FALSE,
                  pending |-> None, buffered |-> <<>>, waiters |-> {}, keepalive |-> TRUE]
      BY <2>2, Zenon DEF NewUdp, NoUdp
    <3>2. ~udp'.closed
      BY <3>1, Zenon
    <3> QED BY <2>0, <2>2, <3>2, SendSock, Zenon
  <2>3. CASE UdpSend(c, start) /\ UNCHANGED sock
    BY <1>0, <2>1, <2>3, Zenon DEF UdpSend
  <2> QED BY <1>16, <2>1, <2>2, <2>3, Zenon DEF Send
<1>17. CASE UNCHANGED vars
  BY <1>17, OutsideSock, Zenon DEF vars, serverVars, udpVars
<1> QED BY <1>1, <1>2, <1>3, <1>4, <1>5, <1>6, <1>7, <1>8, <1>9, <1>10, <1>11, <1>12, <1>13, <1>14,
           <1>15, <1>16, <1>17, ZenonT(30) DEF Next, Resume, Callback

\* The invariant of the socket with its server and its UDP socket.
LEMMA SocketInvariance == Spec => []SocketInv
<1>1. Init => UdpInv /\ SockInv
  <2> SUFFICES ASSUME Init PROVE UdpInv /\ SockInv
    BY Zenon
  <2>1. PICK type \in {"tcp", "udp"}, W \in Workloads :
          /\ sock = [type |-> type, closed |-> FALSE, listening |-> FALSE, local |-> FALSE,
                     peer |-> FALSE, conn |-> None, stray |-> {}]
          /\ udp = IF type = "udp" THEN NewUdp ELSE NoUdp
          /\ uhandle = IF type = "udp" THEN NewUdpHandle ELSE NoUdpHandle
          /\ ServerInit(W)
          /\ ucall = [c \in UdpCalls |-> First(c, W)]
          /\ ccall = [c \in Connects |-> First(c, W)]
          /\ closer = [c \in Closes |-> [at |-> First(c, W), on |-> None]]
    BY Zenon DEF Init
  <2>2. /\ delivered = 0 /\ loop = "running"
        /\ link = [c \in Connects |-> [state |-> "none", reader |-> None]]
    BY Zenon DEF Init
  <2>3. \A c : First(c, W) \in {"new", "unused"}
    BY Zenon DEF First
  <2>4. PICK b \in BOOLEAN : b <=> type = "udp"
    BY Zenon
  <2>5. udp = [exists |-> b, bound |-> FALSE, closing |-> FALSE, closed |-> ~b,
               pending |-> None, buffered |-> <<>>, waiters |-> {}, keepalive |-> b]
    <3>1. CASE type = "udp"
      <4>1. b = TRUE /\ ~b = FALSE
        BY <2>4, <3>1, Zenon
      <4>2. udp = [exists |-> TRUE, bound |-> FALSE, closing |-> FALSE, closed |-> FALSE,
                   pending |-> None, buffered |-> <<>>, waiters |-> {}, keepalive |-> TRUE]
        BY <2>1, <3>1, Zenon DEF NewUdp, NoUdp
      <4> QED BY <4>1, <4>2, Zenon
    <3>2. CASE type # "udp"
      <4>1. b = FALSE /\ ~b = TRUE
        BY <2>4, <3>2, Zenon
      <4>2. udp = NoUdp
        BY <2>1, <3>2, Zenon
      <4> QED BY <4>1, <4>2, Zenon DEF NoUdp
    <3> QED BY <3>1, <3>2, Zenon
  <2>6. uhandle = [state |-> IF type = "udp" THEN "open" ELSE "gone", cb |-> FALSE,
                   receiving |-> FALSE, sends |-> {}]
    BY <2>1, Zenon DEF NewUdpHandle, NoUdpHandle
  <2>7. UdpTypes
    <3>1. udp \in Udps
      BY <2>5, Zenon DEF Udps
    <3>2. uhandle \in [state : {"gone", "open", "closing"}, cb : BOOLEAN, receiving : BOOLEAN,
                       sends : SUBSET Sends]
      BY <2>6, Zenon
    <3>3. delivered \in 0 .. Len(Packets)
      BY <2>2, PacketsAssumption
    <3>4. ucall \in [UdpCalls -> {"new", "unused", "waiting", "ok", "error", "timeout"} \cup Items]
      BY <2>1, <2>3, Zenon
    <3> QED BY <3>1, <3>2, <3>3, <3>4, Zenon DEF UdpTypes
  <2>8. ReceivingForOne
    BY <2>6, Zenon DEF ReceivingForOne
  <2>9. SockTypes
    <3>1. sock \in Socks
      BY <2>1, Zenon DEF Socks
    <3>2. link \in [Connects -> Links]
      BY <2>2, Zenon DEF Links
    <3>3. ccall \in [Connects -> {"new", "unused", "error", "waiting", "ok"}]
      BY <2>1, <2>3, Zenon
    <3>4. closer \in [Closes -> [at : {"new", "unused", "conn", "udp", "reset", "done"},
                                 on : Connects \cup {None}]]
      BY <2>1, <2>3, Zenon
    <3> QED BY <3>1, <3>2, <3>3, <3>4, Zenon DEF SockTypes
  <2>10. /\ \A c \in Closes : closer[c].at \in {"new", "unused"}
         /\ \A k \in Connects : ccall[k] \in {"new", "unused"}
         /\ sock.type = type /\ sock.conn = None /\ sock.closed = FALSE /\ server.uv = "gone"
         /\ \A k \in Connects : link[k] = [state |-> "none", reader |-> None]
    BY <2>1, <2>2, <2>3, Zenon DEF ServerInit, NoServer
  <2>11. ~Past
    BY <2>10, Zenon DEF Past
  <2>12. KindInv
    BY <2>6, <2>10, Zenon DEF KindInv
  <2>13. SlotInv
    BY <2>10, <2>11 DEF SlotInv
  <2>14. LeftInv
    <3>1. uhandle.state = "open" => ~udp.closed
      BY <2>4, <2>5, <2>6, Zenon
    <3> QED BY <2>10, <2>11, <3>1, Zenon DEF LeftInv
  <2>15. RecvOwned
    BY <2>10 DEF RecvOwned
  <2> QED BY <2>7, <2>8, <2>9, <2>12, <2>13, <2>14, <2>15, Zenon DEF UdpInv, SockInv
<1>2. SocketInv /\ [Next]_vars => UdpInv' /\ SockInv'
  BY UdpStep, SockStep, Zenon
<1> QED BY <1>1, <1>2, ServerInvariance, PTL DEF Spec, SocketInv

\* close() of a Socket leaves nothing open that was in it before: what is open then
\* was stored by a listen(), send_to() or connect() that ran past the close, or was
\* pushed out of the slot by a second connect().
THEOREM CloseReleases == Spec => []ClosedReleases
<1>1. SocketInv => ClosedReleases
  <2> SUFFICES ASSUME SocketInv, sock.closed, is_loop_alive PROVE ClosedReleases
    BY Zenon DEF ClosedReleases
  <2>1. Past
    BY Zenon DEF Past
  <2>2. \A k \in Connects : link[k].state = "open" => k \in sock.stray
    BY <2>1, ConnectsAssumption, Zenon DEF SocketInv, SockInv, SlotInv
  <2> QED BY <2>1, <2>2, Zenon DEF SocketInv, SockInv, LeftInv, ClosedReleases
<1> QED BY <1>1, SocketInvariance, PTL

\* A recv_for() on a TCP socket that waits refers to a connection that is still in
\* the slot, or inside the destructor that close() waits for, or stray.
THEOREM ReceivesAreOwned == Spec => []RecvOwned
<1>1. SocketInv => RecvOwned
  BY Zenon DEF SocketInv, SockInv
<1> QED BY <1>1, SocketInvariance, PTL

-----------------------------------------------------------------------------
(* The receives of a UDP socket *)

\* A UdpSocket is destroyed only when it is closed.
DestroyedClosed == ~udp.exists => udp.closed

\* A receive on a UDP socket waits exactly while it is the pending one, and none is
\* pending once the socket is closed.
PendingInv ==
    /\ sock.type = "tcp" => udp = NoUdp
    /\ udp.closed => udp.pending = None
    /\ sock.type = "udp" => \A c \in Recvs : ucall[c] = "waiting" <=> udp.pending = c

\* A step that is allowed: it preserves PendingInv and is a step of the mailbox.
Mapped == PendingInv' /\ [Box!Next]_(Box!vars)

\* The type of a socket is the one it was made with.
LEMMA KindStays ==
    ASSUME SocketInv, [Next]_vars
    PROVE  sock'.type = sock.type
<1>0. sock \in Socks
  BY Zenon DEF SocketInv, SockInv, SockTypes
<1>1. CASE sock' = sock
  BY <1>1, Zenon
<1>2. ASSUME NEW c, Finish(c) PROVE sock'.type = sock.type
  BY <1>0, <1>2, Zenon DEF Finish, Socks
<1>3. ASSUME NEW c, CloseTcpResumes(c) \/ CloseTcpReset(c) \/ CloseTcp(c) \/ CloseUdp(c)
                    \/ CloseUdpResumes(c) \/ CloseDead(c)
      PROVE  sock'.type = sock.type
  BY <1>0, <1>1, <1>2, <1>3, Zenon DEF CloseTcpResumes, CloseTcpReset, CloseTcp, CloseUdp,
                                       CloseUdpResumes, CloseDead, Socks
<1>4. ASSUME NEW c, Connect(c) \/ Connected(c) \/ Received(c) PROVE sock'.type = sock.type
  BY <1>0, <1>4, Zenon DEF Connect, Connected, Received, Socks
<1>5. ASSUME NEW ok, Bind(ok) PROVE sock'.type = sock.type
  BY <1>0, <1>5, Zenon DEF Bind, Socks
<1>6. ASSUME NEW c, NEW o, Listen(c, o) PROVE sock'.type = sock.type
  BY <1>0, <1>6, Zenon DEF Listen, Socks
<1>7. ASSUME NEW c, NEW any, NEW start, Send(c, any, start) PROVE sock'.type = sock.type
  BY <1>0, <1>1, <1>7, Zenon DEF Send, Socks
<1>8. CASE \/ Callback \/ LoopDies \/ LoopDead \/ UNCHANGED vars
           \/ \E ok \in BOOLEAN : OnConnection(ok) /\ UNCHANGED <<udpVars, sockVars>>
           \/ \E c \in Accepts : Accept(c) \/ (AcceptTimeout(c) /\ UNCHANGED <<udpVars, sockVars>>)
           \/ \E c \in Connects : ConnectFailed(c) \/ TcpRecvDone(c)
           \/ \E c \in Recvs : \/ TcpRecv(c) \/ \E started \in BOOLEAN : Recv(c, started)
                               \/ RecvTimeout(c) /\ sock.type = "udp" /\ UNCHANGED <<serverVars, sockVars>>
  BY <1>1, <1>8, Zenon DEF Callback, LoopDies, LoopDead, vars, sockVars, Accept, ConnectFailed,
                           TcpRecvDone, TcpRecv, Recv, OnLinkClosed
<1> QED BY <1>3, <1>4, <1>5, <1>6, <1>7, <1>8, Zenon DEF Next, Resume

\* A step that the receives do not see is a stutter of the mailbox.
LEMMA MapSame ==
    ASSUME UdpTypes, UdpTypes', PendingInv, sock'.type = sock.type, delivered' = delivered,
           udp'.closed = udp.closed, udp'.pending = udp.pending,
           sock.type = "tcp" => udp' = udp,
           sock.type = "udp" => \A c \in Recvs : ucall'[c] = ucall[c]
    PROVE  Mapped
<1>1. PendingInv'
  BY Zenon DEF PendingInv, NoUdp
<1>2. [c \in Recvs |-> IF sock.type = "udp" /\ ucall[c] # "unused" THEN ucall[c] ELSE "new"]'
         = [c \in Recvs |-> IF sock.type = "udp" /\ ucall[c] # "unused" THEN ucall[c] ELSE "new"]
  BY Zenon
<1>3. (delivered - Len(udp.buffered))' = delivered - Len(udp.buffered)
  BY Zenon DEF UdpTypes, Udps
<1>4. UNCHANGED Box!vars
  BY <1>2, <1>3, Zenon DEF Box!vars
<1> QED BY <1>1, <1>4, Zenon DEF Mapped

\* Answering one receive is answering one call of the mailbox.
LEMMA MapAnswer ==
    ASSUME UdpTypes, UdpTypes', sock.type = "udp", sock'.type = "udp",
           NEW c \in Recvs, NEW o, o # "unused",
           ucall'[c] = o, \A d \in Recvs \ {c} : ucall'[d] = ucall[d]
    PROVE  Box!Answer(c, o)
BY Zenon DEF Box!Answer

\* A receive that fails, times out, or begins to wait leaves the mailbox as it is.
LEMMA MapReturns ==
    ASSUME UdpTypes, UdpTypes', PendingInv', sock.type = "udp", sock'.type = "udp",
           NEW c \in Recvs, NEW o, ucall'[c] = o, \A d \in Recvs \ {c} : ucall'[d] = ucall[d],
           delivered' = delivered, udp'.closed = udp.closed,
           \/ o = "error" /\ ucall[c] \in {"new", "waiting"}
           \/ o = "timeout" /\ ucall[c] = "waiting" /\ c \in TimedRecvs
           \/ o = "waiting" /\ ucall[c] = "new" /\ ~udp.closed /\ \A d \in Recvs : ucall[d] # "waiting"
    PROVE  Mapped
<1>1. Box!Answer(c, o)
  BY MapAnswer, Zenon
<1>2. (delivered - Len(udp.buffered))' = delivered - Len(udp.buffered)
  BY Zenon DEF UdpTypes, Udps
<1>3. Box!Fail(c) \/ Box!Timeout(c) \/ Box!Wait(c)
  BY <1>1, <1>2, Zenon DEF Box!Fail, Box!Timeout, Box!Wait, Box!Unanswered
<1> QED BY <1>3, Zenon DEF Mapped, Box!Next

\* A datagram is handed to the receive that waits, or lost with an error for it.
LEMMA MapPacket ==
    ASSUME UdpTypes, UdpTypes', PendingInv', sock.type = "udp", sock'.type = "udp",
           NEW c \in Recvs, ucall[c] = "waiting", ~udp.closed, udp'.closed = udp.closed,
           delivered < Len(Packets), delivered' = delivered + 1,
           ucall'[c] \in {Packets[delivered + 1], "error"},
           \A d \in Recvs \ {c} : ucall'[d] = ucall[d]
    PROVE  Mapped
<1>1. delivered + 1 \in DOMAIN Packets
  BY PacketsAssumption DEF UdpTypes
<1>2. PICK o : o = ucall'[c]
  BY Zenon
<1>3. o \in {Packets[delivered + 1], "error"} /\ o # "unused"
  BY <1>1, <1>2, PacketsAssumption, Zenon
<1>4. Box!Answer(c, o)
  BY <1>2, <1>3, MapAnswer, Zenon
<1>5. udp.buffered = <<>> /\ udp'.buffered = <<>> /\ delivered \in 0 .. Len(Packets)
  BY Zenon DEF UdpTypes, Udps
<1>6. delivered - Len(udp.buffered) = delivered /\ delivered' - Len(udp'.buffered) = delivered + 1
  BY <1>5, PacketsAssumption
<1>7. CASE o = Packets[delivered + 1]
  <2>0. o = Packets[delivered - Len(udp.buffered) + 1]
    BY <1>6, <1>7, Zenon
  <2>1. Box!Receive(c)
    BY <1>4, <1>6, <2>0, Zenon DEF Box!Receive, Box!Unanswered, Box!Answer
  <2> QED BY <2>1, Zenon DEF Mapped, Box!Next
<1>8. CASE o = "error"
  <2>1. Box!Lose(c)
    BY <1>4, <1>6, <1>8, Zenon DEF Box!Lose
  <2> QED BY <2>1, Zenon DEF Mapped, Box!Next
<1> QED BY <1>3, <1>7, <1>8, Zenon

\* A socket that closes answers the receive that waits, if one does.
LEMMA MapClosed ==
    ASSUME UdpTypes, UdpTypes', PendingInv, sock.type = "udp", sock'.type = "udp",
           udp'.closed = TRUE, udp'.pending = None, delivered' = delivered,
           \A c \in Recvs : ucall'[c] = IF c = udp.pending THEN "error" ELSE ucall[c]
    PROVE  Mapped
<1>0. None \notin Recvs /\ udp.pending \in Recvs \cup {None} /\ udp.closed \in BOOLEAN
  BY UdpCallsAssumption, Zenon DEF UdpTypes, Udps
<1>1. CASE udp.pending = None
  <2>1. \A c \in Recvs : ucall'[c] = ucall[c]
    BY <1>0, <1>1, Zenon
  <2>2. CASE udp.closed
    <3>1. udp'.closed = udp.closed
      BY <1>0, <2>2, Zenon
    <3> QED BY <1>1, <2>1, <3>1, MapSame, Zenon
  <2>3. CASE ~udp.closed
    <3>1. [c \in Recvs |-> IF sock.type = "udp" /\ ucall[c] # "unused" THEN ucall[c] ELSE "new"]'
             = [c \in Recvs |-> IF sock.type = "udp" /\ ucall[c] # "unused" THEN ucall[c] ELSE "new"]
      BY <2>1, Zenon
    <3>2. (delivered - Len(udp.buffered))' = delivered - Len(udp.buffered)
      BY Zenon DEF UdpTypes, Udps
    <3>3. Box!Close
      BY <2>3, <3>1, <3>2, Zenon DEF Box!Close
    <3>4. PendingInv'
      BY <1>1, <2>1, ZenonT(30) DEF PendingInv
    <3> QED BY <3>3, <3>4, Zenon DEF Mapped, Box!Next
  <2> QED BY <2>2, <2>3, Zenon
<1>2. CASE udp.pending \in Recvs
  <2>1. PICK c \in Recvs : c = udp.pending
    BY <1>2, Zenon
  <2>2. ucall[c] = "waiting" /\ ~udp.closed
    BY <1>0, <2>1, Zenon DEF PendingInv
  <2>3. ucall'[c] = "error" /\ \A d \in Recvs \ {c} : ucall'[d] = ucall[d]
    BY <2>1, Zenon
  <2>4. Box!Answer(c, "error")
    BY <2>3, MapAnswer, Zenon
  <2>5. (delivered - Len(udp.buffered))' = delivered - Len(udp.buffered)
    BY Zenon DEF UdpTypes, Udps
  <2>6. Box!Close
    BY <2>2, <2>4, <2>5, Zenon DEF Box!Close
  <2>7. PendingInv'
    BY <1>0, <2>1, <2>2, <2>3, ZenonT(30) DEF PendingInv
  <2> QED BY <2>6, <2>7, Zenon DEF Mapped, Box!Next
<1> QED BY <1>0, <1>1, <1>2, Zenon

\* The callbacks of libuv: a datagram, an error, the end of a send, the closed handle.
LEMMA CallbackMapped ==
    ASSUME SocketInv, SocketInv', PendingInv, sock'.type = sock.type, Callback
    PROVE  Mapped
<1>0. /\ UdpTypes /\ UdpTypes' /\ UdpInv /\ KindInv /\ LeftInv
      /\ udp.pending \in Recvs \cup {None} /\ udp.closed \in BOOLEAN
      /\ sock.type \in {"tcp", "udp"} /\ ucall \in [UdpCalls -> UdpAnswers]
  BY Zenon DEF SocketInv, UdpInv, SockInv, SockTypes, Socks, UdpTypes, Udps, UdpAnswers
<1>1. CASE UNCHANGED <<udpVars, sockVars>>
  BY <1>0, <1>1, MapSame, Zenon DEF udpVars
<1>2. CASE OnUdpClosed
  <2>1. sock.type = "udp" /\ delivered' = delivered
    BY <1>0, <1>2, Zenon DEF KindInv, OnUdpClosed
  <2>2. CASE uhandle.cb
    <3>1. udp' = UdpClosed(udp) /\ ucall' = UdpResolved(udp)
      BY <1>2, <2>2, Zenon DEF OnUdpClosed
    <3>2. udp'.closed = TRUE /\ udp'.pending = None /\ UdpClosed(udp).pending = None
      BY <1>0, <3>1, Zenon DEF UdpClosed, UdpTypes, Udps
    <3>3. ASSUME NEW c \in Recvs PROVE ucall'[c] = IF c = udp.pending THEN "error" ELSE ucall[c]
      <4>1. c \in UdpCalls /\ c \notin udp.waiters
        BY <1>0, UdpCallsAssumption, Zenon DEF UdpCalls, UdpTypes, Udps
      <4> QED BY <3>1, <3>2, <4>1, Zenon DEF UdpResolved
    <3> QED BY <1>0, <2>1, <3>2, <3>3, MapClosed, Zenon
  <2>3. CASE ~uhandle.cb
    <3>1. UNCHANGED <<udp, ucall>>
      BY <1>2, <2>3, Zenon DEF OnUdpClosed
    <3> QED BY <1>0, <2>1, <3>1, MapSame, Zenon
  <2> QED BY <2>2, <2>3, Zenon
<1>3. CASE OnUdpRecvError \/ \E known \in BOOLEAN : OnUdpRecv(known)
  <2>1. /\ udp' = [udp EXCEPT !.pending = None] /\ udp.pending \in Recvs /\ is_loop_alive
    BY <1>0, <1>3, UdpReceives, Zenon
  <2>2. udp'.pending = None /\ udp'.closed = udp.closed
    BY <1>0, <2>1, Zenon DEF UdpTypes, Udps
  <2>3. uhandle.state = "open"
    BY <1>3, Zenon DEF OnUdpRecvError, OnUdpRecv
  <2>4. sock.type = "udp" /\ ~udp.closed
    BY <1>0, <2>1, <2>3, Zenon DEF KindInv, LeftInv
  <2>5. PICK c \in Recvs : c = udp.pending
    BY <2>1, Zenon
  <2>6. ucall[c] = "waiting" /\ c # None /\ c \in UdpCalls /\ \A d \in Recvs \ {c} : ucall[d] # "waiting"
    BY <2>4, <2>5, UdpCallsAssumption, Zenon DEF PendingInv, UdpCalls
  <2>7. ASSUME NEW o, o # "waiting", ucall' = [ucall EXCEPT ![c] = o]
        PROVE  PendingInv' /\ ucall'[c] = o /\ \A d \in Recvs \ {c} : ucall'[d] = ucall[d]
    <3>1. ucall'[c] = o /\ \A d \in Recvs \ {c} : ucall'[d] = ucall[d]
      BY <1>0, <2>6, <2>7, Zenon DEF UdpCalls
    <3> QED BY <2>2, <2>4, <2>6, <2>7, <3>1, UdpCallsAssumption, Zenon DEF PendingInv
  <2>8. CASE OnUdpRecvError
    <3>1. ucall' = [ucall EXCEPT ![c] = "error"] /\ delivered' = delivered
      BY <2>5, <2>6, <2>8, Zenon DEF OnUdpRecvError
    <3>2. PendingInv' /\ ucall'[c] = "error" /\ \A d \in Recvs \ {c} : ucall'[d] = ucall[d]
      BY <2>7, <3>1, Zenon
    <3> QED BY <1>0, <2>2, <2>4, <2>6, <3>1, <3>2, MapReturns, Zenon
  <2>9. ASSUME NEW known \in BOOLEAN, OnUdpRecv(known) PROVE Mapped
    <3>1. delivered < Len(Packets) /\ delivered' = delivered + 1
      BY <2>9, Zenon DEF OnUdpRecv
    <3>2. delivered + 1 \in DOMAIN Packets
      BY <1>0, <3>1, PacketsAssumption DEF UdpTypes
    <3>3. PICK o \in {Packets[delivered + 1], "error"} : ucall' = [ucall EXCEPT ![c] = o]
      BY <2>5, <2>6, <2>9, Zenon DEF OnUdpRecv
    <3>4. o # "waiting"
      BY <3>2, PacketsAssumption, Zenon
    <3>5. PendingInv' /\ ucall'[c] = o /\ \A d \in Recvs \ {c} : ucall'[d] = ucall[d]
      BY <2>7, <3>3, <3>4, Zenon
    <3> QED BY <1>0, <2>2, <2>4, <2>6, <3>1, <3>3, <3>5, MapPacket, Zenon
  <2> QED BY <1>3, <2>8, <2>9, Zenon
<1>4. ASSUME NEW c \in Sends, NEW o \in {"ok", "error"}, OnUdpSend(c, o) PROVE Mapped
  <2>1. udp' = udp /\ delivered' = delivered /\ ucall' = [ucall EXCEPT ![c] = o]
    BY <1>4, Zenon DEF OnUdpSend, UdpAnswer
  <2>2. \A d \in Recvs : ucall'[d] = ucall[d]
    BY <1>0, <2>1, UdpCallsAssumption, Zenon DEF UdpCalls
  <2> QED BY <1>0, <2>1, <2>2, MapSame, Zenon
<1>5. ASSUME NEW k \in Connects, OnLinkClosed(k) PROVE Mapped
  <2>0. sock.type = "udp" => link[k].state = "none"
    BY <1>0 DEF KindInv
  <2>1. sock.type = "tcp" /\ UNCHANGED <<udp, delivered>>
    BY <1>0, <1>5, <2>0, Zenon DEF OnLinkClosed
  <2> QED BY <1>0, <2>1, MapSame, Zenon
<1> QED BY <1>1, <1>2, <1>3, <1>4, <1>5, Zenon DEF Callback, UdpCallback

\* recv() and recv_for(): one that waits is the only one, one that times out waited.
LEMMA RecvMapped ==
    ASSUME SocketInv, SocketInv', PendingInv, sock'.type = sock.type, NEW c \in Recvs,
           (\E started \in BOOLEAN : Recv(c, started)) \/ (RecvTimeout(c) /\ sock.type = "udp")
    PROVE  Mapped
<1>0. /\ UdpTypes /\ UdpTypes' /\ udp \in Udps /\ udp.buffered = <<>> /\ udp.pending \in Recvs \cup {None}
      /\ None \notin Recvs /\ c \in UdpCalls /\ sock.type = "udp" /\ ucall \in [UdpCalls -> UdpAnswers]
  BY UdpCallsAssumption, Zenon DEF SocketInv, UdpInv, UdpTypes, Udps, UdpAnswers, UdpCalls, Recv
<1>1. ASSUME NEW o, ucall' = [ucall EXCEPT ![c] = o]
      PROVE  ucall'[c] = o /\ \A d \in Recvs \ {c} : ucall'[d] = ucall[d]
  BY <1>0, <1>1, Zenon DEF UdpCalls
<1>2. CASE ucall[c] = "new" /\ UdpAnswer(c, "error") /\ delivered' = delivered /\ udp'.closed = udp.closed
           /\ udp'.pending = udp.pending
  <2>1. ucall'[c] = "error" /\ \A d \in Recvs \ {c} : ucall'[d] = ucall[d]
    BY <1>1, <1>2, Zenon DEF UdpAnswer
  <2>2. PendingInv'
    BY <1>0, <1>2, <2>1, Zenon DEF PendingInv
  <2> QED BY <1>0, <1>2, <2>1, <2>2, MapReturns, Zenon
<1>3. ASSUME NEW started \in BOOLEAN, UdpRecv(c, started), ucall[c] = "new" PROVE Mapped
  <2>1. /\ ucall' = [ucall EXCEPT ![c] = RecvResult(started)] /\ delivered' = delivered
        /\ udp' = [udp EXCEPT !.buffered = udp.buffered,
                              !.pending = IF RecvResult(started) = "waiting" THEN c ELSE udp.pending]
    BY <1>0, <1>3, Zenon DEF UdpRecv, UdpAnswer
  <2>2. udp'.closed = udp.closed
        /\ udp'.pending = IF RecvResult(started) = "waiting" THEN c ELSE udp.pending
    BY <1>0, <2>1, Zenon DEF Udps
  <2>3. CASE RecvResult(started) = "waiting"
    <3>1. ~udp.closed /\ udp.pending = None
      BY <1>0, <2>3, Zenon DEF RecvResult
    <3>2. ucall'[c] = "waiting" /\ \A d \in Recvs \ {c} : ucall'[d] = ucall[d]
      BY <1>1, <2>1, <2>3, Zenon
    <3>3. \A d \in Recvs : ucall[d] # "waiting"
      BY <1>0, <3>1, Zenon DEF PendingInv
    <3>4. PendingInv'
      BY <1>0, <2>2, <2>3, <3>1, <3>2, <3>3, Zenon DEF PendingInv
    <3> QED BY <1>0, <1>3, <2>1, <2>2, <3>1, <3>2, <3>3, <3>4, MapReturns, Zenon
  <2>4. CASE RecvResult(started) # "waiting"
    <3>1. RecvResult(started) = "error"
      BY <1>0, <2>4, Zenon DEF RecvResult
    <3> QED BY <1>2, <1>3, <2>1, <2>2, <2>4, <3>1, Zenon DEF UdpAnswer
  <2> QED BY <2>3, <2>4, Zenon
<1>4. CASE RecvTimeout(c)
  <2>1. ucall[c] = "waiting" /\ c \in TimedRecvs /\ udp.pending = c
    BY <1>0, <1>4, Zenon DEF RecvTimeout, PendingInv
  <2>2. /\ ucall' = [ucall EXCEPT ![c] = "timeout"] /\ udp' = [udp EXCEPT !.pending = None]
        /\ delivered' = delivered
    BY <1>4, <2>1, Zenon DEF RecvTimeout, UdpAnswer
  <2>3. udp'.closed = udp.closed /\ udp'.pending = None
    BY <1>0, <2>2, Zenon DEF Udps
  <2>4. ucall'[c] = "timeout" /\ \A d \in Recvs \ {c} : ucall'[d] = ucall[d]
    BY <1>1, <2>2, Zenon
  <2>5. PendingInv'
    BY <1>0, <2>1, <2>3, <2>4, Zenon DEF PendingInv
  <2> QED BY <1>0, <2>1, <2>2, <2>3, <2>4, <2>5, MapReturns, Zenon
<1> QED BY <1>2, <1>3, <1>4, Zenon DEF Recv

\* send() and send_to(), which opens the mailbox when it makes a new UdpSocket.
LEMMA SendMapped ==
    ASSUME SocketInv, SocketInv', PendingInv, DestroyedClosed, sock'.type = sock.type, NEW c \in Sends,
           NEW any \in BOOLEAN, NEW start \in {"ok", "error", "waiting"}, Send(c, any, start)
    PROVE  Mapped
<1>0. /\ UdpTypes /\ UdpTypes' /\ None \notin Recvs /\ sock.type = "udp" /\ sock'.type = "udp"
      /\ ucall \in [UdpCalls -> UdpAnswers] /\ delivered' = delivered
  BY UdpCallsAssumption, Zenon DEF SocketInv, UdpInv, UdpTypes, UdpAnswers, Send, UdpSend
<1>1. \A d \in Recvs : ucall'[d] = ucall[d]
  <2>1. PICK o : ucall' = [ucall EXCEPT ![c] = o]
    BY Zenon DEF Send, UdpSend, UdpAnswer
  <2> QED BY <1>0, <2>1, UdpCallsAssumption, Zenon DEF UdpCalls
<1>2. CASE udp' = udp
  BY <1>0, <1>1, <1>2, MapSame, Zenon
<1>3. CASE ~udp.exists /\ udp' = NewUdp
  <2>1. udp' = [exists |-> TRUE, bound |-> FALSE, closing |-> FALSE, closed |-> FALSE,
                pending |-> None, buffered |-> <<>>, waiters |-> {}, keepalive |-> TRUE]
    BY <1>3, Zenon DEF NewUdp, NoUdp
  <2>2. ~udp'.closed /\ udp'.pending = None /\ udp.closed /\ udp.pending = None
    <3>1. udp'.closed = FALSE /\ udp'.pending = None
      BY <2>1
    <3> QED BY <1>3, <3>1, Zenon DEF DestroyedClosed, PendingInv
  <2>3. PendingInv'
    BY <1>0, <1>1, <2>2, Zenon DEF PendingInv
  <2>4. [d \in Recvs |-> IF sock.type = "udp" /\ ucall[d] # "unused" THEN ucall[d] ELSE "new"]'
           = [d \in Recvs |-> IF sock.type = "udp" /\ ucall[d] # "unused" THEN ucall[d] ELSE "new"]
    BY <1>0, <1>1, Zenon
  <2>5. (delivered - Len(udp.buffered))' = delivered - Len(udp.buffered)
    BY <1>0, Zenon DEF UdpTypes, Udps
  <2>6. Box!Open
    BY <2>2, <2>4, <2>5, Zenon DEF Box!Open
  <2> QED BY <2>3, <2>6, Zenon DEF Mapped, Box!Next
<1> QED BY <1>2, <1>3, Zenon DEF Send, UdpSend

\* close() and the destructor: on a dead loop they answer the receive that waits, and
\* otherwise they leave it to on_udp_closed.
LEMMA CloseMapped ==
    ASSUME SocketInv, SocketInv', PendingInv, sock'.type = sock.type, NEW c \in Closes,
           CloseDead(c) \/ CloseUdp(c) \/ CloseUdpResumes(c)
    PROVE  Mapped
<1>0. /\ UdpTypes /\ UdpTypes' /\ udp \in Udps /\ c \in UdpCalls /\ c \notin Recvs /\ KindInv
      /\ sock.type \in {"tcp", "udp"} /\ ucall \in [UdpCalls -> UdpAnswers]
  BY UdpCallsAssumption, Zenon DEF SocketInv, UdpInv, UdpTypes, UdpAnswers, UdpCalls, SockInv, SockTypes, Socks
<1>1. CASE udp' = udp /\ delivered' = delivered /\ ucall' = ucall
  BY <1>0, <1>1, MapSame, Zenon
<1>2. CASE UdpClose(c) /\ sock.type = "udp"
  <2>1. delivered' = delivered /\ \E o : ucall' = [ucall EXCEPT ![c] = o]
    BY <1>2, Zenon DEF UdpClose, UdpAnswer
  <2>2. \A d \in Recvs : ucall'[d] = ucall[d]
    BY <1>0, <2>1, Zenon DEF UdpCalls
  <2>3. udp'.closed = udp.closed /\ udp'.pending = udp.pending
    BY <1>0, <1>2, Zenon DEF UdpClose, Udps
  <2> QED BY <1>0, <1>2, <2>1, <2>2, <2>3, MapSame, Zenon
<1>3. CASE UdpCloseDead(c) /\ udp.exists
  <2>1. sock.type = "udp"
    <3>1. NoUdp.exists = FALSE
      BY Zenon DEF NoUdp
    <3> QED BY <1>0, <1>3, <3>1, Zenon DEF PendingInv
  <2>2. udp'.closed = TRUE /\ udp'.pending = None /\ delivered' = delivered
    BY <1>0, <1>3, Zenon DEF UdpCloseDead, Udps
  <2>3. \A d \in Recvs : ucall'[d] = IF d = udp.pending THEN "error" ELSE ucall[d]
    BY <1>0, <1>3, Zenon DEF UdpCloseDead, UdpCalls
  <2> QED BY <1>0, <2>1, <2>2, <2>3, MapClosed, Zenon
<1>4. CASE CloseDead(c)
  <2>1. CASE ~udp.exists
    <3>1. UNCHANGED <<udp, delivered>> /\ (ucall' = ucall \/ sock.conn # None)
      BY <1>4, <2>1, Zenon DEF CloseDead
    <3>2. sock.conn # None => sock.type = "tcp"
      BY <1>0, Zenon DEF KindInv
    <3> QED BY <1>0, <3>1, <3>2, MapSame, Zenon
  <2> QED BY <1>3, <1>4, <2>1, Zenon DEF CloseDead
<1>5. CASE CloseUdp(c)
  BY <1>1, <1>2, <1>5, Zenon DEF CloseUdp, udpVars
<1>6. CASE CloseUdpResumes(c)
  <2>1. CASE udp' = [udp EXCEPT !.exists = FALSE] /\ UNCHANGED <<uhandle, delivered, ucall>>
    <3>1. udp'.closed = udp.closed /\ udp'.pending = udp.pending /\ sock.type = "udp"
      BY <1>0, <1>6, <2>1, Zenon DEF Udps, CloseUdpResumes
    <3> QED BY <1>0, <2>1, <3>1, MapSame, Zenon
  <2> QED BY <1>2, <1>3, <1>6, <2>1, Zenon DEF CloseUdpResumes
<1> QED BY <1>4, <1>5, <1>6, Zenon

\* Every step is a step or a stutter of the mailbox while DestroyedClosed holds.
LEMMA NextMapped ==
    ASSUME SocketInv, SocketInv', PendingInv, DestroyedClosed, [Next]_vars
    PROVE  Mapped
<1>0. /\ UdpTypes /\ UdpTypes' /\ udp \in Udps /\ sock'.type = sock.type /\ sock.type \in {"tcp", "udp"}
      /\ KindInv
  BY KindStays, Zenon DEF SocketInv, UdpInv, UdpTypes, SockInv, SockTypes, Socks
<1>1. CASE Callback
  BY <1>0, <1>1, CallbackMapped, Zenon
<1>2. ASSUME NEW c \in Recvs,
             (\E started \in BOOLEAN : Recv(c, started)) \/ (RecvTimeout(c) /\ sock.type = "udp")
      PROVE  Mapped
  BY <1>0, <1>2, RecvMapped, Zenon
<1>3. ASSUME NEW c \in Sends, NEW any \in BOOLEAN, NEW start \in {"ok", "error", "waiting"}, Send(c, any, start)
      PROVE  Mapped
  BY <1>0, <1>3, SendMapped, Zenon
<1>4. ASSUME NEW c \in Closes, CloseDead(c) \/ CloseUdp(c) \/ CloseUdpResumes(c) PROVE Mapped
  BY <1>0, <1>4, CloseMapped, Zenon
<1>5. CASE UNCHANGED <<udp, delivered, ucall>>
  BY <1>0, <1>5, MapSame, Zenon
<1>6. CASE sock.type = "tcp" /\ UNCHANGED <<udp, delivered>>
  BY <1>0, <1>6, MapSame, Zenon
<1>7. ASSUME NEW c \in Connects, TcpRecvDone(c) PROVE Mapped
  <2>1. sock.type = "udp" => link[c].reader = None
    BY <1>0 DEF KindInv
  <2> QED BY <1>0, <1>6, <1>7, <2>1, Zenon DEF TcpRecvDone
<1>8. ASSUME NEW c \in Recvs, TcpRecv(c) PROVE Mapped
  BY <1>6, <1>8, Zenon DEF TcpRecv
<1>9. ASSUME NEW ok \in BOOLEAN, Bind(ok) PROVE Mapped
  <2>1. CASE sock.type = "udp"
    <3>1. udp'.closed = udp.closed /\ udp'.pending = udp.pending /\ UNCHANGED <<delivered, ucall>>
      BY <1>0, <1>9, <2>1, Zenon DEF Bind, UdpBind, Udps
    <3> QED BY <1>0, <2>1, <3>1, MapSame, Zenon
  <2> QED BY <1>5, <1>9, <2>1, Zenon DEF Bind, udpVars
<1>10. ASSUME NEW c \in Closes, CloseTcpResumes(c) \/ CloseTcpReset(c) \/ CloseTcp(c) PROVE Mapped
  BY <1>5, <1>10, Zenon DEF CloseTcpResumes, CloseTcpReset, CloseTcp, udpVars
<1>11. CASE \/ LoopDies \/ LoopDead \/ UNCHANGED vars
            \/ \E ok \in BOOLEAN : OnConnection(ok) /\ UNCHANGED <<udpVars, sockVars>>
            \/ \E c \in Accepts : Accept(c) \/ (AcceptTimeout(c) /\ UNCHANGED <<udpVars, sockVars>>)
            \/ \E c \in Listens, o \in {"init", "bind", "ok"} : Listen(c, o)
            \/ \E c \in Connects : Connect(c) \/ Connected(c) \/ ConnectFailed(c)
            \/ \E c \in Recvs : Received(c)
  BY <1>5, <1>11, Zenon DEF LoopDies, LoopDead, vars, udpVars, Accept, Listen, Connect, Connected,
                            ConnectFailed, Received
<1> QED BY <1>1, <1>2, <1>3, <1>4, <1>7, <1>8, <1>9, <1>10, <1>11, Zenon DEF Next, Resume

\* A new socket has no receive, and is an open or a closed mailbox.
LEMMA InitMapped == Init => PendingInv /\ Box!Init
<1> SUFFICES ASSUME Init PROVE PendingInv /\ Box!Init
  BY Zenon
<1>1. PICK type \in {"tcp", "udp"}, W \in Workloads :
        /\ sock = [type |-> type, closed |-> FALSE, listening |-> FALSE, local |-> FALSE,
                   peer |-> FALSE, conn |-> None, stray |-> {}]
        /\ udp = IF type = "udp" THEN NewUdp ELSE NoUdp
        /\ ucall = [c \in UdpCalls |-> First(c, W)]
  BY Zenon DEF Init
<1>2. sock.type = type
  BY <1>1, Zenon
<1>3. udp.pending = None /\ udp.buffered = <<>> /\ udp.closed \in BOOLEAN
  <2>1. CASE type = "udp"
    <3>1. udp = [exists |-> TRUE, bound |-> FALSE, closing |-> FALSE, closed |-> FALSE,
                 pending |-> None, buffered |-> <<>>, waiters |-> {}, keepalive |-> TRUE]
      BY <1>1, <2>1, Zenon DEF NewUdp, NoUdp
    <3> QED BY <3>1
  <2>2. CASE type # "udp"
    BY <1>1, <2>2 DEF NoUdp
  <2> QED BY <2>1, <2>2, Zenon
<1>4. \A c \in Recvs : c \in UdpCalls /\ c # None /\ ucall[c] \in {"new", "unused"}
  BY <1>1, UdpCallsAssumption, Zenon DEF UdpCalls, First
<1>5. PendingInv
  BY <1>1, <1>2, <1>3, <1>4, Zenon DEF PendingInv
<1>6. [c \in Recvs |-> IF sock.type = "udp" /\ ucall[c] # "unused" THEN ucall[c] ELSE "new"]
        = [c \in Recvs |-> "new"]
  BY <1>4, Zenon
<1>7. delivered - Len(udp.buffered) = 0
  BY <1>3 DEF Init
<1>8. Box!Init
  BY <1>3, <1>6, <1>7, Zenon DEF Box!Init
<1> QED BY <1>5, <1>8, Zenon

\* The receives of a UDP Socket implement a lossy Mailbox, as long as no UdpSocket is
\* destroyed before it is closed: send_to() would otherwise replace it, and a receive
\* that waits on it, while close() is still inside udp.reset().
THEOREM DatagramsImplementMailbox == Spec /\ []DestroyedClosed => DatagramsAreMailbox
<1>1. Init => PendingInv /\ Box!Init
  BY InitMapped, Zenon
<1>2. SocketInv /\ SocketInv' /\ PendingInv /\ DestroyedClosed /\ [Next]_vars
         => PendingInv' /\ [Box!Next]_(Box!vars)
  BY NextMapped, Zenon DEF Mapped
<1> QED BY <1>1, <1>2, SocketInvariance, PTL DEF Spec, DatagramsAreMailbox, Box!Spec
=============================================================================
