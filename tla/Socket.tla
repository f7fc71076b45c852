-------------------------------- MODULE Socket --------------------------------
(***************************************************************************)
(* fiberuv::io::Socket (src/io_unified.cpp) over TcpServer, UdpSocket and  *)
(* the connections of TcpClient, used from fibers of the loop.             *)
(*                                                                         *)
(* A call that waits inside Socket leaves the members of Impl to the other *)
(* calls: close() waits for the connection and for the UDP socket, and     *)
(* connect() stores what it got when it resumes.  A connection is modelled *)
(* by its state, the call that reads from it, and the slot that holds it.  *)
(***************************************************************************)
EXTENDS TcpServer, UdpSocket

CONSTANTS
    Connects,       \* calls of connect() and connect_for() on a TCP socket
    Workloads       \* sets of calls that are made on one socket: a bound

ASSUME ConnectsAssumption == Connects \cap {None, "server", "udp"} = {}

VARIABLES
    sock,       \* the Impl; stray: what was stored in it past a close(), and the
                \* connections that a later connect() has replaced
    link,       \* the connection of each connect(): its state and its reader
    ccall,      \* what each connect() returned
    closer      \* how far each close() is, and the connection it waits for

sockVars == <<sock, link, ccall, closer>>
vars == <<loop, serverVars, udpVars, sockVars>>

First(c, W) == IF c \in W THEN "new" ELSE "unused"

Init ==
    /\ loop = "running"
    /\ \E type \in {"tcp", "udp"}, W \in Workloads :
         /\ sock = [type |-> type, closed |-> FALSE, listening |-> FALSE, local |-> FALSE,
                    peer |-> FALSE, conn |-> None, stray |-> {}]
         /\ udp = IF type = "udp" THEN NewUdp ELSE NoUdp
         /\ uhandle = IF type = "udp" THEN NewUdpHandle ELSE NoUdpHandle
         /\ ServerInit(W)
         /\ ucall = [c \in UdpCalls |-> First(c, W)]
         /\ ccall = [c \in Connects |-> First(c, W)]
         /\ closer = [c \in Closes |-> [at |-> First(c, W), on |-> None]]
    /\ delivered = 0
    /\ link = [c \in Connects |-> [state |-> "none", reader |-> None]]

Past == sock.closed \/ \E c \in Closes : closer[c].at = "reset"
Stray(S) == IF Past THEN sock.stray \cup S ELSE sock.stray

-----------------------------------------------------------------------------
(* bind, listen, accept *)

Bind(ok) ==
    /\ is_loop_alive /\ ~sock.closed
    /\ sock' = [sock EXCEPT !.local = @ \/ sock.type = "tcp" \/ (ok /\ ~udp.closed)]
    /\ IF sock.type = "udp" THEN UdpBind(ok) ELSE UNCHANGED udpVars
    /\ UNCHANGED <<loop, serverVars, link, ccall, closer>>

\* listen() does not look at closed
Listen(c, o) ==
    /\ is_loop_alive /\ sock.type = "tcp" /\ sock.local /\ acall[c] = "new"
    /\ AcceptAnswer(c, o)
    /\ server' = Listening([server EXCEPT !.exists = TRUE], o)
    /\ sock' = [sock EXCEPT !.listening = @ \/ server'.listening, !.stray = Stray({"server"})]
    /\ UNCHANGED <<loop, ending, came, udpVars, link, ccall, closer>>

Accept(c) ==
    /\ FibersRun /\ acall[c] = "new"
    /\ IF is_loop_alive /\ sock.type = "tcp" /\ sock.listening /\ server.exists
       THEN AcceptFrom(c)
       ELSE AcceptAnswer(c, "error") /\ UNCHANGED <<server, ending, came>>
    /\ UNCHANGED <<loop, udpVars, sockVars>>

-----------------------------------------------------------------------------
(* connect, and recv on the connection *)

Connect(c) ==
    /\ FibersRun /\ ccall[c] = "new"
    /\ ccall' = [ccall EXCEPT ![c] = IF ~is_loop_alive \/ sock.closed THEN "error"
                                     ELSE IF sock.type = "tcp" THEN "waiting" ELSE "ok"]
    /\ sock' = [sock EXCEPT !.peer = @ \/ ccall'[c] = "ok"]
    /\ UNCHANGED <<loop, serverVars, udpVars, link, closer>>

\* connect() resumes with a connection: the one in the slot is not closed
Connected(c) ==
    /\ is_loop_alive /\ ccall[c] = "waiting"
    /\ ccall' = [ccall EXCEPT ![c] = "ok"]
    /\ link' = [link EXCEPT ![c].state = "open"]
    /\ sock' = [sock EXCEPT !.conn = c,
                            !.stray = Stray({c}) \cup ({sock.conn} \ {None})]
    /\ UNCHANGED <<loop, serverVars, udpVars, closer>>

\* connect() fails, or connect_for() times out
ConnectFailed(c) ==
    /\ ccall[c] = "waiting"
    /\ ccall' = [ccall EXCEPT ![c] = "error"]
    /\ UNCHANGED <<loop, serverVars, udpVars, sock, link, closer>>

\* recv_for() on a TCP socket refers to the connection in the slot
TcpRecv(c) ==
    /\ FibersRun /\ sock.type = "tcp" /\ c \in TimedRecvs /\ ucall[c] = "new"
    /\ IF is_loop_alive /\ sock.conn # None /\ link[sock.conn] = [state |-> "open", reader |-> None]
       THEN /\ link' = [link EXCEPT ![sock.conn].reader = c]
            /\ UdpAnswer(c, "waiting")
       ELSE UdpAnswer(c, "error") /\ UNCHANGED link
    /\ UNCHANGED <<loop, serverVars, udp, uhandle, delivered, sock, ccall, closer>>

\* data, end of stream, an error, or the timeout
TcpRecvDone(k) ==
    /\ is_loop_alive /\ link[k].reader # None
    /\ UdpAnswer(link[k].reader, "ok")
    /\ link' = [link EXCEPT ![k].reader = None]
    /\ UNCHANGED <<loop, serverVars, udp, uhandle, delivered, sock, ccall, closer>>

\* on_connection_closed
OnLinkClosed(k) ==
    /\ CallbacksRun /\ link[k].state = "closing"
    /\ link' = [link EXCEPT ![k] = [state |-> "closed", reader |-> None]]
    /\ IF link[k].reader # None THEN UdpAnswer(link[k].reader, "error") ELSE UNCHANGED ucall
    /\ UNCHANGED <<loop, serverVars, udp, uhandle, delivered, sock, ccall, closer>>

-----------------------------------------------------------------------------
(* send and recv on a UDP socket *)

\* send() needs a peer; send_to() (any = TRUE) does not look at closed and makes
\* a new UdpSocket when there is none
Send(c, any, start) ==
    /\ FibersRun /\ sock.type = "udp" /\ c \in Sends /\ ucall[c] = "new"
    /\ IF ~is_loop_alive \/ (~any /\ ~(udp.exists /\ sock.peer))
       THEN UdpAnswer(c, "error") /\ UNCHANGED <<udp, uhandle, delivered, sock>>
       ELSE IF udp.exists THEN UdpSend(c, start) /\ UNCHANGED sock
       ELSE /\ udp' = NewUdp
            /\ uhandle' = [NewUdpHandle EXCEPT !.sends = IF start = "waiting" THEN {c} ELSE {}]
            /\ UdpAnswer(c, start)
            /\ sock' = [sock EXCEPT !.stray = Stray({"udp"})]
            /\ UNCHANGED delivered
    /\ UNCHANGED <<loop, serverVars, link, ccall, closer>>

Recv(c, started) ==
    /\ FibersRun /\ sock.type = "udp" /\ c \in Recvs /\ ucall[c] = "new"
    /\ IF is_loop_alive /\ udp.exists THEN UdpRecv(c, started)
       ELSE UdpAnswer(c, "error") /\ UNCHANGED <<udp, uhandle, delivered>>
    /\ UNCHANGED <<loop, serverVars, sockVars>>

\* recv() resumes and remembers the sender
Received(c) ==
    /\ FibersRun /\ sock.type = "udp" /\ ~sock.peer /\ ucall[c] \in Range(Packets)
    /\ sock' = [sock EXCEPT !.peer = TRUE]
    /\ UNCHANGED <<loop, serverVars, udpVars, link, ccall, closer>>

-----------------------------------------------------------------------------
(* close *)

At(c, at, on) == closer' = [closer EXCEPT ![c] = [at |-> at, on |-> on]]

\* Faulty: the server is forgotten, not closed.
FinishUnserved(c) ==
    /\ sock' = [sock EXCEPT !.conn = None, !.closed = TRUE, !.listening = FALSE]
    /\ At(c, "done", None)
    /\ UNCHANGED <<loop, serverVars, ccall>>

\* the slot is emptied, the server closed without waiting, and the socket with it
Finish(c) ==
    /\ ServerClose
    /\ sock' = [sock EXCEPT !.conn = None, !.closed = TRUE, !.listening = FALSE]
    /\ At(c, "done", None)
    /\ UNCHANGED <<loop, ccall>>

\* close() when the loop is gone, on either type
CloseDead(c) ==
    /\ loop = "dead" /\ closer[c].at = "new"
    /\ Finish(c)
    /\ link' = IF sock.conn = None THEN link
               ELSE [link EXCEPT ![sock.conn] = [state |-> "closed", reader |-> None]]
    /\ IF udp.exists THEN UdpCloseDead(c)
       ELSE /\ IF sock.conn # None /\ link[sock.conn].reader # None
               THEN UdpAnswer(link[sock.conn].reader, "error") ELSE UNCHANGED ucall
            /\ UNCHANGED <<udp, uhandle, delivered>>

\* Faulty: the slot is emptied before the connection is closed.
CloseTcpEmptied(c) ==
    /\ is_loop_alive /\ sock.type = "tcp" /\ closer[c].at = "new" /\ ~sock.closed /\ sock.conn # None
    /\ link' = [link EXCEPT ![sock.conn].state = "closing"]
    /\ sock' = [sock EXCEPT !.conn = None]
    /\ At(c, "conn", sock.conn)
    /\ UNCHANGED <<loop, serverVars, udpVars, ccall>>

\* close() of a TCP socket up to the first wait
CloseTcp(c) ==
    /\ is_loop_alive /\ sock.type = "tcp" /\ closer[c].at = "new"
    /\ IF sock.closed
       THEN At(c, "done", None) /\ UNCHANGED <<loop, serverVars, sock, link, ccall>>
       ELSE IF sock.conn = None THEN Finish(c) /\ UNCHANGED link
       ELSE /\ link' = [link EXCEPT ![sock.conn].state = IF @ = "closed" THEN @ ELSE "closing"]
            /\ At(c, "conn", sock.conn)
            /\ UNCHANGED <<loop, serverVars, sock, ccall>>
    /\ UNCHANGED udpVars

\* tcp_conn->close() returns; tcp_conn.reset() closes what is in the slot by now
CloseTcpResumes(c) ==
    /\ FibersRun /\ closer[c].at = "conn" /\ link[closer[c].on].state = "closed"
    /\ IF sock.conn = None \/ link[sock.conn].state = "closed"
       THEN Finish(c) /\ UNCHANGED link
       ELSE IF is_loop_alive
       THEN /\ link' = [link EXCEPT ![sock.conn].state = "closing"]
            /\ sock' = [sock EXCEPT !.conn = None]
            /\ At(c, "reset", sock.conn)
            /\ UNCHANGED <<loop, serverVars, ccall>>
       ELSE /\ link' = [link EXCEPT ![sock.conn] = [state |-> "closed", reader |-> None]]
            /\ Finish(c)
    /\ UNCHANGED udpVars

\* tcp_conn.reset() returns; another connect() may have filled the slot again
CloseTcpReset(c) ==
    /\ FibersRun /\ closer[c].at = "reset" /\ sock.type = "tcp"
    /\ link[closer[c].on].state = "closed"
    /\ ServerClose
    /\ sock' = [sock EXCEPT !.closed = TRUE, !.listening = FALSE]
    /\ At(c, "done", None)
    /\ UNCHANGED <<loop, link, ccall, udpVars>>

\* close() of a UDP socket up to the wait
CloseUdp(c) ==
    /\ is_loop_alive /\ sock.type = "udp" /\ closer[c].at = "new"
    /\ IF sock.closed THEN At(c, "done", None) /\ UNCHANGED udpVars
       ELSE At(c, "udp", None) /\ UdpClose(c)
    /\ UNCHANGED <<loop, serverVars, sock, link, ccall>>

\* udp->close() returns; udp.reset() closes a UdpSocket that send_to() has made since
CloseUdpResumes(c) ==
    /\ FibersRun /\ closer[c].at \in {"udp", "reset"} /\ sock.type = "udp" /\ ucall[c] = "ok"
    /\ IF is_loop_alive /\ ~udp.closed /\ closer[c].at = "udp"
       THEN UdpClose(c) /\ At(c, "reset", None) /\ UNCHANGED sock
       ELSE /\ IF ~is_loop_alive /\ udp.exists THEN UdpCloseDead(c)
               ELSE udp' = [udp EXCEPT !.exists = FALSE] /\ UNCHANGED <<uhandle, delivered, ucall>>
            /\ sock' = [sock EXCEPT !.closed = TRUE]
            /\ At(c, "done", None)
    /\ UNCHANGED <<loop, serverVars, link, ccall>>

-----------------------------------------------------------------------------
(* ~EventLoop *)

LoopDies ==
    /\ loop = "running" /\ loop' = "dying"
    /\ ServerWalk /\ UdpWalk
    /\ link' = [k \in Connects |-> [link[k] EXCEPT !.state = IF @ = "open" THEN "walked" ELSE @]]
    /\ UNCHANGED <<ending, came, acall, udp, delivered, ucall, sock, ccall, closer>>

LoopDead ==
    /\ loop = "dying" /\ loop' = "dead"
    /\ server.uv # "closing" /\ ending = [owned |-> 0, orphaned |-> 0]
    /\ uhandle.state # "closing" /\ \A k \in Connects : link[k].state # "closing"
    /\ UNCHANGED <<serverVars, udpVars, sockVars>>

Callback ==
    \/ UNCHANGED <<udpVars, sockVars>> /\ (OnServerClosed \/ OnServerWalked)
    \/ UNCHANGED <<serverVars, sockVars>> /\ UdpCallback
    \/ \E k \in Connects : OnLinkClosed(k)

Resume == \E c \in Closes : CloseTcpResumes(c) \/ CloseTcpReset(c) \/ CloseUdpResumes(c)

Next ==
    \/ Callback \/ Resume \/ LoopDies \/ LoopDead
    \/ \E ok \in BOOLEAN : OnConnection(ok) /\ UNCHANGED <<udpVars, sockVars>>
    \/ \E c \in Accepts : Accept(c) \/ (AcceptTimeout(c) /\ UNCHANGED <<udpVars, sockVars>>)
    \/ \E ok \in BOOLEAN : Bind(ok)
    \/ \E c \in Listens, o \in {"init", "bind", "ok"} : Listen(c, o)
    \/ \E c \in Connects : Connect(c) \/ Connected(c) \/ ConnectFailed(c) \/ TcpRecvDone(c)
    \/ \E c \in Recvs : \/ TcpRecv(c) \/ Received(c) \/ \E started \in BOOLEAN : Recv(c, started)
                        \/ RecvTimeout(c) /\ sock.type = "udp" /\ UNCHANGED <<serverVars, sockVars>>
    \/ \E c \in Sends, any \in BOOLEAN, start \in {"ok", "error", "waiting"} : Send(c, any, start)
    \/ \E c \in Closes : CloseDead(c) \/ CloseTcp(c) \/ CloseUdp(c)

\* uv_run is called again and again, and a fiber that is ready resumes.
Fairness == WF_vars(Callback) /\ WF_vars(Resume) /\ WF_vars(LoopDead)

Spec == Init /\ [][Next]_vars /\ Fairness

-----------------------------------------------------------------------------
(* Properties *)

\* An accept waits only while no accepted connection is queued, in the list of
\* the server that exists: no connection is withheld from a fiber that waits for
\* it, none is given to two fibers, and a fiber that gave up gets none.
AcceptExact ==
    /\ server.waiters # <<>> => server.accepted = <<>>
    /\ {c \in Accepts : acall[c] = "waiting"} = Range(server.waiters)
    /\ \A p \in Range(Peers), c \in Accepts :
         acall[c] = p => /\ p \notin Range(server.accepted)
                         /\ \A d \in Accepts \ {c} : acall[d] # p

\* libuv closes the handle of a server while its Impl is still there, unless a
\* listen() of the socket had failed: only a listening Impl keeps itself alive.
EndingServerOwned == ending.orphaned > 0 => server.failed

\* close() leaves nothing open that was in the socket before: what is open in a
\* closed socket was stored by a call that outlived or ignored the close, or is
\* a connection that a second connect() has pushed out of the slot.
ClosedReleases ==
    sock.closed /\ is_loop_alive =>
        /\ \A k \in Connects : link[k].state = "open" => k \in sock.stray
        /\ server.uv = "open" => "server" \in sock.stray
        /\ uhandle.state = "open" => "udp" \in sock.stray

\* A recv_for() that waits holds a reference into the slot: close() keeps the
\* connection there until the call has its answer, or waits inside its destructor;
\* only a second connect() takes it away.
RecvOwned ==
    \A k \in Connects : link[k].reader # None /\ is_loop_alive =>
        \/ sock.conn = k \/ k \in sock.stray
        \/ \E c \in Closes : closer[c] = [at |-> "reset", on |-> k]

\* Every close() returns, and ends every receive and send that waits on the
\* UDP socket.
CloseReturns ==
    /\ \A c \in Closes : closer[c].at \notin {"new", "unused"} ~> closer[c].at = "done"
    /\ \A c \in Recvs \cup Sends :
         sock.type = "udp" /\ udp.closing /\ ucall[c] = "waiting" ~> ucall[c] # "waiting"

\* The receiving side of a UDP socket implements a lossy mailbox.
Box == INSTANCE Mailbox WITH Calls <- Recvs, Timed <- TimedRecvs, Lossy <- TRUE,
    Stream <- Packets, open <- ~udp.closed, taken <- delivered - Len(udp.buffered),
    outcome <- [c \in Recvs |->
        IF sock.type = "udp" /\ ucall[c] # "unused" THEN ucall[c] ELSE "new"]
DatagramsAreMailbox == Box!Spec
=============================================================================
