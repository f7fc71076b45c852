------------------------------ MODULE TcpServer ------------------------------
(***************************************************************************)
(* fiberuv::TcpServer (src/tcp.cpp): listening, the connections accepted   *)
(* ahead of the fibers that ask for them, the fibers that wait for one,    *)
(* and close().  The connections themselves are TcpConnection's business.  *)
(*                                                                         *)
(* close() drops the Impl in the step that closes the handle, so a closed  *)
(* server is a server that does not exist.  `ending' counts the handles    *)
(* whose on_server_closed is still to come, with and without their Impl.   *)
(***************************************************************************)
EXTENDS UvLoop, Waiters

CONSTANTS
    Listens,        \* calls of listen()
    Accepts,        \* calls of accept() and accept_for()
    TimedAccepts,   \* the ones of accept_for()
    Peers           \* the connections that come in, in order

ASSUME AcceptsAssumption == TimedAccepts \subseteq Accepts /\ Accepts \cap Listens = {}

\* a connection comes in once, and is not taken for another answer to accept()
ASSUME PeersAssumption ==
    /\ Peers \in Seq(Range(Peers)) /\ IsInjective(Peers)
    /\ Range(Peers) \cap {"new", "unused", "waiting", "error", "timeout"} = {}

VARIABLES
    server,     \* the Impl of the TcpServer
    ending,
    came,       \* how many connections have come in
    acall       \* what each of these calls returned

serverVars == <<server, ending, came, acall>>

\* exists: a TcpServer has the Impl; uv: the handle; failed: some
\* listen() threw after uv_tcp_init
NoServer == [exists |-> FALSE, listening |-> FALSE, keepalive |-> FALSE, uv |-> "gone",
             failed |-> FALSE, accepted |-> <<>>, waiters |-> <<>>]

ServerCalls == Listens \cup Accepts

\* W: the calls that are made
ServerInit(W) ==
    /\ server = NoServer /\ ending = [owned |-> 0, orphaned |-> 0]
    /\ came = 0
    /\ acall = [c \in ServerCalls |-> IF c \in W THEN "new" ELSE "unused"]

AcceptAnswer(c, o) == acall' = [acall EXCEPT ![c] = o]

\* Faulty: the Impl of a listening server does not keep itself alive.
ListeningUnowned(s, o) ==
    IF s.listening \/ o = "init" THEN s
    ELSE IF o = "ok" THEN [s EXCEPT !.uv = "open", !.listening = TRUE]
    ELSE [s EXCEPT !.uv = "open", !.failed = TRUE]

\* listen() on s; o: "init", "addr" or "bind" is the call that fails (uv_listen
\* fails like uv_tcp_bind), "ok" none
Listening(s, o) ==
    IF s.listening \/ o = "init" THEN s
    ELSE IF o = "ok" THEN [s EXCEPT !.uv = "open", !.listening = TRUE, !.keepalive = TRUE]
    ELSE [s EXCEPT !.uv = "open", !.failed = TRUE]

\* dispatch_accepted
Dispatch(p) ==
    IF server.waiters # <<>>
    THEN /\ AcceptAnswer(Head(server.waiters), p)
         /\ server' = [server EXCEPT !.waiters = Tail(@)]
    ELSE /\ server' = [server EXCEPT !.accepted = Append(@, p)]
         /\ UNCHANGED acall

\* on_connection; ok: the status, create_connection and uv_accept are all well
OnConnection(ok) ==
    /\ CallbacksRun /\ server.uv = "open" /\ server.listening /\ came < Len(Peers)
    /\ came' = came + 1
    /\ IF ok THEN Dispatch(Peers[came + 1]) ELSE UNCHANGED <<server, acall>>
    /\ UNCHANGED <<loop, ending>>

\* accept() and accept_for() on a server that exists, up to future.get()
AcceptFrom(c) ==
    /\ IF ~server.listening THEN AcceptAnswer(c, "error") /\ UNCHANGED server
       ELSE IF server.accepted # <<>>
       THEN /\ AcceptAnswer(c, Head(server.accepted))
            /\ server' = [server EXCEPT !.accepted = Tail(@)]
       ELSE /\ AcceptAnswer(c, "waiting")
            /\ server' = [server EXCEPT !.waiters = Append(@, c)]
    /\ UNCHANGED <<ending, came>>

\* Faulty: the fiber that gives up stays in the list.
AcceptTimeoutForgetful(c) ==
    /\ FibersRun /\ c \in TimedAccepts /\ acall[c] = "waiting"
    /\ AcceptAnswer(c, "timeout")
    /\ UNCHANGED <<loop, server, ending, came>>

\* accept_for() when the time is over and the promise unset
AcceptTimeout(c) ==
    /\ FibersRun /\ c \in TimedAccepts /\ acall[c] = "waiting"
    /\ AcceptAnswer(c, "timeout")
    /\ server' = [server EXCEPT !.waiters = Erased(@, c)]
    /\ UNCHANGED <<loop, ending, came>>

\* close() and ~TcpServer: begin_close, then the Impl is let go
ServerClose ==
    /\ acall' = [c \in ServerCalls |-> IF c \in Range(server.waiters) THEN "error" ELSE acall[c]]
    /\ ending' = IF server.uv # "open" \/ ~is_loop_alive THEN ending
                 ELSE IF server.keepalive THEN [ending EXCEPT !.owned = @ + 1]
                 ELSE [ending EXCEPT !.orphaned = @ + 1]
    /\ server' = [NoServer EXCEPT !.failed = server.failed]
    /\ UNCHANGED came

\* on_server_closed of a server that was closed
OnServerClosed ==
    /\ CallbacksRun
    /\ \E h \in DOMAIN ending : ending[h] > 0 /\ ending' = [ending EXCEPT ![h] = @ - 1]
    /\ UNCHANGED <<loop, server, came, acall>>

\* the walk of ~EventLoop
ServerWalk == server' = [server EXCEPT !.uv = IF @ = "open" THEN "closing" ELSE @]

\* uv_run in ~EventLoop has no callback to call for a handle the walk closed
OnServerWalked ==
    /\ loop = "dying" /\ server.uv = "closing"
    /\ server' = [server EXCEPT !.uv = "gone"]
    /\ UNCHANGED <<loop, ending, came, acall>>
=============================================================================
