------------------------------ MODULE TcpClient ------------------------------
(***************************************************************************)
(* fiberuv::TcpClient (src/tcp.cpp): one call of connect() or              *)
(* connect_for() from the resolver to the connection it returns, and the   *)
(* life of that connection afterwards.  request() is connect(), write(),   *)
(* read() and close() in this order, one of the orders the model explores. *)
(***************************************************************************)
EXTENDS TcpConnection

VARIABLES
    req,        \* the ConnectRequestState
    client      \* what connect() or connect_for() returned

vars == <<connVars, req, client>>

\* exists: not deleted; stage: the libuv callback that is outstanding
NoRequest == [exists |-> FALSE, stage |-> "none", connection |-> FALSE,
              timed_out |-> FALSE, finished |-> FALSE]

Init ==
    /\ ConnInit
    /\ req = NoRequest
    /\ client = [timed |-> FALSE, result |-> "new"]

Returns(o) == client' = [client EXCEPT !.result = IF @ = "waiting" THEN o ELSE @]

\* connect() and connect_for() up to future.get() or wait_for(); started: what
\* uv_getaddrinfo said
Connect(timed, started) ==
    /\ FibersRun /\ client.result = "new"
    /\ IF is_loop_alive /\ started
       THEN /\ req' = [NoRequest EXCEPT !.exists = TRUE, !.stage = "resolving"]
            /\ client' = [timed |-> timed, result |-> "waiting"]
       ELSE /\ client' = [timed |-> timed, result |-> "error"]
            /\ UNCHANGED req
    /\ UNCHANGED connVars

Deleted == [req EXCEPT !.exists = FALSE, !.stage = "none", !.finished = TRUE]

\* Faulty: a connect that fails leaves the handle it created open.
FinishErrorLeaky ==
    /\ Returns("error")
    /\ req' = Deleted
    /\ UNCHANGED connVars

\* finish_connect_error
FinishError ==
    /\ Returns("error")
    /\ req' = Deleted
    /\ IF req.connection THEN StartClose({}) ELSE UNCHANGED <<conn, uv, call>>
    /\ UNCHANGED <<loop, arrived, held>>

\* on_resolved when it ends in an error: a timeout before it, a status, or a
\* handle that cannot be created
OnResolvedError ==
    /\ CallbacksRun /\ req.stage = "resolving"
    /\ FinishError

\* on_resolved when uv_tcp_connect fails on the new connection
OnResolvedRefused ==
    /\ CallbacksRun /\ req.stage = "resolving" /\ ~req.timed_out
    /\ Returns("error")
    /\ req' = Deleted
    /\ conn' = [NoState EXCEPT !.initialized = TRUE, !.keepalive = is_loop_alive,
                               !.closing = is_loop_alive, !.closed = ~is_loop_alive]
    /\ uv' = [NoHandle EXCEPT !.state = IF is_loop_alive THEN "closing" ELSE "open",
                              !.cb = is_loop_alive]
    /\ UNCHANGED <<loop, arrived, held, call>>

\* on_resolved when the connect request starts
OnResolved ==
    /\ CallbacksRun /\ req.stage = "resolving" /\ ~req.timed_out
    /\ Create
    /\ req' = [req EXCEPT !.stage = "connecting", !.connection = TRUE]
    /\ UNCHANGED <<loop, arrived, held, call, client>>

\* on_connected, finish_connect_success
OnConnected ==
    /\ CallbacksRun /\ req.stage = "connecting" /\ uv.state = "open" /\ ~req.timed_out
    /\ Returns("connected")
    /\ held' = TRUE
    /\ req' = Deleted
    /\ UNCHANGED <<loop, conn, uv, arrived, call>>

\* on_connected with an error, or after the timeout; a handle that is being
\* closed reports its connect request as cancelled
OnConnectError ==
    /\ CallbacksRun /\ req.stage = "connecting"
    /\ FinishError

\* connect_for() when the time is over and the promise unset
ConnectTimeout ==
    /\ FibersRun /\ client.timed /\ client.result = "waiting"
    /\ Returns("timeout")
    /\ req' = [req EXCEPT !.timed_out = TRUE]
    /\ IF req.connection THEN StartClose({}) ELSE UNCHANGED <<conn, uv, call>>
    /\ UNCHANGED <<loop, arrived, held>>

\* libuv reports the connect request of a closing handle before it calls the
\* close callback
OnClosed == req.stage # "connecting" /\ OnConnectionClosed

LoopDies ==
    /\ loop = "running" /\ loop' = "dying"
    /\ WalkClose
    /\ UNCHANGED <<conn, arrived, held, call, req, client>>

\* uv_run in ~EventLoop returns when no request and no closing handle is left
LoopDead ==
    /\ loop = "dying" /\ req.stage = "none" /\ uv.state # "closing" /\ uv.writes = {}
    /\ loop' = "dead"
    /\ UNCHANGED <<conn, uv, arrived, held, call, req, client>>

Callback ==
    \/ OnResolvedError \/ OnResolvedRefused \/ OnResolved \/ OnConnected \/ OnConnectError
    \/ UNCHANGED <<req, client>> /\ (OnClosed \/ OnData \/ OnEof \/ OnReadError)
    \/ UNCHANGED <<req, client>> /\ \E c \in Writes, o \in {"ok", "error"} : OnWriteDone(c, o)

Next ==
    \/ Callback
    \/ \E timed, started \in BOOLEAN : Connect(timed, started)
    \/ ConnectTimeout
    \/ UNCHANGED <<req, client>> /\ ConnFiber
    \/ LoopDies \/ LoopDead

\* uv_run is called again and again: a callback that is due is called.
Fairness == WF_vars(Callback)

Spec == Init /\ [][Next]_vars /\ Fairness

-----------------------------------------------------------------------------
(* Properties *)

\* libuv never calls back into a freed structure while the loop is alive: the
\* handle of a connection keeps its state alive until the close callback has
\* run, and a ConnectRequestState exists as long as one of its requests is in
\* flight or its caller may still touch it after a timeout.
CallbacksSafe ==
    /\ uv.state # "gone" /\ is_loop_alive => conn.keepalive
    /\ req.stage # "none" \/ client.result = "waiting" => req.exists

\* A connection its caller never got (connect_for timed out or connect failed)
\* does not stay open once its request is gone.
AbandonedIsClosed ==
    client.result \in {"timeout", "error"} /\ ~req.exists /\ is_loop_alive
        => uv.state # "open"

\* Once a close has started, every call waiting on the connection returns.
CloseReturns ==
    \A c \in Calls : conn.closing /\ call[c] = "waiting" ~> call[c] # "waiting"

\* The reads implement a mailbox over the chunks of the peer: in order, each
\* once, nothing lost by a timeout, end of stream last.
Box == INSTANCE Mailbox WITH Calls <- Reads, Timed <- TimedReads, Lossy <- FALSE,
    open <- uv.state = "open", taken <- arrived - Len(conn.buffered),
    outcome <- [c \in Reads |-> call[c]]
ReadsAreMailbox == Box!Spec
=============================================================================
