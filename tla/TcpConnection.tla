---------------------------- MODULE TcpConnection ----------------------------
(***************************************************************************)
(* fiberuv::TcpConnection (src/tcp.cpp): one ConnectionState shared by the *)
(* copies of a connection, its uv_tcp_t handle, and the fibers that read,  *)
(* write and close it.                                                     *)
(*                                                                         *)
(* A promise that is set decides what its call returns: after a timeout    *)
(* wait_for looks at the promise again, so a call times out only while its *)
(* promise is unset.                                                       *)
(***************************************************************************)
EXTENDS UvLoop, Naturals, Sequences

CONSTANTS
    Reads,          \* calls of read() and read_for()
    TimedReads,     \* the ones of read_for()
    Writes,         \* calls of write()
    Closes,         \* calls of close() and ~TcpConnection
    Stream,         \* the chunks the peer sends before it ends the stream
    None

Calls == Reads \cup Writes \cup Closes

ASSUME CallsAssumption ==
    /\ TimedReads \subseteq Reads
    /\ Reads \cap (Writes \cup Closes) = {}
    /\ None \notin Calls

\* a chunk is not taken for the state of a call
ASSUME StreamAssumption ==
    /\ Stream \in Seq({Stream[i] : i \in DOMAIN Stream})
    /\ \A i \in DOMAIN Stream : Stream[i] \notin {"new", "waiting"}

VARIABLES
    conn,       \* the ConnectionState
    uv,         \* its handle in libuv
    arrived,    \* how many chunks of Stream libuv has delivered
    held,       \* a TcpConnection with this state has been given to the caller
    call        \* what each call returned

connVars == <<loop, conn, uv, arrived, held, call>>

NoState == [initialized |-> FALSE, closing |-> FALSE, closed |-> FALSE, eof |-> FALSE,
            pending |-> None, buffered |-> <<>>, waiters |-> {}, keepalive |-> FALSE]

\* state: open, closing (uv_close called), gone; cb: uv_close was given
\* on_connection_closed; writes: the write requests in flight
NoHandle == [state |-> "gone", cb |-> FALSE, reading |-> FALSE, writes |-> {}]

ConnInit ==
    /\ loop = "running" /\ conn = NoState /\ uv = NoHandle
    /\ arrived = 0 /\ held = FALSE
    /\ call = [c \in Calls |-> "new"]

Answer(c, o) == call' = [call EXCEPT ![c] = o]

\* create_connection, when uv_tcp_init succeeds
Create ==
    /\ conn' = [NoState EXCEPT !.initialized = TRUE, !.keepalive = TRUE]
    /\ uv' = [NoHandle EXCEPT !.state = "open"]

-----------------------------------------------------------------------------
(* Closing *)

\* Faulty: the call that reads is forgotten.
ClosedForgetful(s) ==
    [s EXCEPT !.closed = TRUE, !.closing = FALSE, !.waiters = {}, !.keepalive = FALSE]

\* on_connection_closed, and start_close when the loop is gone
Closed(s) ==
    [s EXCEPT !.closed = TRUE, !.closing = FALSE, !.pending = None, !.waiters = {},
              !.keepalive = FALSE]

\* what the promises of the calls registered in s become when Closed(s) replaces it
Resolved(s) ==
    [c \in Calls |->
        IF c = s.pending /\ Closed(s).pending = None THEN "error"
        ELSE IF c \in s.waiters THEN "ok" ELSE call[c]]

\* Faulty: the state lets go of itself when the close starts.
ClosingStateEager(s) == [s EXCEPT !.closing = TRUE, !.keepalive = FALSE]

ClosingState(s) == [s EXCEPT !.closing = TRUE]

Mark(W, o) == [c \in Calls |-> IF c \in W THEN o ELSE call[c]]

\* start_close(state, promise): W holds the call that waits, or is empty
StartClose(W) ==
    IF ~conn.initialized \/ conn.closed
    THEN call' = Mark(W, "ok") /\ UNCHANGED <<conn, uv>>
    ELSE LET s == [conn EXCEPT !.waiters = @ \cup W]
         IN  IF is_loop_alive
             THEN /\ conn' = ClosingState(s)
                  /\ uv' = [uv EXCEPT !.state = "closing", !.cb = TRUE, !.reading = FALSE]
                  /\ call' = Mark(W, "waiting")
             ELSE conn' = Closed(s) /\ call' = Resolved(s) /\ UNCHANGED uv

\* close() and the destructor
Close(c) ==
    /\ FibersRun /\ held /\ c \in Closes /\ call[c] = "new"
    /\ StartClose({c})
    /\ UNCHANGED <<loop, arrived, held>>

\* libuv has finished the requests of a closing handle
OnConnectionClosed ==
    /\ CallbacksRun /\ uv.state = "closing" /\ uv.writes = {}
    /\ uv' = NoHandle
    /\ IF uv.cb THEN conn' = Closed(conn) /\ call' = Resolved(conn) ELSE UNCHANGED <<conn, call>>
    /\ UNCHANGED <<loop, arrived, held>>

-----------------------------------------------------------------------------
(* Reading *)

\* started: uv_read_start succeeds
ReadResult(started) ==
    IF conn.closed \/ ~is_loop_alive THEN "error"
    ELSE IF conn.buffered # <<>> THEN Head(conn.buffered)
    ELSE IF conn.eof THEN "eof"
    ELSE IF conn.pending # None \/ uv.state # "open" \/ ~started THEN "error"
    ELSE "waiting"

\* read() and read_for() up to future.get() or wait_for()
Read(c, started) ==
    /\ FibersRun /\ held /\ c \in Reads /\ call[c] = "new"
    /\ LET o == ReadResult(started)
       IN  /\ Answer(c, o)
           /\ conn' = [conn EXCEPT
                !.buffered = IF @ # <<>> /\ o = Head(@) THEN Tail(@) ELSE @,
                !.pending = IF o = "waiting" THEN c ELSE @]
           /\ uv' = [uv EXCEPT !.reading = @ \/ o = "waiting"]
    /\ UNCHANGED <<loop, arrived, held>>

\* finish_read_success, finish_read_error
FinishRead(o) ==
    /\ call' = IF conn.pending = None THEN call ELSE [call EXCEPT ![conn.pending] = o]
    /\ uv' = [uv EXCEPT !.reading = FALSE]

Reading == CallbacksRun /\ uv.state = "open" /\ uv.reading

\* Faulty: a chunk that arrives ends the read and is not handed over.
OnDataLost ==
    /\ Reading /\ arrived < Len(Stream)
    /\ arrived' = arrived + 1
    /\ FinishRead("error")
    /\ conn' = [conn EXCEPT !.pending = None]
    /\ UNCHANGED <<loop, held>>

\* on_connection_read, nread > 0
OnData ==
    /\ Reading /\ arrived < Len(Stream)
    /\ arrived' = arrived + 1
    /\ FinishRead(Stream[arrived + 1])
    /\ conn' = [conn EXCEPT !.pending = None,
                  !.buffered = IF conn.pending = None THEN Append(@, Stream[arrived + 1]) ELSE @]
    /\ UNCHANGED <<loop, held>>

\* on_connection_read, UV_EOF
OnEof ==
    /\ Reading /\ arrived = Len(Stream)
    /\ FinishRead("eof")
    /\ conn' = [conn EXCEPT !.pending = None, !.eof = TRUE]
    /\ UNCHANGED <<loop, arrived, held>>

\* on_connection_read, another error
OnReadError ==
    /\ Reading
    /\ FinishRead("error")
    /\ conn' = [conn EXCEPT !.pending = None]
    /\ UNCHANGED <<loop, arrived, held>>

\* read_for() when the time is over and the promise unset
ReadTimeout(c) ==
    /\ FibersRun /\ c \in TimedReads /\ call[c] = "waiting"
    /\ Answer(c, "timeout")
    /\ IF conn.pending = c
       THEN /\ conn' = [conn EXCEPT !.pending = None]
            /\ uv' = [uv EXCEPT !.reading = FALSE]
       ELSE UNCHANGED <<conn, uv>>
    /\ UNCHANGED <<loop, arrived, held>>

-----------------------------------------------------------------------------
(* Writing *)

\* write(): an empty payload returns at once; started: uv_write succeeds
Write(c, empty, started) ==
    /\ FibersRun /\ held /\ c \in Writes /\ call[c] = "new"
    /\ IF conn.closed \/ ~is_loop_alive THEN Answer(c, "error") /\ UNCHANGED uv
       ELSE IF empty THEN Answer(c, "ok") /\ UNCHANGED uv
       ELSE IF uv.state # "open" \/ ~started THEN Answer(c, "error") /\ UNCHANGED uv
       ELSE Answer(c, "waiting") /\ uv' = [uv EXCEPT !.writes = @ \cup {c}]
    /\ UNCHANGED <<loop, conn, arrived, held>>

\* on_write_done
OnWriteDone(c, o) ==
    /\ CallbacksRun /\ c \in uv.writes
    /\ uv' = [uv EXCEPT !.writes = @ \ {c}]
    /\ Answer(c, o)
    /\ UNCHANGED <<loop, conn, arrived, held>>

-----------------------------------------------------------------------------
(* ~EventLoop: every handle that is not closing is closed without callback *)

WalkClose ==
    uv' = IF uv.state = "open" THEN [uv EXCEPT !.state = "closing", !.reading = FALSE] ELSE uv

ConnFiber ==
    \E c \in Calls, empty, started \in BOOLEAN :
        Close(c) \/ Read(c, started) \/ ReadTimeout(c) \/ Write(c, empty, started)
=============================================================================
