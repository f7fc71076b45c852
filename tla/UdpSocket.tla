------------------------------ MODULE UdpSocket ------------------------------
(***************************************************************************)
(* fiberuv::UdpSocket (src/udp.cpp): the UdpState of a socket, its handle  *)
(* in libuv, and the fibers that send, receive and close.                  *)
(*                                                                         *)
(* Only `closed' is tested by the operations: a call between uv_close and  *)
(* its callback still reaches libuv, which may refuse it or not.           *)
(***************************************************************************)
EXTENDS UvLoop, Naturals, Sequences

CONSTANTS
    Recvs,          \* calls of recv_from() and recv_from_for()
    TimedRecvs,     \* the ones of recv_from_for()
    Sends,          \* calls of send_to()
    Closes,         \* calls of close() and ~UdpSocket
    Packets,        \* the datagrams that reach the socket, in order
    None

ASSUME UdpCallsAssumption ==
    /\ TimedRecvs \subseteq Recvs
    /\ Recvs \cap Sends = {} /\ Recvs \cap Closes = {} /\ Sends \cap Closes = {}
    /\ None \notin Recvs

\* a datagram is not taken for the state of a call
ASSUME PacketsAssumption ==
    /\ Packets \in Seq({Packets[i] : i \in DOMAIN Packets})
    /\ \A i \in DOMAIN Packets : Packets[i] \notin {"new", "unused", "waiting"}

VARIABLES
    udp,        \* the UdpState; exists: there is a UdpSocket that has it
    uhandle,    \* its handle: state as in libuv, cb: uv_close was given on_udp_closed
    delivered,  \* how many packets libuv has handed to on_udp_recv
    ucall       \* what each call returned

udpVars == <<udp, uhandle, delivered, ucall>>

UdpCalls == Recvs \cup Sends \cup Closes

NoUdp == [exists |-> FALSE, bound |-> FALSE, closing |-> FALSE, closed |-> TRUE,
          pending |-> None, buffered |-> <<>>, waiters |-> {}, keepalive |-> FALSE]
NoUdpHandle == [state |-> "gone", cb |-> FALSE, receiving |-> FALSE, sends |-> {}]

\* create_udp_socket
NewUdp == [NoUdp EXCEPT !.exists = TRUE, !.closed = FALSE, !.keepalive = TRUE]
NewUdpHandle == [NoUdpHandle EXCEPT !.state = "open"]

UdpAnswer(c, o) == ucall' = [ucall EXCEPT ![c] = o]

-----------------------------------------------------------------------------
(* Closing *)

\* Faulty: the fiber that receives is not told.
UdpClosedForgetful(s) ==
    [s EXCEPT !.closed = TRUE, !.closing = FALSE, !.waiters = {}, !.keepalive = FALSE]

\* on_udp_closed
UdpClosed(s) ==
    [s EXCEPT !.closed = TRUE, !.closing = FALSE, !.pending = None, !.waiters = {},
              !.keepalive = FALSE]

UdpResolved(s) ==
    [c \in UdpCalls |-> IF c = s.pending /\ UdpClosed(s).pending = None THEN "error"
                        ELSE IF c \in s.waiters THEN "ok" ELSE ucall[c]]

\* close() once the loop is gone: the waiters and keepalive are left alone
UdpCloseDead(c) ==
    /\ udp' = [udp EXCEPT !.exists = FALSE, !.closed = TRUE, !.closing = FALSE, !.pending = None]
    /\ ucall' = [d \in UdpCalls |-> IF d = udp.pending THEN "error"
                                    ELSE IF d = c THEN "ok" ELSE ucall[d]]
    /\ UNCHANGED <<uhandle, delivered>>

\* close() and start_udp_close, up to future.get()
UdpClose(c) ==
    /\ IF udp.closed
       THEN UdpAnswer(c, "ok") /\ UNCHANGED <<udp, uhandle>>
       ELSE /\ udp' = [udp EXCEPT !.closing = TRUE, !.waiters = @ \cup {c}]
            /\ uhandle' = [uhandle EXCEPT !.state = "closing", !.cb = TRUE, !.receiving = FALSE]
            /\ UdpAnswer(c, "waiting")
    /\ UNCHANGED delivered

\* the close callback comes after the callbacks of the requests
OnUdpClosed ==
    /\ CallbacksRun /\ uhandle.state = "closing" /\ uhandle.sends = {}
    /\ uhandle' = NoUdpHandle
    /\ IF uhandle.cb THEN udp' = UdpClosed(udp) /\ ucall' = UdpResolved(udp)
       ELSE UNCHANGED <<udp, ucall>>
    /\ UNCHANGED <<loop, delivered>>

-----------------------------------------------------------------------------
(* bind, send_to, recv_from and recv_from_for on a UdpSocket that exists *)

\* ok: the address is valid and uv_udp_bind succeeds
UdpBind(ok) ==
    /\ udp' = [udp EXCEPT !.bound = @ \/ (ok /\ ~udp.closed)]
    /\ UNCHANGED <<uhandle, delivered, ucall>>

\* start: an empty payload returns at once ("ok"), a bad address or uv_udp_send
\* throws ("error"), or the request starts ("waiting")
UdpSend(c, start) ==
    /\ UdpAnswer(c, IF udp.closed THEN "error" ELSE start)
    /\ uhandle' = [uhandle EXCEPT !.sends = IF udp.closed \/ start # "waiting" THEN @ ELSE @ \cup {c}]
    /\ UNCHANGED <<udp, delivered>>

OnUdpSend(c, o) ==
    /\ CallbacksRun /\ c \in uhandle.sends
    /\ uhandle' = [uhandle EXCEPT !.sends = @ \ {c}]
    /\ UdpAnswer(c, o)
    /\ UNCHANGED <<loop, udp, delivered>>

\* Faulty: a second receive takes the place of the one that waits.
RecvResultUnchecked(started) ==
    IF udp.closed THEN "error"
    ELSE IF udp.buffered # <<>> THEN Head(udp.buffered)
    ELSE IF ~started THEN "error"
    ELSE "waiting"

RecvResult(started) ==
    IF udp.closed THEN "error"
    ELSE IF udp.buffered # <<>> THEN Head(udp.buffered)
    ELSE IF udp.pending # None \/ ~started THEN "error"
    ELSE "waiting"

UdpRecv(c, started) ==
    LET o == RecvResult(started)
    IN  /\ UdpAnswer(c, o)
        /\ udp' = [udp EXCEPT !.buffered = IF @ # <<>> /\ o = Head(@) THEN Tail(@) ELSE @,
                              !.pending = IF o = "waiting" THEN c ELSE @]
        /\ uhandle' = [uhandle EXCEPT !.receiving = @ \/ o = "waiting"]
        /\ UNCHANGED delivered

\* recv_from_for() when the time is over and the promise unset
RecvTimeout(c) ==
    /\ FibersRun /\ c \in TimedRecvs /\ ucall[c] = "waiting"
    /\ UdpAnswer(c, "timeout")
    /\ IF udp.pending = c
       THEN /\ udp' = [udp EXCEPT !.pending = None]
            /\ uhandle' = [uhandle EXCEPT !.receiving = FALSE]
       ELSE UNCHANGED <<udp, uhandle>>
    /\ UNCHANGED <<loop, delivered>>

\* on_udp_recv with a packet; known: the family of its sender is known to
\* packet_from_sockaddr, which throws otherwise
OnUdpRecv(known) ==
    /\ CallbacksRun /\ uhandle.state = "open" /\ uhandle.receiving /\ delivered < Len(Packets)
    /\ delivered' = delivered + 1
    /\ LET p == Packets[delivered + 1]
           o == IF known THEN p ELSE "error"
       IN  /\ ucall' = IF udp.pending = None THEN ucall ELSE [ucall EXCEPT ![udp.pending] = o]
           /\ udp' = [udp EXCEPT !.pending = None,
                        !.buffered = IF known /\ udp.pending = None THEN Append(@, p) ELSE @]
    /\ uhandle' = [uhandle EXCEPT !.receiving = FALSE]
    /\ UNCHANGED loop

\* on_udp_recv with an error
OnUdpRecvError ==
    /\ CallbacksRun /\ uhandle.state = "open" /\ uhandle.receiving
    /\ ucall' = IF udp.pending = None THEN ucall ELSE [ucall EXCEPT ![udp.pending] = "error"]
    /\ udp' = [udp EXCEPT !.pending = None]
    /\ uhandle' = [uhandle EXCEPT !.receiving = FALSE]
    /\ UNCHANGED <<loop, delivered>>

UdpCallback ==
    \/ OnUdpClosed \/ OnUdpRecvError
    \/ \E known \in BOOLEAN : OnUdpRecv(known)
    \/ \E c \in Sends, o \in {"ok", "error"} : OnUdpSend(c, o)

\* the walk of ~EventLoop
UdpWalk ==
    uhandle' = IF uhandle.state = "open"
               THEN [uhandle EXCEPT !.state = "closing", !.receiving = FALSE] ELSE uhandle
=============================================================================
