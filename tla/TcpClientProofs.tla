--------------------------- MODULE TcpClientProofs ---------------------------
(***************************************************************************)
(* Proofs about TcpClient for every set of calls and every stream: no      *)
(* callback reaches freed state, and the reads implement Mailbox.          *)
(***************************************************************************)
EXTENDS TcpClient, TLAPS

Items == {Stream[i] : i \in DOMAIN Stream}
Outcomes == {"new", "waiting", "ok", "error", "eof", "timeout"} \cup Items

Conns == [initialized : BOOLEAN, closing : BOOLEAN, closed : BOOLEAN, eof : BOOLEAN,
          pending : Reads \cup {None}, buffered : {<<>>}, waiters : SUBSET Closes,
          keepalive : BOOLEAN]
Handles == [state : {"gone", "open", "closing"}, cb : BOOLEAN, reading : BOOLEAN,
            writes : SUBSET Writes]
Requests == [exists : BOOLEAN, stage : {"none", "resolving", "connecting"},
             connection : BOOLEAN, timed_out : BOOLEAN, finished : BOOLEAN]
Results == [timed : BOOLEAN, result : {"new", "waiting", "connected", "timeout", "error"}]

\* The types.  Nothing is ever buffered: see ReadingForOne.
Types ==
    /\ loop \in {"running", "dying", "dead"}
    /\ conn \in Conns /\ uv \in Handles
    /\ arrived \in 0 .. Len(Stream) /\ held \in BOOLEAN
    /\ call \in [Calls -> Outcomes]
    /\ req \in Requests /\ client \in Results

\* The read that waits is the one the state knows of.
PendingWaits == \A c \in Reads : call[c] = "waiting" <=> conn.pending = c

\* The handle reads only on a loop that is alive and for a read that waits.
ReadingForOne == uv.reading => uv.state = "open" /\ is_loop_alive /\ conn.pending # None

\* Nobody reads before connect() has returned the connection, which it does once.
GivenOnce ==
    /\ ~held => \A c \in Reads : call[c] = "new"
    /\ held \/ req.stage # "none" => client.result # "new"
    /\ held => req.stage = "none"

EofIsLast == conn.eof => arrived = Len(Stream)

Inv == Types /\ PendingWaits /\ ReadingForOne /\ GivenOnce /\ EofIsLast

\* What a step does to the reads.
SameReads == \A c \in Reads : call'[c] = call[c]
Answers(c, o) == call'[c] = o /\ \A d \in Reads \ {c} : call'[d] = call[d]
SameOpen == uv'.state = "open" <=> uv.state = "open"

-----------------------------------------------------------------------------
(* The mapping *)

\* A step that leaves the reads, the open handle and the stream alone is a stutter of the mailbox.
LEMMA MapSame ==
    ASSUME Types, Types', SameReads, SameOpen, arrived' = arrived
    PROVE  UNCHANGED Box!vars
<1>1. [c \in Reads |-> call[c]]' = [c \in Reads |-> call[c]]
  BY Zenon DEF SameReads
<1>2. (uv.state = "open")' = (uv.state = "open")
  BY Zenon DEF SameOpen
<1>3. (arrived - Len(conn.buffered))' = arrived - Len(conn.buffered)
  BY Zenon DEF Types, Conns
<1> QED BY <1>1, <1>2, <1>3, Zenon DEF Box!vars

\* A step that only opens or closes the handle opens or closes the mailbox.
LEMMA MapOpens ==
    ASSUME Types, Types', SameReads, arrived' = arrived
    PROVE  [Box!Next]_(Box!vars)
<1>1. [c \in Reads |-> call[c]]' = [c \in Reads |-> call[c]]
  BY Zenon DEF SameReads
<1>3. (arrived - Len(conn.buffered))' = arrived - Len(conn.buffered)
  BY Zenon DEF Types, Conns
<1>4. CASE uv.state = "open" /\ uv'.state # "open"
  <2>1. Box!Close
    BY <1>1, <1>3, <1>4, Zenon DEF Box!Close
  <2> QED BY <2>1, Zenon DEF Box!Next
<1>5. CASE uv.state # "open" /\ uv'.state = "open"
  <2>1. Box!Open
    BY <1>1, <1>3, <1>5, Zenon DEF Box!Open
  <2> QED BY <2>1, Zenon DEF Box!Next
<1>6. CASE SameOpen
  BY <1>6, MapSame, Zenon
<1> QED BY <1>4, <1>5, <1>6, Zenon DEF SameOpen

\* Answering one read is answering one call of the mailbox.
LEMMA MapAnswer ==
    ASSUME Types, Types', NEW c \in Reads, NEW o, Answers(c, o)
    PROVE  [d \in Reads |-> call[d]]' = [[d \in Reads |-> call[d]] EXCEPT ![c] = o]
BY Zenon DEF Answers

\* A read that returns an error, with nothing received, is Fail or the closing of the mailbox.
LEMMA MapFail ==
    ASSUME Types, Types', NEW c \in Reads, Answers(c, "error"), call[c] \in {"new", "waiting"},
           SameOpen, arrived' = arrived
    PROVE  [Box!Next]_(Box!vars)
<1>1. Box!Answer(c, "error")
  BY MapAnswer, Zenon DEF Box!Answer
<1>2. (uv.state = "open")' = (uv.state = "open")
  BY Zenon DEF SameOpen
<1>3. (arrived - Len(conn.buffered))' = arrived - Len(conn.buffered)
  BY Zenon DEF Types, Conns
<1>4. Box!Fail(c)
  BY <1>1, <1>2, <1>3, Zenon DEF Box!Fail, Box!Unanswered
<1> QED BY <1>4, Zenon DEF Box!Next

-----------------------------------------------------------------------------
(* What closing does *)

\* The part of Inv about the connection.
ConnInv ==
    /\ conn \in Conns /\ uv \in Handles /\ call \in [Calls -> Outcomes]
    /\ PendingWaits /\ ReadingForOne /\ EofIsLast

\* The reads stay as they are, or the one that waits gets an error.
ReadsClosed ==
    \/ SameReads
    \/ SameOpen /\ \E c \in Reads : call[c] = "waiting" /\ Answers(c, "error")

\* on_connection_closed answers the read that waits, and no other.
LEMMA ResolvedReads ==
    ASSUME Inv, NEW W \in SUBSET Closes, NEW s, s = [conn EXCEPT !.waiters = @ \cup W],
           conn' = Closed(s), call' = Resolved(s), arrived' = arrived,
           uv' = uv \/ uv' = NoHandle
    PROVE  /\ conn' \in Conns /\ conn'.pending = None /\ conn'.eof = conn.eof
           /\ call' \in [Calls -> Outcomes]
           /\ \A c \in Reads : call'[c] = IF c = conn.pending THEN "error" ELSE call[c]
           /\ PendingWaits'
<1>1. s \in Conns /\ s.pending = conn.pending /\ s.eof = conn.eof
  BY Zenon DEF Inv, Types, Conns
<1>2. conn' \in Conns /\ conn'.pending = None /\ conn'.eof = conn.eof
  BY <1>1, ZenonT(30) DEF Closed, Conns
<1>3. call' \in [Calls -> Outcomes]
  BY Zenon DEF Resolved, Inv, Types, Outcomes
<1>4. \A c \in Reads : c \in Calls /\ c \notin s.waiters
  BY <1>1, CallsAssumption, Zenon DEF Conns, Calls
<1>5. \A c \in Reads : call'[c] = IF c = conn.pending THEN "error" ELSE call[c]
  BY <1>1, <1>4, Zenon DEF Resolved, Closed, Conns
<1>6. PendingWaits'
  BY <1>2, <1>5, CallsAssumption, SMTT(30) DEF PendingWaits, Inv, Calls
<1> QED BY <1>2, <1>3, <1>5, <1>6, Zenon

\* ... and leaves every call with an outcome.
LEMMA ResolvedClosed ==
    ASSUME Inv, SameOpen,
           \A c \in Reads : call'[c] = IF c = conn.pending THEN "error" ELSE call[c]
    PROVE  ReadsClosed /\ (~held => SameReads)
<1>1. CASE conn.pending \in Reads
  <2>1. call[conn.pending] = "waiting"
    BY <1>1, Zenon DEF Inv, PendingWaits
  <2>2. Answers(conn.pending, "error")
    BY <1>1, Zenon DEF Answers
  <2>3. held
    BY <1>1, <2>1, Zenon DEF Inv, GivenOnce, Types
  <2> QED BY <1>1, <2>1, <2>2, <2>3, Zenon DEF ReadsClosed
<1>2. CASE conn.pending \notin Reads
  BY <1>2, Zenon DEF ReadsClosed, SameReads
<1> QED BY <1>1, <1>2, Zenon

\* What start_close does to the connection, alive or not.
LEMMA StartCloseStep ==
    ASSUME Inv, NEW W \in SUBSET Closes, StartClose(W), UNCHANGED <<loop, arrived, held>>
    PROVE  ConnInv' /\ ReadsClosed /\ (~held => SameReads)
<1>0. \A c \in Reads : c \in Calls /\ c \notin W
  BY CallsAssumption, Zenon DEF Calls
<1>1. CASE ~conn.initialized \/ conn.closed
  <2>1. UNCHANGED <<conn, uv>> /\ call' = Mark(W, "ok")
    BY <1>1, Zenon DEF StartClose
  <2>2. SameReads /\ call' \in [Calls -> Outcomes]
    BY <1>0, <2>1, Zenon DEF Mark, SameReads, Inv, Types, Outcomes
  <2> QED
    BY <2>1, <2>2, Zenon DEF ConnInv, ReadsClosed, SameReads, Inv, Types, PendingWaits, ReadingForOne,
                      EofIsLast, is_loop_alive
<1>2. CASE ~(~conn.initialized \/ conn.closed) /\ is_loop_alive
  <2> DEFINE s == [conn EXCEPT !.waiters = @ \cup W]
  <2>1. /\ conn' = ClosingState(s) /\ call' = Mark(W, "waiting")
        /\ uv' = [uv EXCEPT !.state = "closing", !.cb = TRUE, !.reading = FALSE]
    BY <1>2, Zenon DEF StartClose
  <2>2. SameReads /\ call' \in [Calls -> Outcomes]
    BY <1>0, <2>1, Zenon DEF Mark, SameReads, Inv, Types, Outcomes
  <2>3. conn' \in Conns /\ conn'.pending = conn.pending /\ conn'.eof = conn.eof
    BY <2>1, Zenon DEF ClosingState, Inv, Types, Conns
  <2>4. uv' \in Handles /\ ~uv'.reading
    BY <2>1, Zenon DEF Inv, Types, Handles
  <2> QED
    BY <2>2, <2>3, <2>4, Zenon DEF ConnInv, ReadsClosed, SameReads, Inv, PendingWaits, ReadingForOne, EofIsLast
<1>3. CASE ~(~conn.initialized \/ conn.closed) /\ ~is_loop_alive
  <2> DEFINE s == [conn EXCEPT !.waiters = @ \cup W]
  <2>1. conn' = Closed(s) /\ call' = Resolved(s) /\ uv' = uv
    BY <1>3, Zenon DEF StartClose
  <2> HIDE DEF s
  <2>2. s = [conn EXCEPT !.waiters = @ \cup W]
    BY Zenon DEF s
  <2>3. /\ conn' \in Conns /\ conn'.eof = conn.eof /\ call' \in [Calls -> Outcomes] /\ PendingWaits'
        /\ \A c \in Reads : call'[c] = IF c = conn.pending THEN "error" ELSE call[c]
    BY <2>1, <2>2, ResolvedReads, Zenon
  <2>4. ReadsClosed /\ (~held => SameReads)
    BY <2>1, <2>3, ResolvedClosed, Zenon DEF SameOpen
  <2> QED
    BY <1>3, <2>1, <2>3, <2>4, Zenon DEF ConnInv, Inv, Types, ReadingForOne, EofIsLast
<1> QED BY <1>1, <1>2, <1>3, Zenon

\* What on_connection_closed does to the connection.
LEMMA ClosedStep ==
    ASSUME Inv, OnConnectionClosed
    PROVE  ConnInv' /\ ReadsClosed /\ SameOpen /\ (~held => SameReads)
<1>1. uv' = NoHandle /\ uv.state = "closing" /\ UNCHANGED <<loop, arrived, held>>
  BY Zenon DEF OnConnectionClosed
<1>2. uv' \in Handles /\ ~uv'.reading /\ SameOpen
  BY <1>1, Zenon DEF NoHandle, Handles, SameOpen
<1>3. CASE uv.cb
  <2>1. conn' = Closed(conn) /\ call' = Resolved(conn)
    BY <1>3, Zenon DEF OnConnectionClosed
  <2>2. conn = [conn EXCEPT !.waiters = @ \cup {}]
    BY Zenon DEF Inv, Types, Conns
  <2>3. /\ conn' \in Conns /\ conn'.eof = conn.eof /\ call' \in [Calls -> Outcomes] /\ PendingWaits'
        /\ \A c \in Reads : call'[c] = IF c = conn.pending THEN "error" ELSE call[c]
    BY <1>1, <2>1, <2>2, ResolvedReads, Zenon
  <2>4. ReadsClosed /\ (~held => SameReads)
    BY <1>2, <2>3, ResolvedClosed, Zenon
  <2> QED BY <1>1, <1>2, <2>3, <2>4, Zenon DEF ConnInv, Inv, ReadingForOne, EofIsLast
<1>4. CASE ~uv.cb
  <2>1. UNCHANGED <<conn, call>>
    BY <1>4, Zenon DEF OnConnectionClosed
  <2> QED
    BY <1>1, <1>2, <2>1, Zenon DEF ConnInv, ReadsClosed, SameReads, Inv, Types, PendingWaits,
                            ReadingForOne, EofIsLast
<1> QED BY <1>3, <1>4, Zenon

-----------------------------------------------------------------------------
(* The steps *)

\* A step that is allowed: it preserves Inv and is a step of the mailbox.
Good == Inv' /\ [Box!Next]_(Box!vars)

\* Closing is, to the reads, a close of the mailbox or a failed call.
LEMMA ReadsClosedMap ==
    ASSUME Types, Types', ReadsClosed, arrived' = arrived
    PROVE  [Box!Next]_(Box!vars)
<1>1. CASE SameReads
  BY <1>1, MapOpens, Zenon
<1>2. ASSUME SameOpen, NEW c \in Reads, call[c] = "waiting", Answers(c, "error")
      PROVE  [Box!Next]_(Box!vars)
  BY <1>2, MapFail, Zenon
<1> QED BY <1>1, <1>2, Zenon DEF ReadsClosed

\* A step of the request that closes the connection, or leaves it alone.
LEMMA RequestGood ==
    ASSUME Inv, ConnInv', ReadsClosed, ~held => SameReads, UNCHANGED <<loop, arrived, held>>,
           req' \in Requests, client' \in Results,
           held => req'.stage = "none",
           held \/ req'.stage # "none" => client'.result # "new"
    PROVE  Good
<1>1. Types'
  BY Zenon DEF Inv, Types, ConnInv
<1>2. GivenOnce'
  BY Zenon DEF Inv, Types, GivenOnce, SameReads
<1>3. Inv'
  BY <1>1, <1>2, Zenon DEF Inv, ConnInv
<1> QED BY <1>1, <1>3, ReadsClosedMap, Zenon DEF Good, Inv

\* Deleting the ConnectRequestState leaves no callback outstanding.
LEMMA DeletedType ==
    ASSUME Inv, req' = Deleted, NEW o \in {"connected", "timeout", "error"}, Returns(o)
    PROVE  /\ req' \in Requests /\ req'.stage = "none"
           /\ client' \in Results /\ (client'.result = "new" <=> client.result = "new")
BY Zenon DEF Inv, Types, Requests, Results, Deleted, Returns

\* finish_connect_error, reached from on_resolved and from on_connected.
LEMMA FinishErrorGood ==
    ASSUME Inv, FinishError, req.stage # "none"
    PROVE  Good
<1>1. req' = Deleted /\ Returns("error") /\ UNCHANGED <<loop, arrived, held>>
  BY Zenon DEF FinishError
<1>2. req' \in Requests /\ client' \in Results /\ req'.stage = "none" /\ client'.result # "new"
  BY <1>1, DeletedType, Zenon DEF Inv, GivenOnce
<1>3. CASE req.connection
  <2>1. StartClose({})
    BY <1>3, Zenon DEF FinishError
  <2> QED BY <1>1, <1>2, <2>1, StartCloseStep, RequestGood, Zenon
<1>4. CASE ~req.connection
  <2>1. UNCHANGED <<conn, uv, call>>
    BY <1>4, Zenon DEF FinishError
  <2>2. ConnInv' /\ SameReads /\ ReadsClosed
    BY <1>1, <2>1, Zenon DEF ConnInv, SameReads, ReadsClosed, Inv, Types, PendingWaits, ReadingForOne,
                      EofIsLast, is_loop_alive
  <2> QED BY <1>1, <1>2, <2>2, RequestGood, Zenon
<1> QED BY <1>3, <1>4, Zenon

\* A new connection replaces NoState while nobody holds it.
LEMMA FreshGood ==
    ASSUME Inv, req.stage = "resolving", conn' \in Conns, conn'.pending = None, ~conn'.eof,
           uv' \in Handles, ~uv'.reading, UNCHANGED <<loop, arrived, held, call>>,
           req' \in Requests, client' \in Results, client'.result # "new"
    PROVE  Good
<1>1. ~held /\ \A c \in Reads : call[c] = "new"
  BY Zenon DEF Inv, GivenOnce, Types
<1>2. ConnInv' /\ SameReads /\ ReadsClosed
  BY <1>1, CallsAssumption, Zenon DEF ConnInv, SameReads, ReadsClosed, Inv, Types, PendingWaits,
                               ReadingForOne, EofIsLast, Calls
<1> QED BY <1>1, <1>2, RequestGood, Zenon

\* Every step of connect() and connect_for().
LEMMA RequestSteps ==
    ASSUME Inv,
           \/ OnResolvedError \/ OnResolvedRefused \/ OnResolved \/ OnConnected \/ OnConnectError
           \/ ConnectTimeout \/ \E timed, started \in BOOLEAN : Connect(timed, started)
    PROVE  Good
<1>1. CASE OnResolvedError \/ OnConnectError
  BY <1>1, FinishErrorGood, Zenon DEF OnResolvedError, OnConnectError
<1>2. CASE OnResolvedRefused
  <2>1. conn' \in Conns /\ conn'.pending = None /\ ~conn'.eof
    BY <1>2, Zenon DEF OnResolvedRefused, NoState, Conns, is_loop_alive
  <2>2. uv' \in Handles /\ ~uv'.reading
    BY <1>2, Zenon DEF OnResolvedRefused, NoHandle, Handles, is_loop_alive
  <2>3. req.stage = "resolving" /\ req' = Deleted /\ Returns("error") /\ UNCHANGED <<loop, arrived, held, call>>
    BY <1>2, Zenon DEF OnResolvedRefused
  <2>4. req' \in Requests /\ client' \in Results /\ client'.result # "new"
    BY <2>3, DeletedType, Zenon DEF Inv, GivenOnce
  <2> QED BY <2>1, <2>2, <2>3, <2>4, FreshGood, Zenon
<1>3. CASE OnResolved
  <2>1. conn' \in Conns /\ conn'.pending = None /\ ~conn'.eof
    BY <1>3, Zenon DEF OnResolved, Create, NoState, Conns
  <2>2. uv' \in Handles /\ ~uv'.reading
    BY <1>3, Zenon DEF OnResolved, Create, NoHandle, Handles
  <2>3. req.stage = "resolving" /\ UNCHANGED <<loop, arrived, held, call, client>>
    BY <1>3, Zenon DEF OnResolved
  <2>4. req' \in Requests /\ client' \in Results /\ client'.result # "new"
    BY <1>3, <2>3, Zenon DEF OnResolved, Inv, Types, GivenOnce, Requests
  <2> QED BY <2>1, <2>2, <2>3, <2>4, FreshGood, Zenon
<1>4. CASE OnConnected
  <2>1. /\ req.stage = "connecting" /\ held' /\ req' = Deleted /\ Returns("connected")
        /\ UNCHANGED <<loop, conn, uv, arrived, call>>
    BY <1>4, Zenon DEF OnConnected
  <2>2. /\ req' \in Requests /\ req'.stage = "none"
        /\ client' \in Results /\ client'.result # "new"
    BY <2>1, DeletedType, Zenon DEF Inv, GivenOnce
  <2>3. Inv'
    BY <1>4, <2>1, <2>2, Zenon DEF OnConnected, Inv, Types, PendingWaits, ReadingForOne, GivenOnce, EofIsLast, is_loop_alive
  <2>4. SameReads /\ SameOpen
    BY <2>1, Zenon DEF SameReads, SameOpen
  <2> QED BY <2>1, <2>3, <2>4, MapSame, Zenon DEF Good, Inv
<1>5. CASE ConnectTimeout
  <2>1. /\ Returns("timeout") /\ client.result = "waiting" /\ UNCHANGED <<loop, arrived, held>>
        /\ req' = [req EXCEPT !.timed_out = TRUE]
    BY <1>5, Zenon DEF ConnectTimeout
  <2>2. /\ req' \in Requests /\ req'.stage = req.stage
        /\ client' \in Results /\ client'.result # "new"
    BY <2>1, Zenon DEF Returns, Inv, Types, Requests, Results
  <2>3. CASE req.connection
    <3>1. StartClose({})
      BY <1>5, <2>3, Zenon DEF ConnectTimeout
    <3> QED BY <2>1, <2>2, <3>1, StartCloseStep, RequestGood, Zenon DEF Inv, GivenOnce
  <2>4. CASE ~req.connection
    <3>1. UNCHANGED <<conn, uv, call>>
      BY <1>5, <2>4, Zenon DEF ConnectTimeout
    <3>2. ConnInv' /\ SameReads /\ ReadsClosed
      BY <2>1, <3>1, Zenon DEF ConnInv, SameReads, ReadsClosed, Inv, Types, PendingWaits, ReadingForOne,
                        EofIsLast, is_loop_alive
    <3> QED BY <2>1, <2>2, <3>2, RequestGood, Zenon DEF Inv, GivenOnce
  <2> QED BY <2>3, <2>4, Zenon
<1>6. ASSUME NEW timed \in BOOLEAN, NEW started \in BOOLEAN, Connect(timed, started) PROVE Good
  <2>1. client.result = "new" /\ UNCHANGED connVars
    BY <1>6, Zenon DEF Connect
  <2>2. UNCHANGED <<loop, conn, uv, arrived, held, call>>
    BY <2>1, Zenon DEF connVars
  <2>3. ConnInv' /\ SameReads /\ ReadsClosed
    BY <2>2, Zenon DEF ConnInv, SameReads, ReadsClosed, Inv, Types, PendingWaits, ReadingForOne,
                EofIsLast, is_loop_alive
  <2>4. ~held
    BY <2>1, Zenon DEF Inv, GivenOnce, Types
  <2>5. req' \in Requests /\ client' \in Results /\ client'.result # "new"
    <3>1. \A r \in {"waiting", "error"} : [timed |-> timed, result |-> r] \in Results
      BY Zenon DEF Results
    <3>2. [NoRequest EXCEPT !.exists = TRUE, !.stage = "resolving"] \in Requests
      BY Zenon DEF NoRequest, Requests
    <3>3. CASE is_loop_alive /\ started
      BY <1>6, <3>1, <3>2, <3>3 DEF Connect
    <3>4. CASE ~(is_loop_alive /\ started)
      BY <1>6, <3>1, <3>4 DEF Connect, Inv, Types
    <3> QED BY <3>3, <3>4, Zenon
  <2> QED BY <2>2, <2>3, <2>4, <2>5, RequestGood, Zenon
<1> QED BY <1>1, <1>2, <1>3, <1>4, <1>5, <1>6, Zenon

\* A step of the connection that leaves the request alone.
LEMMA ConnGood ==
    ASSUME Inv, ConnInv', arrived' \in 0 .. Len(Stream), ~held => SameReads,
           UNCHANGED <<loop, held, req, client>>
    PROVE  Inv'
<1>1. Types'
  BY Zenon DEF Inv, Types, ConnInv
<1>2. GivenOnce'
  BY Zenon DEF Inv, Types, GivenOnce, SameReads
<1> QED BY <1>1, <1>2, Zenon DEF Inv, ConnInv

\* close() and the close callback.
LEMMA ClosingGood ==
    ASSUME Inv, UNCHANGED <<req, client>>, OnClosed \/ \E c \in Calls : Close(c)
    PROVE  Good
<1>1. CASE OnClosed
  <2>1. OnConnectionClosed /\ UNCHANGED <<loop, arrived, held>>
    BY <1>1, Zenon DEF OnClosed, OnConnectionClosed
  <2>2. ConnInv' /\ ReadsClosed /\ (~held => SameReads)
    BY <2>1, ClosedStep, Zenon
  <2> QED BY <2>1, <2>2, RequestGood, Zenon DEF Inv, Types, GivenOnce
<1>2. ASSUME NEW c \in Calls, Close(c) PROVE Good
  <2>1. c \in Closes /\ StartClose({c}) /\ UNCHANGED <<loop, arrived, held>>
    BY <1>2, Zenon DEF Close
  <2>2. ConnInv' /\ ReadsClosed /\ (~held => SameReads)
    BY <2>1, StartCloseStep, Zenon
  <2> QED BY <2>1, <2>2, RequestGood, Zenon DEF Inv, Types, GivenOnce
<1> QED BY <1>1, <1>2, Zenon

\* What on_connection_read does to the read that waits.
LEMMA FinishReadStep ==
    ASSUME Inv, Reading, NEW o \in Outcomes \ {"new", "waiting"}, FinishRead(o),
           conn'.pending = None
    PROVE  /\ conn.pending \in Reads /\ call[conn.pending] = "waiting" /\ held
           /\ Answers(conn.pending, o) /\ call' \in [Calls -> Outcomes]
           /\ uv.state = "open" /\ uv' \in Handles /\ uv'.state = "open" /\ ~uv'.reading
           /\ PendingWaits'
<1>1. conn.pending \in Reads /\ conn.pending \in Calls /\ conn.pending # None
  BY CallsAssumption, Zenon DEF Inv, Types, ReadingForOne, Reading, Conns, Calls
<1>2. call[conn.pending] = "waiting" /\ held
  BY <1>1, Zenon DEF Inv, Types, PendingWaits, GivenOnce
<1>3. call' = [call EXCEPT ![conn.pending] = o]
  BY <1>1, Zenon DEF FinishRead
<1>4. call' \in [Calls -> Outcomes]
  BY <1>1, <1>3, Zenon DEF Inv, Types
<1>5. Answers(conn.pending, o)
  BY <1>1, <1>3, Zenon DEF Answers, Inv, Types, Calls
<1>6. uv.state = "open" /\ uv' \in Handles /\ uv'.state = "open" /\ ~uv'.reading
  BY Zenon DEF FinishRead, Reading, Inv, Types, Handles
<1>7. PendingWaits'
  BY <1>1, <1>5, CallsAssumption, Zenon DEF PendingWaits, Answers, Inv, Calls
<1> QED BY <1>1, <1>2, <1>4, <1>5, <1>6, <1>7, Zenon

\* The three outcomes of on_connection_read.
LEMMA ReadingGood ==
    ASSUME Inv, UNCHANGED <<req, client>>, OnData \/ OnEof \/ OnReadError
    PROVE  Good
<1>0. PICK p : p = conn.pending
  BY Zenon
<1>1. CASE OnData
  <2>1. Len(Stream) \in Nat /\ DOMAIN Stream = 1 .. Len(Stream)
    BY StreamAssumption
  <2>2. /\ Reading /\ arrived < Len(Stream) /\ arrived' = arrived + 1
        /\ FinishRead(Stream[arrived + 1]) /\ UNCHANGED <<loop, held>>
    BY <1>1, Zenon DEF OnData
  <2>3. arrived + 1 \in DOMAIN Stream /\ arrived' \in 0 .. Len(Stream)
    BY <2>1, <2>2 DEF Inv, Types
  <2>4. Stream[arrived + 1] \in Outcomes \ {"new", "waiting"}
    BY <2>3, StreamAssumption, Zenon DEF Outcomes, Items
  <2>5. conn' \in Conns /\ conn'.pending = None /\ conn'.eof = conn.eof
    BY <1>1, <2>2, Zenon DEF OnData, Inv, Types, Conns, Reading, ReadingForOne
  <2>6. /\ p \in Reads /\ call[p] = "waiting" /\ held
        /\ Answers(p, Stream[arrived + 1]) /\ call' \in [Calls -> Outcomes]
        /\ uv.state = "open" /\ uv' \in Handles /\ uv'.state = "open" /\ ~uv'.reading
        /\ PendingWaits'
    BY <1>0, <2>2, <2>4, <2>5, FinishReadStep, Zenon
  <2>7. EofIsLast'
    BY <2>2, <2>5 DEF EofIsLast, Inv, Types
  <2>8. Inv'
    BY <2>2, <2>3, <2>5, <2>6, <2>7, ConnGood, Zenon DEF ConnInv, ReadingForOne
  <2>9. Box!Receive(p)
    <3>1. (arrived - Len(conn.buffered)) = arrived /\ (arrived - Len(conn.buffered))' = arrived + 1
      BY <2>2, <2>5 DEF Inv, Types, Conns
    <3>2. Box!Answer(p, Stream[arrived - Len(conn.buffered) + 1])
      BY <2>6, <2>8, <3>1, MapAnswer, Zenon DEF Box!Answer, Inv
    <3>3. (uv.state = "open")' = (uv.state = "open") /\ call[p] = [c \in Reads |-> call[c]][p]
      BY <2>6, Zenon
    <3>4. Box!Unanswered(p)
      BY <2>6, Zenon DEF Box!Unanswered
    <3> QED BY <2>2, <2>6, <3>1, <3>2, <3>3, <3>4, Zenon DEF Box!Receive
  <2> QED BY <2>6, <2>8, <2>9, Zenon DEF Good, Box!Next
<1>2. CASE OnEof
  <2>1. Reading /\ arrived = Len(Stream) /\ FinishRead("eof") /\ UNCHANGED <<loop, arrived, held>>
    BY <1>2, Zenon DEF OnEof
  <2>2. conn' \in Conns /\ conn'.pending = None /\ conn'.eof
    BY <1>2, Zenon DEF OnEof, Inv, Types, Conns
  <2>3. /\ p \in Reads /\ call[p] = "waiting" /\ held
        /\ Answers(p, "eof") /\ call' \in [Calls -> Outcomes]
        /\ uv.state = "open" /\ uv' \in Handles /\ uv'.state = "open" /\ ~uv'.reading
        /\ PendingWaits'
    BY <1>0, <2>1, <2>2, FinishReadStep, Zenon DEF Outcomes
  <2>4. Inv'
    BY <2>1, <2>2, <2>3, ConnGood, Zenon DEF ConnInv, ReadingForOne, EofIsLast, Inv, Types
  <2>5. Box!End(p)
    <3>1. (arrived - Len(conn.buffered)) = Len(Stream) /\ (arrived - Len(conn.buffered))' = Len(Stream)
      BY <2>1, <2>2 DEF Inv, Types, Conns
    <3>2. Box!Answer(p, "eof")
      BY <2>3, <2>4, MapAnswer, Zenon DEF Box!Answer, Inv
    <3> QED BY <2>3, <3>1, <3>2, Zenon DEF Box!End, Box!Unanswered
  <2> QED BY <2>3, <2>4, <2>5, Zenon DEF Good, Box!Next
<1>3. CASE OnReadError
  <2>1. Reading /\ FinishRead("error") /\ UNCHANGED <<loop, arrived, held>>
    BY <1>3, Zenon DEF OnReadError
  <2>2. conn' \in Conns /\ conn'.pending = None /\ conn'.eof = conn.eof
    BY <1>3, Zenon DEF OnReadError, Inv, Types, Conns
  <2>3. /\ p \in Reads /\ call[p] = "waiting" /\ held
        /\ Answers(p, "error") /\ call' \in [Calls -> Outcomes]
        /\ uv.state = "open" /\ uv' \in Handles /\ uv'.state = "open" /\ ~uv'.reading
        /\ PendingWaits'
    BY <1>0, <2>1, <2>2, FinishReadStep, Zenon DEF Outcomes
  <2>4. Inv'
    BY <2>1, <2>2, <2>3, ConnGood, Zenon DEF ConnInv, ReadingForOne, EofIsLast, Inv, Types
  <2> QED BY <2>1, <2>3, <2>4, MapFail, Zenon DEF Good, Inv, SameOpen
<1> QED BY <1>1, <1>2, <1>3, Zenon

\* read(): an error, the end of the stream, or one more call that waits.
LEMMA ReadGood ==
    ASSUME Inv, UNCHANGED <<req, client>>, NEW c \in Calls, NEW started \in BOOLEAN,
           Read(c, started)
    PROVE  Good
<1>1. /\ held /\ c \in Reads /\ call[c] = "new" /\ UNCHANGED <<loop, arrived, held>>
      /\ call' = [call EXCEPT ![c] = ReadResult(started)]
  BY Zenon DEF Read, Answer
<1>2. /\ conn' = [conn EXCEPT !.buffered = <<>>,
                              !.pending = IF ReadResult(started) = "waiting" THEN c ELSE @]
      /\ uv' = [uv EXCEPT !.reading = @ \/ ReadResult(started) = "waiting"]
  BY Zenon DEF Read, Inv, Types, Conns
<1>3. conn' \in Conns /\ conn'.eof = conn.eof
  BY <1>1, <1>2, Zenon DEF Inv, Types, Conns
<1>4. uv' \in Handles /\ SameOpen
  BY <1>2, Zenon DEF Inv, Types, Handles, SameOpen
<1>5. ReadResult(started) \in {"error", "eof", "waiting"}
  BY Zenon DEF ReadResult, Inv, Types, Conns
<1>6. call' \in [Calls -> Outcomes] /\ Answers(c, ReadResult(started))
  BY <1>1, <1>5, Zenon DEF Inv, Types, Outcomes, Answers, Calls
<1>7. EofIsLast'
  BY <1>1, <1>3, Zenon DEF EofIsLast, Inv
<1>8. CASE ReadResult(started) = "waiting"
  <2>1. conn.pending = None /\ uv.state = "open" /\ is_loop_alive
    BY <1>8, Zenon DEF ReadResult, Inv, Types, Conns
  <2>2. conn'.pending = c
    BY <1>2, <1>8, Zenon DEF Inv, Types, Conns
  <2>3. PendingWaits' /\ \A d \in Reads : call[d] # "waiting"
    BY <1>1, <1>6, <1>8, <2>1, <2>2, CallsAssumption, Zenon DEF PendingWaits, Inv, Answers, Calls
  <2>4. ReadingForOne'
    BY <1>1, <1>2, <1>4, <2>1, <2>2, CallsAssumption, SMTT(30) DEF ReadingForOne, SameOpen, Calls, is_loop_alive
  <2>5. Inv'
    BY <1>1, <1>3, <1>4, <1>6, <1>7, <2>3, <2>4, ConnGood, Zenon DEF ConnInv, Inv, Types
  <2>6. Box!Wait(c)
    <3>1. Box!Answer(c, "waiting")
      BY <1>1, <1>6, <1>8, <2>5, MapAnswer, Zenon DEF Box!Answer, Inv
    <3>2. (arrived - Len(conn.buffered))' = arrived - Len(conn.buffered)
      BY <1>1, <1>3, Zenon DEF Inv, Types, Conns
    <3> QED BY <1>1, <1>4, <2>1, <2>3, <3>1, <3>2, Zenon DEF Box!Wait, SameOpen
  <2> QED BY <1>1, <2>5, <2>6, Zenon DEF Good, Box!Next
<1>9. CASE ReadResult(started) # "waiting"
  <2>1. conn'.pending = conn.pending /\ uv'.reading = uv.reading
    BY <1>2, <1>9, Zenon DEF Inv, Types, Conns, Handles
  <2>2. PendingWaits'
    BY <1>1, <1>6, <1>9, <2>1, Zenon DEF PendingWaits, Inv, Answers
  <2>3. ReadingForOne'
    BY <1>1, <1>4, <2>1, Zenon DEF ReadingForOne, SameOpen, Inv, is_loop_alive
  <2>4. Inv'
    BY <1>1, <1>3, <1>4, <1>6, <1>7, <2>2, <2>3, ConnGood, Zenon DEF ConnInv, Inv, Types
  <2>5. CASE ReadResult(started) = "error"
    BY <1>1, <1>4, <1>6, <2>4, <2>5, MapFail, Zenon DEF Good, Inv
  <2>6. CASE ReadResult(started) = "eof"
    <3>1. conn.eof
      BY <2>6, Zenon DEF ReadResult, Inv, Types, Conns
    <3>2. (arrived - Len(conn.buffered)) = Len(Stream) /\ (arrived - Len(conn.buffered))' = Len(Stream)
      BY <1>1, <1>3, <3>1 DEF Inv, Types, Conns, EofIsLast
    <3>3. Box!Answer(c, "eof")
      BY <1>1, <1>6, <2>4, <2>6, MapAnswer, Zenon DEF Box!Answer, Inv
    <3>4. Box!End(c)
      BY <1>1, <1>4, <3>2, <3>3, Zenon DEF Box!End, Box!Unanswered, SameOpen
    <3> QED BY <1>1, <2>4, <3>4, Zenon DEF Good, Box!Next
  <2> QED BY <1>5, <1>9, <2>5, <2>6, Zenon
<1> QED BY <1>8, <1>9, Zenon

\* read_for() that times out takes nothing from the stream.
LEMMA TimeoutGood ==
    ASSUME Inv, UNCHANGED <<req, client>>, NEW c \in Calls, ReadTimeout(c)
    PROVE  Good
<1>1. /\ c \in TimedReads /\ c \in Reads /\ call[c] = "waiting" /\ UNCHANGED <<loop, arrived, held>>
      /\ call' = [call EXCEPT ![c] = "timeout"]
  BY CallsAssumption, Zenon DEF ReadTimeout, Answer
<1>2. /\ conn' = [conn EXCEPT !.pending = None] /\ uv' = [uv EXCEPT !.reading = FALSE]
  BY <1>1, Zenon DEF ReadTimeout, Inv, PendingWaits
<1>3. conn' \in Conns /\ conn'.pending = None /\ conn'.eof = conn.eof
  BY <1>2, Zenon DEF Inv, Types, Conns
<1>4. uv' \in Handles /\ SameOpen /\ ~uv'.reading
  BY <1>2, Zenon DEF Inv, Types, Handles, SameOpen
<1>5. call' \in [Calls -> Outcomes] /\ Answers(c, "timeout")
  BY <1>1, Zenon DEF Inv, Types, Outcomes, Answers, Calls
<1>6. held
  BY <1>1, Zenon DEF Inv, GivenOnce, Types
<1>7. PendingWaits'
  BY <1>1, <1>3, <1>5, CallsAssumption DEF PendingWaits, Inv, Answers, Calls
<1>8. Inv'
  BY <1>1, <1>3, <1>4, <1>5, <1>6, <1>7, ConnGood, Zenon DEF ConnInv, Inv, Types, ReadingForOne, EofIsLast
<1>9. Box!Timeout(c)
  <2>1. Box!Answer(c, "timeout")
    BY <1>1, <1>5, <1>8, MapAnswer, Zenon DEF Box!Answer, Inv
  <2>2. (arrived - Len(conn.buffered))' = arrived - Len(conn.buffered)
    BY <1>1, <1>3, Zenon DEF Inv, Types, Conns
  <2> QED BY <1>1, <1>4, <2>1, <2>2, Zenon DEF Box!Timeout, SameOpen
<1> QED BY <1>1, <1>8, <1>9, Zenon DEF Good, Box!Next

\* Writes answer no read, and ~EventLoop only closes the handle.
LEMMA OtherGood ==
    ASSUME Inv, UNCHANGED <<req, client>>,
           \/ \E c \in Calls, empty, started \in BOOLEAN : Write(c, empty, started)
           \/ \E c \in Writes, o \in {"ok", "error"} : OnWriteDone(c, o)
           \/ LoopDies \/ LoopDead
    PROVE  Good
<1>1. ASSUME NEW c \in Writes, NEW o \in Outcomes, call' = [call EXCEPT ![c] = o],
             uv' \in Handles, uv'.state = uv.state, uv'.reading = uv.reading,
             UNCHANGED <<loop, conn, arrived, held>>
      PROVE  Good
  <2>1. SameReads /\ SameOpen /\ call' \in [Calls -> Outcomes]
    BY <1>1, CallsAssumption, Zenon DEF SameReads, SameOpen, Inv, Types, Calls
  <2>2. ConnInv' /\ ReadsClosed
    BY <1>1, <2>1, Zenon DEF ConnInv, ReadsClosed, SameReads, Inv, Types, PendingWaits, ReadingForOne,
                      EofIsLast, is_loop_alive
  <2> QED BY <1>1, <2>1, <2>2, RequestGood, Zenon DEF Inv, Types, GivenOnce
<1>2. ASSUME NEW c \in Calls, NEW empty \in BOOLEAN, NEW started \in BOOLEAN, Write(c, empty, started)
      PROVE  Good
  <2>1. /\ c \in Writes /\ UNCHANGED <<loop, conn, arrived, held>>
        /\ \E o \in {"ok", "error", "waiting"} : call' = [call EXCEPT ![c] = o]
    BY <1>2, Zenon DEF Write, Answer
  <2>2. uv' = uv \/ uv' = [uv EXCEPT !.writes = @ \cup {c}]
    BY <1>2, Zenon DEF Write
  <2>3. uv' \in Handles /\ uv'.state = uv.state /\ uv'.reading = uv.reading
    BY <2>1, <2>2 DEF Inv, Types, Handles
  <2> QED BY <1>1, <2>1, <2>3, Zenon DEF Outcomes
<1>3. ASSUME NEW c \in Writes, NEW o \in {"ok", "error"}, OnWriteDone(c, o) PROVE Good
  <2>1. call' = [call EXCEPT ![c] = o] /\ UNCHANGED <<loop, conn, arrived, held>>
    BY <1>3, Zenon DEF OnWriteDone, Answer
  <2>2. uv' \in Handles /\ uv'.state = uv.state /\ uv'.reading = uv.reading
    BY <1>3, Zenon DEF OnWriteDone, Inv, Types, Handles
  <2> QED BY <1>1, <2>1, <2>2, Zenon DEF Outcomes
<1>4. CASE LoopDies \/ LoopDead
  <2>1. UNCHANGED <<conn, arrived, held, call>> /\ loop' \in {"dying", "dead"} /\ SameReads
    BY <1>4, Zenon DEF LoopDies, LoopDead, SameReads
  <2>2. uv' \in Handles /\ ~uv'.reading
    <3>1. CASE LoopDies
      BY <3>1, Zenon DEF LoopDies, WalkClose, Inv, Types, Handles, ReadingForOne
    <3>2. CASE LoopDead
      BY <3>2, Zenon DEF LoopDead, Inv, Types, ReadingForOne, is_loop_alive
    <3> QED BY <1>4, <3>1, <3>2, Zenon
  <2>3. Inv'
    BY <2>1, <2>2, Zenon DEF Inv, Types, PendingWaits, ReadingForOne, GivenOnce, EofIsLast
  <2> QED BY <2>1, <2>3, MapOpens, Zenon DEF Good, Inv
<1> QED BY <1>2, <1>3, <1>4, Zenon

\* Every step keeps the invariant and is a step or a stutter of the mailbox.
LEMMA NextGood == Inv /\ [Next]_vars => Good
<1> SUFFICES ASSUME Inv, [Next]_vars PROVE Good
  BY Zenon
<1>1. CASE Callback
  BY <1>1, RequestSteps, ClosingGood, ReadingGood, OtherGood, Zenon DEF Callback
<1>2. CASE ConnectTimeout \/ \E timed, started \in BOOLEAN : Connect(timed, started)
  BY <1>2, RequestSteps, Zenon
<1>3. CASE UNCHANGED <<req, client>> /\ ConnFiber
  BY <1>3, ClosingGood, ReadGood, TimeoutGood, OtherGood, Zenon DEF ConnFiber
<1>4. CASE LoopDies \/ LoopDead
  <2>1. UNCHANGED <<req, client>>
    BY <1>4, Zenon DEF LoopDies, LoopDead
  <2> QED BY <1>4, <2>1, OtherGood, SMTT(30)
<1>5. CASE UNCHANGED vars
  <2>1. UNCHANGED <<loop, conn, uv, arrived, held, call, req, client>>
    BY <1>5, Zenon DEF vars, connVars
  <2>2. Inv'
    BY <2>1, Zenon DEF Inv, Types, PendingWaits, ReadingForOne, GivenOnce, EofIsLast, is_loop_alive
  <2> QED BY <2>1, <2>2, MapSame, Zenon DEF Good, Inv, SameReads, SameOpen
<1> QED BY <1>1, <1>2, <1>3, <1>4, <1>5, Zenon DEF Next

\* The initial states satisfy the invariant and are initial states of the mailbox.
LEMMA InitInv == Init => Inv /\ Box!Init
<1> SUFFICES ASSUME Init PROVE Inv /\ Box!Init
  BY Zenon
<1>1. /\ loop = "running" /\ conn = NoState /\ uv = NoHandle /\ arrived = 0 /\ held = FALSE
      /\ call = [c \in Calls |-> "new"] /\ req = NoRequest
      /\ client = [timed |-> FALSE, result |-> "new"]
  BY SMTT(30) DEF Init, ConnInit
<1>2. conn \in Conns /\ uv \in Handles /\ req \in Requests /\ client \in Results
  BY <1>1, Zenon DEF NoState, NoHandle, NoRequest, Conns, Handles, Requests, Results
<1>3. Types
  <2>1. 0 \in 0 .. Len(Stream)
    BY StreamAssumption
  <2>2. call \in [Calls -> Outcomes]
    BY <1>1, Zenon DEF Outcomes
  <2> QED BY <1>1, <1>2, <2>1, <2>2, Zenon DEF Types
<1>4. PendingWaits /\ ReadingForOne /\ GivenOnce /\ EofIsLast
  BY <1>1, CallsAssumption, Zenon DEF PendingWaits, ReadingForOne, GivenOnce, EofIsLast, NoState, NoHandle,
                               NoRequest, Calls
<1>5. Box!Init
  <2>1. [c \in Reads |-> call[c]] = [c \in Reads |-> "new"]
    BY <1>1, Zenon DEF Calls
  <2>2. arrived - Len(conn.buffered) = 0
    BY <1>1, <1>2 DEF Conns
  <2> QED BY <2>1, <2>2, Zenon DEF Box!Init
<1> QED BY <1>3, <1>4, <1>5, Zenon DEF Inv

\* The reads of a TcpConnection, however read(), read_for(), close(), the callbacks
\* of libuv and ~EventLoop interleave, implement Mailbox: each chunk goes to one
\* read, in order, a timeout consumes nothing, and the end of the stream is last.
THEOREM ReadsImplementMailbox == Spec => ReadsAreMailbox
<1>1. Init => Inv /\ Box!Init
  BY InitInv, Zenon
<1>2. Inv /\ [Next]_vars => Inv' /\ [Box!Next]_(Box!vars)
  BY NextGood, Zenon DEF Good
<1> QED BY <1>1, <1>2, PTL DEF Spec, ReadsAreMailbox, Box!Spec

-----------------------------------------------------------------------------
(* The life of what libuv calls back into *)

\* The state of a connection that has not been closed keeps itself alive.
Kept ==
    /\ uv.state # "gone" /\ is_loop_alive => conn.keepalive
    /\ is_loop_alive /\ conn.initialized /\ ~conn.closed => conn.keepalive

\* Deleted exactly when the last request has called back and the caller has its answer.
RequestKept == req.stage # "none" \/ client.result = "waiting" => req.exists

\* start_close keeps the state until the close callback.
LEMMA StartCloseKeeps ==
    ASSUME Types, Kept, NEW W \in SUBSET Closes, StartClose(W), UNCHANGED loop
    PROVE  Kept'
<1>1. CASE ~conn.initialized \/ conn.closed
  BY <1>1, Zenon DEF StartClose, Kept, is_loop_alive
<1>2. CASE conn.initialized /\ ~conn.closed /\ is_loop_alive
  <2>1. PICK s : s = [conn EXCEPT !.waiters = @ \cup W]
    BY Zenon
  <2>2. conn' = ClosingState(s)
    BY <1>2, <2>1, Zenon DEF StartClose
  <2>3. conn'.keepalive = conn.keepalive
    BY <2>1, <2>2, Zenon DEF ClosingState, Types, Conns
  <2> QED BY <1>2, <2>3, Zenon DEF Kept
<1>3. CASE conn.initialized /\ ~conn.closed /\ ~is_loop_alive
  BY <1>3, Zenon DEF Kept, is_loop_alive
<1> QED BY <1>1, <1>2, <1>3, Zenon

\* A step of the connection itself keeps what libuv may still use.
LEMMA ConnKeeps ==
    ASSUME Types, Kept,
           \/ ConnFiber \/ OnClosed \/ OnData \/ OnEof \/ OnReadError
           \/ \E c \in Writes, o \in {"ok", "error"} : OnWriteDone(c, o)
    PROVE  Kept'
<1>1. UNCHANGED loop
  BY Zenon DEF ConnFiber, OnClosed, OnConnectionClosed, OnData, OnEof, OnReadError, OnWriteDone, Close,
         Read, ReadTimeout, Write
<1>2. CASE \E c \in Calls : Close(c)
  BY <1>1, <1>2, StartCloseKeeps, Zenon DEF Close
<1>3. CASE OnClosed
  <2>1. uv' = NoHandle /\ (conn' = conn \/ conn' = Closed(conn))
    BY <1>3, Zenon DEF OnClosed, OnConnectionClosed
  <2>2. uv'.state = "gone"
    BY <2>1, Zenon DEF NoHandle
  <2>3. conn' = conn \/ conn'.closed
    BY <2>1, Zenon DEF Closed, Types, Conns
  <2> QED BY <1>1, <2>2, <2>3, Zenon DEF Kept, is_loop_alive
<1>4. CASE \/ OnData \/ OnEof \/ OnReadError
           \/ \E c \in Writes, o \in {"ok", "error"} : OnWriteDone(c, o)
           \/ \E c \in Calls, empty, started \in BOOLEAN :
                 Read(c, started) \/ ReadTimeout(c) \/ Write(c, empty, started)
  <2> DEFINE SameLife == /\ conn'.keepalive = conn.keepalive
                         /\ conn'.initialized = conn.initialized /\ conn'.closed = conn.closed
  <2>1. SameLife
    <3>1. CASE OnData
      BY <3>1, Zenon DEF OnData, Types, Conns
    <3>2. CASE OnEof \/ OnReadError
      BY <3>2, Zenon DEF OnEof, OnReadError, Types, Conns
    <3>3. CASE \E c \in Writes, o \in {"ok", "error"} : OnWriteDone(c, o)
      BY <3>3, Zenon DEF OnWriteDone
    <3>4. ASSUME NEW c \in Calls, NEW started \in BOOLEAN, Read(c, started) PROVE SameLife
      BY <3>4, Zenon DEF Read, Types, Conns
    <3>5. ASSUME NEW c \in Calls, ReadTimeout(c) PROVE SameLife
      BY <3>5, Zenon DEF ReadTimeout, Types, Conns
    <3>6. ASSUME NEW c \in Calls, NEW empty \in BOOLEAN, NEW started \in BOOLEAN, Write(c, empty, started)
          PROVE  SameLife
      BY <3>6, Zenon DEF Write
    <3> QED BY <1>4, <3>1, <3>2, <3>3, <3>4, <3>5, <3>6, Zenon
  <2>2. uv'.state = uv.state
    <3>1. CASE OnData \/ OnEof \/ OnReadError
      BY <3>1, Zenon DEF OnData, OnEof, OnReadError, FinishRead, Types, Handles
    <3>2. CASE \E c \in Writes, o \in {"ok", "error"} : OnWriteDone(c, o)
      BY <3>2, Zenon DEF OnWriteDone, Types, Handles
    <3>3. ASSUME NEW c \in Calls, NEW started \in BOOLEAN, Read(c, started)
          PROVE  uv'.state = uv.state
      BY <3>3, Zenon DEF Read, Types, Handles
    <3>4. ASSUME NEW c \in Calls, ReadTimeout(c) PROVE uv'.state = uv.state
      BY <3>4, Zenon DEF ReadTimeout, Types, Handles
    <3>5. ASSUME NEW c \in Calls, NEW empty \in BOOLEAN, NEW started \in BOOLEAN, Write(c, empty, started)
          PROVE  uv'.state = uv.state
      BY <3>5, Zenon DEF Write, Answer, Types, Handles
    <3> QED BY <1>4, <3>1, <3>2, <3>3, <3>4, <3>5, Zenon
  <2> QED BY <1>1, <2>1, <2>2, Zenon DEF Kept, is_loop_alive
<1> QED BY <1>2, <1>3, <1>4, Zenon DEF ConnFiber

\* connect() and its callbacks, and ~EventLoop, keep the state of the connection.
LEMMA RequestKeeps ==
    ASSUME Types, Kept,
           \/ OnResolvedError \/ OnResolvedRefused \/ OnResolved \/ OnConnected \/ OnConnectError
           \/ ConnectTimeout \/ \E timed, started \in BOOLEAN : Connect(timed, started)
           \/ LoopDies \/ LoopDead
    PROVE  Kept'
<1>1. CASE LoopDies \/ LoopDead
  BY <1>1, Zenon DEF LoopDies, LoopDead, Kept, is_loop_alive
<1>2. CASE OnResolvedError \/ OnConnectError \/ ConnectTimeout
  <2>1. UNCHANGED loop /\ (StartClose({}) \/ UNCHANGED <<conn, uv>>)
    BY <1>2, Zenon DEF OnResolvedError, OnConnectError, ConnectTimeout, FinishError
  <2>2. CASE StartClose({})
    <3>1. {} \in SUBSET Closes
      BY Zenon
    <3> QED BY <2>1, <2>2, <3>1, StartCloseKeeps, Zenon
  <2>3. CASE UNCHANGED <<conn, uv>>
    BY <2>1, <2>3, Zenon DEF Kept, is_loop_alive
  <2> QED BY <2>1, <2>2, <2>3, Zenon
<1>3. CASE OnResolvedRefused
  <2>1. conn'.keepalive = is_loop_alive /\ UNCHANGED loop
    BY <1>3, Zenon DEF OnResolvedRefused, NoState
  <2> QED BY <2>1, Zenon DEF Kept, is_loop_alive
<1>4. CASE OnResolved
  <2>1. conn'.keepalive = TRUE
    BY <1>4, Zenon DEF OnResolved, Create, NoState
  <2> QED BY <2>1, Zenon DEF Kept
<1>5. CASE OnConnected \/ \E timed, started \in BOOLEAN : Connect(timed, started)
  BY <1>5, Zenon DEF OnConnected, Connect, connVars, Kept, is_loop_alive
<1> QED BY <1>1, <1>2, <1>3, <1>4, <1>5, Zenon

\* A ConnectRequestState is deleted only by the callback that answers its caller.
LEMMA RequestKeptNext ==
    ASSUME Types, RequestKept, [Next]_vars
    PROVE  RequestKept'
<1>1. CASE OnResolvedError \/ OnResolvedRefused \/ OnConnected \/ OnConnectError
  <2>1. req' = Deleted /\ \E o \in {"error", "connected"} : Returns(o)
    BY <1>1, Zenon DEF OnResolvedError, OnResolvedRefused, OnConnected, OnConnectError, FinishError
  <2>2. req'.stage = "none"
    BY <2>1, Zenon DEF Deleted, Types, Requests
  <2>3. client'.result # "waiting"
    BY <2>1, Zenon DEF Returns, Types, Results
  <2> QED BY <2>2, <2>3, Zenon DEF RequestKept
<1>2. CASE OnResolved
  <2>1. req.exists
    BY <1>2, Zenon DEF OnResolved, RequestKept
  <2>2. req'.exists = req.exists
    BY <1>2, Zenon DEF OnResolved, Types, Requests
  <2> QED BY <2>1, <2>2, Zenon DEF RequestKept
<1>3. CASE ConnectTimeout
  <2>1. req.exists
    BY <1>3, Zenon DEF ConnectTimeout, RequestKept
  <2>2. req'.exists = req.exists
    BY <1>3, Zenon DEF ConnectTimeout, Types, Requests
  <2> QED BY <2>1, <2>2, Zenon DEF RequestKept
<1>4. ASSUME NEW timed \in BOOLEAN, NEW started \in BOOLEAN, Connect(timed, started)
      PROVE  RequestKept'
  <2>1. CASE is_loop_alive /\ started
    <3>1. req'.exists
      BY <1>4, <2>1, Zenon DEF Connect, NoRequest
    <3> QED BY <3>1, Zenon DEF RequestKept
  <2>2. CASE ~(is_loop_alive /\ started)
    <3>1. req' = req /\ client'.result = "error"
      BY <1>4, <2>2 DEF Connect
    <3> QED BY <3>1, Zenon DEF RequestKept
  <2> QED BY <2>1, <2>2, Zenon
<1>5. CASE UNCHANGED <<req, client>>
  BY <1>5, Zenon DEF RequestKept
<1>6. UNCHANGED vars => UNCHANGED <<req, client>>
  BY Zenon DEF vars
<1>7. LoopDies \/ LoopDead => UNCHANGED <<req, client>>
  BY Zenon DEF LoopDies, LoopDead
<1> QED BY <1>1, <1>2, <1>3, <1>4, <1>5, <1>6, <1>7, Zenon DEF Next, Callback

\* Whatever the order of timeouts, closes, callbacks and ~EventLoop, libuv never
\* calls back into a ConnectionState or ConnectRequestState that has been freed,
\* as long as the loop is alive.
THEOREM CallbacksAreSafe == Spec => []CallbacksSafe
<1>1. Init => Inv /\ Kept /\ RequestKept
  <2>1. Init => Kept /\ RequestKept
    BY DEF Init, ConnInit, NoState, NoHandle, NoRequest, Kept, RequestKept
  <2> QED BY <2>1, InitInv, Zenon
<1>2. Inv /\ Kept /\ RequestKept /\ [Next]_vars => Inv' /\ Kept' /\ RequestKept'
  <2> SUFFICES ASSUME Inv, Kept, RequestKept, [Next]_vars
               PROVE  Inv' /\ Kept' /\ RequestKept'
    BY Zenon
  <2>1. Inv'
    BY NextGood, Zenon DEF Good
  <2>2. Kept'
    <3>1. CASE UNCHANGED vars
      BY <3>1, Zenon DEF vars, connVars, Kept, is_loop_alive
    <3> QED BY <3>1, ConnKeeps, RequestKeeps, Zenon DEF Next, Callback, Inv
  <2>3. RequestKept'
    BY RequestKeptNext, Zenon DEF Inv
  <2> QED BY <2>1, <2>2, <2>3, Zenon
<1>3. Kept /\ RequestKept => CallbacksSafe
  BY Zenon DEF Kept, RequestKept, CallbacksSafe
<1> QED BY <1>1, <1>2, <1>3, PTL DEF Spec

-----------------------------------------------------------------------------
(* Who closes the handle of a connection *)

\* While a request is in flight its caller waits, or has timed out and said so.
StageInv ==
    req.stage # "none" =>
        /\ client.result \in {"waiting", "timeout"}
        /\ req.timed_out <=> client.result = "timeout"

\* An open handle belongs to the caller, or to a connect request that would close it.
HandleInv ==
    uv.state = "open" /\ is_loop_alive =>
        \/ client.result = "connected"
        \/ /\ client.result = "waiting" /\ req.stage = "connecting" /\ req.connection
           /\ req.exists /\ conn.initialized /\ ~conn.closed

\* connect(), its callbacks and its timeout keep StageInv.
LEMMA StageStep ==
    ASSUME Types, StageInv, [Next]_vars
    PROVE  StageInv'
<1>1. CASE OnResolvedError \/ OnResolvedRefused \/ OnConnected \/ OnConnectError
  <2>1. req' = Deleted
    BY <1>1, Zenon DEF OnResolvedError, OnResolvedRefused, OnConnected, OnConnectError, FinishError
  <2>2. req'.stage = "none"
    BY <2>1, Zenon DEF Deleted, Types, Requests
  <2> QED BY <2>2, Zenon DEF StageInv
<1>2. CASE OnResolved
  <2>1. req.stage # "none" /\ client' = client /\ req'.timed_out = req.timed_out
    BY <1>2, Zenon DEF OnResolved, Types, Requests
  <2> QED BY <2>1, Zenon DEF StageInv
<1>3. CASE ConnectTimeout
  <2>1. client'.result = "timeout" /\ req'.timed_out = TRUE
    BY <1>3, Zenon DEF ConnectTimeout, Returns, Types, Requests, Results
  <2> QED BY <2>1, Zenon DEF StageInv
<1>4. ASSUME NEW timed \in BOOLEAN, NEW started \in BOOLEAN, Connect(timed, started)
      PROVE  StageInv'
  <2>1. CASE is_loop_alive /\ started
    <3>1. /\ client' = [timed |-> timed, result |-> "waiting"]
          /\ req' = [NoRequest EXCEPT !.exists = TRUE, !.stage = "resolving"]
      BY <1>4, <2>1, Zenon DEF Connect
    <3>2. client'.result = "waiting" /\ ~req'.timed_out
      BY <3>1, Zenon DEF NoRequest
    <3> QED BY <3>2, Zenon DEF StageInv
  <2>2. CASE ~(is_loop_alive /\ started)
    <3>1. req' = req /\ client.result = "new"
      BY <1>4, <2>2, Zenon DEF Connect
    <3> QED BY <3>1, Zenon DEF StageInv
  <2> QED BY <2>1, <2>2, Zenon
<1>5. CASE UNCHANGED <<req, client>>
  BY <1>5, Zenon DEF StageInv
<1>6. UNCHANGED vars => UNCHANGED <<req, client>>
  BY Zenon DEF vars
<1>7. LoopDies \/ LoopDead => UNCHANGED <<req, client>>
  BY Zenon DEF LoopDies, LoopDead
<1> QED BY <1>1, <1>2, <1>3, <1>4, <1>5, <1>6, <1>7, Zenon DEF Next, Callback

\* On a loop that is alive a close that is started leaves no handle open.
LEMMA StartCloseCloses ==
    ASSUME Types, is_loop_alive, StartClose({})
    PROVE  \/ uv'.state = "closing"
           \/ (~conn.initialized \/ conn.closed) /\ UNCHANGED <<conn, uv>>
BY Zenon DEF StartClose, Types, Handles

\* The calls and callbacks of the connection close its handle or leave it alone.
LEMMA ConnHandle ==
    ASSUME Inv, HandleInv, UNCHANGED <<req, client>>,
           \/ OnClosed \/ OnData \/ OnEof \/ OnReadError
           \/ \E c \in Writes, o \in {"ok", "error"} : OnWriteDone(c, o)
           \/ ConnFiber
    PROVE  HandleInv'
<1> DEFINE Same == /\ loop' = loop /\ uv'.state = uv.state
                   /\ conn'.initialized = conn.initialized /\ conn'.closed = conn.closed
<1>1. Same => HandleInv'
  BY Zenon DEF HandleInv, is_loop_alive
<1>2. CASE OnClosed
  <2>1. uv'.state = "gone"
    BY <1>2, Zenon DEF OnClosed, OnConnectionClosed, NoHandle
  <2> QED BY <2>1, Zenon DEF HandleInv
<1>3. CASE OnData \/ OnEof \/ OnReadError
  <2>1. Same
    BY <1>3, Zenon DEF OnData, OnEof, OnReadError, FinishRead, Inv, Types, Handles, Conns
  <2> QED BY <1>1, <2>1, Zenon
<1>4. ASSUME NEW c \in Writes, NEW o \in {"ok", "error"}, OnWriteDone(c, o) PROVE HandleInv'
  <2>1. Same
    BY <1>4, Zenon DEF OnWriteDone, Inv, Types, Handles
  <2> QED BY <1>1, <2>1, Zenon
<1>5. ASSUME NEW c \in Calls, Close(c) PROVE HandleInv'
  <2>1. UNCHANGED loop /\ StartClose({c})
    BY <1>5, Zenon DEF Close
  <2>2. CASE UNCHANGED <<conn, uv>>
    BY <1>1, <2>1, <2>2, Zenon
  <2>3. CASE ~UNCHANGED <<conn, uv>>
    <3>1. uv'.state = "closing" \/ ~is_loop_alive
      BY <2>1, <2>3, Zenon DEF StartClose, Inv, Types, Handles
    <3> QED BY <2>1, <3>1, Zenon DEF HandleInv, is_loop_alive
  <2> QED BY <2>2, <2>3, Zenon
<1>6. ASSUME NEW c \in Calls, NEW started \in BOOLEAN, Read(c, started) PROVE HandleInv'
  <2>1. Same
    BY <1>6, Zenon DEF Read, Inv, Types, Handles, Conns
  <2> QED BY <1>1, <2>1, Zenon
<1>7. ASSUME NEW c \in Calls, ReadTimeout(c) PROVE HandleInv'
  <2>1. Same
    BY <1>7, Zenon DEF ReadTimeout, Inv, Types, Handles, Conns
  <2> QED BY <1>1, <2>1, Zenon
<1>8. ASSUME NEW c \in Calls, NEW empty \in BOOLEAN, NEW started \in BOOLEAN, Write(c, empty, started)
      PROVE  HandleInv'
  <2>1. Same
    BY <1>8, Zenon DEF Write, Answer, Inv, Types, Handles
  <2> QED BY <1>1, <2>1, Zenon
<1> QED BY <1>2, <1>3, <1>4, <1>5, <1>6, <1>7, <1>8, Zenon DEF ConnFiber

\* connect(), its callbacks and its timeout never leave a handle behind.
LEMMA RequestHandle ==
    ASSUME Inv, RequestKept, StageInv, HandleInv,
           \/ OnResolvedError \/ OnResolvedRefused \/ OnResolved \/ OnConnected \/ OnConnectError
           \/ ConnectTimeout \/ \E timed, started \in BOOLEAN : Connect(timed, started)
           \/ LoopDies \/ LoopDead
    PROVE  HandleInv'
<1>1. CASE LoopDies \/ LoopDead
  BY <1>1, Zenon DEF LoopDies, LoopDead, HandleInv, is_loop_alive
<1>2. CASE OnResolvedError \/ OnConnectError \/ ConnectTimeout
  <2>0. SUFFICES ASSUME is_loop_alive, uv'.state = "open" PROVE FALSE
    BY <1>2, Zenon DEF OnResolvedError, OnConnectError, ConnectTimeout, FinishError, HandleInv, is_loop_alive
  <2>1. IF req.connection THEN StartClose({}) ELSE UNCHANGED <<conn, uv>>
    BY <1>2, Zenon DEF OnResolvedError, OnConnectError, ConnectTimeout, FinishError
  <2>2. client.result # "connected"
    BY <1>2, Zenon DEF OnResolvedError, OnConnectError, ConnectTimeout, StageInv
  <2>3. uv.state = "open"
    BY <2>0, <2>1, StartCloseCloses, Zenon DEF Inv
  <2>4. req.connection /\ conn.initialized /\ ~conn.closed
    BY <2>0, <2>2, <2>3, Zenon DEF HandleInv
  <2> QED BY <2>0, <2>1, <2>4, StartCloseCloses, Zenon DEF Inv
<1>3. CASE OnResolvedRefused
  <2>1. is_loop_alive => uv'.state = "closing"
    BY <1>3, Zenon DEF OnResolvedRefused, NoHandle
  <2> QED BY <1>3, <2>1, Zenon DEF HandleInv, OnResolvedRefused, is_loop_alive
<1>4. CASE OnResolved
  <2>1. req.stage = "resolving" /\ ~req.timed_out /\ client' = client
    BY <1>4, Zenon DEF OnResolved
  <2>2. client'.result = "waiting" /\ req.exists
    BY <2>1, Zenon DEF StageInv, RequestKept
  <2>3. req'.stage = "connecting" /\ req'.connection = TRUE /\ req'.exists
    BY <1>4, <2>2, Zenon DEF OnResolved, Inv, Types, Requests
  <2>4. conn'.initialized = TRUE /\ conn'.closed = FALSE
    BY <1>4, Zenon DEF OnResolved, Create, NoState
  <2> QED BY <2>2, <2>3, <2>4, Zenon DEF HandleInv
<1>5. CASE OnConnected
  <2>1. client.result = "waiting"
    BY <1>5, Zenon DEF OnConnected, StageInv
  <2>2. client'.result = "connected"
    BY <1>5, <2>1, Zenon DEF OnConnected, Returns, Inv, Types, Results
  <2> QED BY <2>2, Zenon DEF HandleInv
<1>6. ASSUME NEW timed \in BOOLEAN, NEW started \in BOOLEAN, Connect(timed, started)
      PROVE  HandleInv'
  <2>1. client.result = "new" /\ UNCHANGED <<loop, uv>>
    BY <1>6, Zenon DEF Connect, connVars
  <2> QED BY <2>1, Zenon DEF HandleInv, is_loop_alive
<1> QED BY <1>1, <1>2, <1>3, <1>4, <1>5, <1>6, Zenon

\* A connection its caller never got does not stay open: after a timeout or an
\* error of connect() somebody has closed its handle once the request is gone.
THEOREM AbandonedAreClosed == Spec => []AbandonedIsClosed
<1> DEFINE I == Inv /\ RequestKept /\ StageInv /\ HandleInv
<1>1. Init => I
  <2>1. Init => RequestKept /\ StageInv /\ HandleInv
    BY DEF Init, ConnInit, NoState, NoHandle, NoRequest, RequestKept, StageInv, HandleInv
  <2> QED BY <2>1, InitInv, Zenon
<1>2. I /\ [Next]_vars => I'
  <2> SUFFICES ASSUME I, [Next]_vars PROVE I'
    BY Zenon
  <2>1. Inv' /\ RequestKept' /\ StageInv'
    BY NextGood, RequestKeptNext, StageStep, Zenon DEF Good, Inv
  <2>2. HandleInv'
    <3>1. CASE UNCHANGED vars
      BY <3>1, Zenon DEF vars, connVars, HandleInv, is_loop_alive
    <3> QED BY <3>1, ConnHandle, RequestHandle, Zenon DEF Next, Callback
  <2> QED BY <2>1, <2>2, Zenon
<1>3. I => AbandonedIsClosed
  BY Zenon DEF HandleInv, AbandonedIsClosed
<1> QED BY <1>1, <1>2, <1>3, PTL DEF Spec
=============================================================================
