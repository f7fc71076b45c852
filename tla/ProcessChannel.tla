---------------------------- MODULE ProcessChannel ----------------------------
(***************************************************************************)
(* fiberuv::ipc::ProcessChannel (src/ipc.cpp): the stream from endpoint A  *)
(* to endpoint B of a pair() on one loop.  A frame is a header, that holds *)
(* the size, and a payload, written and read by separate requests with     *)
(* short results.  The pipes block, so a request that waits for data or    *)
(* for room holds one of the threads of libuv's pool.                      *)
(*                                                                         *)
(* The stream from B to A is the same; here it only has descriptors that   *)
(* close() closes too.                                                     *)
(***************************************************************************)
EXTENDS UvLoop, Integers, FiniteSets, SequencesExt

CONSTANTS
    Sends, Recvs, CloseA, CloseB,   \* the calls: send_blob, recv_blob, and a close() each
    Size,           \* the size of the blob of each send
    HeaderLen,      \* bytes of a header
    Capacity,       \* bytes that fit in the pipe
    PoolSize,       \* threads of libuv's pool
    Workloads       \* sets of calls that are made: a bound

VARIABLES
    call,       \* per call: where it is, its request and the bytes it holds
    queue,      \* requests that wait for a thread of the pool
    pipe,       \* bytes in the pipe
    fds,        \* open ends of the pipe, "read" and "write"
    valid,      \* endpoints whose loop_ and descriptors are set
    sent,       \* the sends in the order they began
    got,        \* the blobs that were received
    overlapped  \* two sends, or two receives, were under way at once

vars == <<loop, call, queue, pipe, fds, valid, sent, got, overlapped>>

Calls == Sends \cup Recvs \cup {CloseA, CloseB}

Init ==
    /\ loop = "running"
    /\ \E W \in Workloads : call = [c \in Calls |->
         [pc |-> IF c \in W THEN "new" ELSE "unused", req |-> "none", res |-> 0, buf |-> <<>>, left |-> 0]]
    /\ queue = <<>> /\ pipe = <<>> /\ fds = {"read", "write"} /\ valid = {"A", "B"}
    /\ sent = <<>> /\ got = <<>> /\ overlapped = FALSE

Header(c) == [i \in 1 .. HeaderLen |-> <<c, "header", i>>]
Payload(c) == [i \in 1 .. Size[c] |-> <<c, "payload", i>>]

\* the size a header says: any when its bytes are not those of one header
Decoded(h) ==
    IF \E c \in Sends : h = Header(c) THEN {Size[c] : c \in {d \in Sends : h = Header(d)}}
    ELSE {Size[c] : c \in Sends}

Ongoing(S) == {c \in S : call[c].pc \in {"header", "payload"}}

\* the call submits a request and waits at pc: buf is to be written, or was read
Submit(c, pc, buf, left) ==
    /\ call' = [call EXCEPT ![c] = [pc |-> pc, req |-> "queued", res |-> 0, buf |-> buf, left |-> left]]
    /\ queue' = Append(queue, c)

Return(c, o) ==
    /\ call' = [call EXCEPT ![c].pc = o, ![c].req = "none"]
    /\ UNCHANGED queue

\* the fiber goes on with the result; what needs the loop is undefined without it
Resumed(c, pcs) == FibersRun /\ call[c].pc \in pcs /\ call[c].req = "done"

-----------------------------------------------------------------------------
(* The pool and the pipe (external) *)

\* results other than a count of bytes, and the end of the stream, 0
EPIPE == -1
ERROR == -2

Running == {c \in Calls : call[c].req = "running"}

Answered(c, res) == call' = [call EXCEPT ![c].req = "done", ![c].res = res]

End(c) == IF c \in Sends \cup {CloseA} THEN "write" ELSE "read"

\* a thread takes the next request, which fails when the descriptor is closed
Start ==
    /\ queue # <<>> /\ Cardinality(Running) < PoolSize
    /\ LET c == Head(queue)
       IN  IF c \in Sends \cup Recvs /\ End(c) \notin fds THEN Answered(c, ERROR)
           ELSE call' = [call EXCEPT ![c].req = "running"]
    /\ queue' = Tail(queue)
    /\ UNCHANGED <<loop, pipe, fds, valid, sent, got, overlapped>>

\* an end of the pipe is there while its descriptor is open or a request uses it
Held(end, S) == end \in fds \/ Running \cap S # {}

ExecWrite(c) ==
    /\ c \in Running \cap Sends
    /\ IF ~Held("read", Recvs) THEN Answered(c, EPIPE) /\ UNCHANGED pipe
       ELSE \E k \in 1 .. Len(call[c].buf) :
              /\ Len(pipe) + k <= Capacity
              /\ Answered(c, k)
              /\ pipe' = pipe \o SubSeq(call[c].buf, 1, k)
    /\ UNCHANGED <<loop, queue, fds, valid, sent, got, overlapped>>

ExecRead(c) ==
    /\ c \in Running \cap Recvs
    /\ IF pipe = <<>> THEN ~Held("write", Sends) /\ Answered(c, 0) /\ UNCHANGED pipe
       ELSE \E k \in 1 .. call[c].left :
              /\ k <= Len(pipe)
              /\ call' = [call EXCEPT ![c].req = "done", ![c].res = k, ![c].buf = @ \o SubSeq(pipe, 1, k)]
              /\ pipe' = SubSeq(pipe, k + 1, Len(pipe))
    /\ UNCHANGED <<loop, queue, fds, valid, sent, got, overlapped>>

\* of the two descriptors of an endpoint one is of this stream
ExecClose(c) ==
    /\ c \in Running \cap {CloseA, CloseB}
    /\ Answered(c, 0)
    /\ fds' = IF call[c].pc = End(c) THEN fds \ {End(c)} ELSE fds
    /\ UNCHANGED <<loop, queue, pipe, valid, sent, got, overlapped>>

Exec(c) == ExecWrite(c) \/ ExecRead(c) \/ ExecClose(c)

-----------------------------------------------------------------------------
(* send_blob *)

Usable(endpoint) == is_loop_alive /\ endpoint \in valid

Send(c) ==
    /\ FibersRun /\ call[c].pc = "new"
    /\ IF ~Usable("A") THEN Return(c, "error") /\ UNCHANGED <<sent, overlapped>>
       ELSE /\ Submit(c, "header", Header(c), 0)
            /\ sent' = Append(sent, c)
            /\ overlapped' = (overlapped \/ Ongoing(Sends) # {})
    /\ UNCHANGED <<loop, pipe, fds, valid, got>>

\* write_exact after one request, and send_blob after write_exact
Wrote(c) ==
    /\ c \in Sends /\ Resumed(c, {"header", "payload"})
    /\ LET k == call[c].res
           rest == SubSeq(call[c].buf, k + 1, Len(call[c].buf))
       IN  IF k = EPIPE THEN Return(c, "false")
           ELSE IF k = ERROR THEN Return(c, "error")
           ELSE IF rest # <<>>
           THEN IF is_loop_alive THEN Submit(c, call[c].pc, rest, 0) ELSE Return(c, "undefined")
           ELSE IF call[c].pc = "payload" \/ Size[c] = 0 THEN Return(c, "sent")
           ELSE IF Usable("A") THEN Submit(c, "payload", Payload(c), 0) ELSE Return(c, "undefined")
    /\ UNCHANGED <<loop, pipe, fds, valid, sent, got, overlapped>>

-----------------------------------------------------------------------------
(* recv_blob *)

Recv(c) ==
    /\ FibersRun /\ call[c].pc = "new"
    /\ IF ~Usable("B") THEN Return(c, "error") /\ UNCHANGED overlapped
       ELSE /\ Submit(c, "header", <<>>, HeaderLen)
            /\ overlapped' = (overlapped \/ Ongoing(Recvs) # {})
    /\ UNCHANGED <<loop, pipe, fds, valid, sent, got>>

\* Faulty: read_exact is content with one read.
MissingNothing(c) == 0

\* what read_exact still has to read
Missing(c) == call[c].left - call[c].res

\* recv_blob after read_exact: the header, or the payload
Complete(c) ==
    \/ /\ call[c].pc = "header"
       /\ \E n \in Decoded(call[c].buf) :
            IF n = 0 THEN Return(c, "received") /\ got' = Append(got, <<>>)
            ELSE /\ IF Usable("B") THEN Submit(c, "payload", <<>>, n) ELSE Return(c, "undefined")
                 /\ UNCHANGED got
    \/ /\ call[c].pc = "payload"
       /\ Return(c, "received") /\ got' = Append(got, call[c].buf)

\* read_exact after one request, and recv_blob after read_exact
Read(c) ==
    /\ c \in Recvs /\ Resumed(c, {"header", "payload"})
    /\ IF call[c].res = 0
       THEN /\ Return(c, IF call[c].pc = "header" /\ call[c].buf = <<>> THEN "nullopt" ELSE "truncated")
            /\ UNCHANGED got
       ELSE IF call[c].res = ERROR THEN Return(c, "error") /\ UNCHANGED got
       ELSE IF Missing(c) = 0 THEN Complete(c)
       ELSE /\ IF is_loop_alive THEN Submit(c, call[c].pc, call[c].buf, Missing(c))
               ELSE Return(c, "undefined")
            /\ UNCHANGED got
    /\ UNCHANGED <<loop, pipe, fds, valid, sent, overlapped>>

-----------------------------------------------------------------------------
(* close, and the end of the loop *)

\* without the loop both descriptors are closed by a loop of their own
Close(c) ==
    /\ FibersRun /\ c \in {CloseA, CloseB} /\ call[c].pc = "new"
    /\ valid' = valid \ {IF c = CloseA THEN "A" ELSE "B"}
    /\ IF is_loop_alive THEN Submit(c, "read", <<>>, 0) /\ UNCHANGED fds
       ELSE Return(c, "closed") /\ fds' = fds \ {End(c)}
    /\ UNCHANGED <<loop, pipe, sent, got, overlapped>>

\* Faulty: the endpoint is closed once its first descriptor is.
CloseNextNever(c) ==
    /\ Resumed(c, {"read", "write"}) /\ Return(c, "closed")
    /\ UNCHANGED <<loop, pipe, fds, valid, sent, got, overlapped>>

\* close_fd_best_effort of read_fd, then of write_fd
CloseNext(c) ==
    /\ Resumed(c, {"read", "write"})
    /\ IF call[c].pc = "write" THEN Return(c, "closed")
       ELSE IF is_loop_alive THEN Submit(c, "write", <<>>, 0) ELSE Return(c, "undefined")
    /\ UNCHANGED <<loop, pipe, fds, valid, sent, got, overlapped>>

LoopDies ==
    /\ loop = "running" /\ loop' = "dying"
    /\ UNCHANGED <<call, queue, pipe, fds, valid, sent, got, overlapped>>

\* uv_run in ~EventLoop returns when no request is left
LoopDead ==
    /\ loop = "dying" /\ loop' = "dead"
    /\ \A c \in Calls : call[c].req \in {"none", "done"}
    /\ UNCHANGED <<call, queue, pipe, fds, valid, sent, got, overlapped>>

Resume(c) == Wrote(c) \/ Read(c) \/ CloseNext(c)

Next ==
    \/ Start \/ LoopDies \/ LoopDead
    \/ \E c \in Calls : Exec(c) \/ Resume(c) \/ Close(c)
    \/ \E c \in Sends : Send(c)
    \/ \E c \in Recvs : Recv(c)

\* the pool works, and run() resumes fibers while the loop runs
Fairness == WF_vars(Start) /\ \A c \in Calls : WF_vars(Exec(c) \/ (is_loop_alive /\ Resume(c)))

Spec == Init /\ [][Next]_vars /\ Fairness

-----------------------------------------------------------------------------
(* Properties *)

\* As long as sends do not overlap each other, nor receives, recv_blob() returns
\* the blobs of send_blob() whole and in order, however the reads and writes are
\* cut; and it reports the end of the stream only when every send that returned
\* true was received.
FramesIntact ==
    ~overlapped =>
      /\ IsPrefix(got, [i \in 1 .. Len(sent) |-> Payload(sent[i])])
      /\ (\E c \in Recvs : call[c].pc = "nullopt") =>
           Len(got) >= Cardinality({c \in Sends : call[c].pc = "sent"})

\* When A is closed every receive of B ends, with a blob, the end of the stream or
\* an error, as long as the loop runs.  The calls that block are fewer than the
\* threads of the pool here; they would keep the close out otherwise.
StreamEnds ==
    \A c \in Recvs : call[CloseA].pc \notin {"new", "unused"} /\ c \in Ongoing(Recvs)
                        ~> c \notin Ongoing(Recvs) \/ ~is_loop_alive
=============================================================================
