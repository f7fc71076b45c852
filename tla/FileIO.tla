-------------------------------- MODULE FileIO --------------------------------
(***************************************************************************)
(* EventLoop::read_file and EventLoop::write_file (src/file_io.cpp):       *)
(* chains of requests, from the open to the close, in which each callback  *)
(* submits the next request, so that they go on inside ~EventLoop.         *)
(***************************************************************************)
EXTENDS FsPool

CONSTANTS
    Chunk,          \* bytes read at a time
    DataLen         \* bytes written by a call

ASSUME LengthsAssumption == Chunk \in Nat \ {0} /\ DataLen \in Nat \ {0}

VARIABLE io         \* per call: its result and the state structure

ReadFiles == Of({"read_file"})
WriteFiles == Of({"write_file"})
AppendFiles == Of({"append_file"})      \* write_file() with append

\* seen: the count of changes to the file when its descriptor was opened
NoIo == [result |-> "new", fd |-> -1, offset |-> 0, out |-> <<>>, error |-> FALSE, seen |-> 0]

ChainCalls == ReadFiles \cup WriteFiles \cup AppendFiles

\* the bytes that a call writes, all different
Byte(c, i) == <<c, i>>
Data(c) == [i \in 1 .. DataLen |-> Byte(c, i)]

\* one callback: the state s that it leaves, and the request r it submits
Continue(c, s, r) == io' = [io EXCEPT ![c] = s] /\ req' = [req EXCEPT ![c] = r]

\* the callback ends the call: finalize_read, finalize_write
Finalize(c, s) == Continue(c, [s EXCEPT !.result = IF s.error THEN "error" ELSE "ok"], NoReq)

Begin(c) ==
    /\ is_loop_alive /\ c \in ChainCalls /\ io[c].result = "new"
    /\ Continue(c, [io[c] EXCEPT !.result = "waiting"], OpenReq(c \in WriteFiles))
    /\ UNCHANGED <<loop, kind, owner, content, writes>>

Called(c, op) ==
    /\ CallbacksRun /\ c \in ChainCalls /\ req[c].op = op /\ req[c].done
    /\ UNCHANGED <<loop, kind, owner, content, writes>>

\* read_next_chunk
ReadNextChunk(s) == ReadReq(s.fd, s.offset, Chunk)

\* Faulty: what is left to write is taken from the start of the data.
WriteFirstChunk(c, s) ==
    IF s.offset >= DataLen THEN CloseReq(s.fd)
    ELSE WriteReq(s.fd, IF c \in AppendFiles THEN -1 ELSE s.offset,
                  SubSeq(Data(c), 1, DataLen - s.offset))

\* write_next_chunk, which closes the file when all is written
WriteNextChunk(c, s) ==
    IF s.offset >= DataLen THEN CloseReq(s.fd)
    ELSE WriteReq(s.fd, IF c \in AppendFiles THEN -1 ELSE s.offset,
                  SubSeq(Data(c), s.offset + 1, DataLen))

\* on_file_open_for_read, on_file_open_for_write
OnOpen(c) ==
    /\ Called(c, "open")
    /\ IF req[c].res < 0 THEN Finalize(c, [io[c] EXCEPT !.error = TRUE])
       ELSE LET s == [io[c] EXCEPT !.fd = req[c].res, !.seen = writes]
            IN  Continue(c, s, IF c \in ReadFiles THEN ReadNextChunk(s) ELSE WriteNextChunk(c, s))

\* Faulty: an error while reading ends the call and leaves the descriptor open.
OnReadLeaky(c) ==
    /\ Called(c, "read")
    /\ LET k == req[c].res
           s == [io[c] EXCEPT !.offset = @ + k, !.out = @ \o req[c].data]
       IN  IF k > 0 THEN Continue(c, s, ReadNextChunk(s))
           ELSE IF k < 0 THEN Finalize(c, [io[c] EXCEPT !.error = TRUE])
           ELSE Continue(c, io[c], CloseReq(io[c].fd))

\* on_file_read
OnRead(c) ==
    /\ Called(c, "read")
    /\ LET k == req[c].res
           s == [io[c] EXCEPT !.offset = @ + k, !.out = @ \o req[c].data]
       IN  IF k > 0 THEN Continue(c, s, ReadNextChunk(s))
           ELSE Continue(c, [io[c] EXCEPT !.error = k < 0], CloseReq(io[c].fd))

\* on_file_write
OnWrite(c) ==
    /\ Called(c, "write")
    /\ LET s == [io[c] EXCEPT !.offset = @ + req[c].res]
       IN  IF req[c].res > 0 THEN Continue(c, s, WriteNextChunk(c, s))
           ELSE Continue(c, [io[c] EXCEPT !.error = TRUE], CloseReq(io[c].fd))

\* Faulty: an error of the close is dropped, with the promise.
OnCloseSilent(c) ==
    /\ Called(c, "close")
    /\ IF req[c].res < 0 THEN Continue(c, io[c], NoReq) ELSE Finalize(c, io[c])

\* on_read_close, on_write_close
OnClose(c) ==
    /\ Called(c, "close")
    /\ Finalize(c, [io[c] EXCEPT !.error = @ \/ req[c].res < 0])

Chain(c) == OnOpen(c) \/ OnRead(c) \/ OnWrite(c) \/ OnClose(c)
=============================================================================
