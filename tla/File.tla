--------------------------------- MODULE File ---------------------------------
(***************************************************************************)
(* fiberuv::io::File (src/io_unified.cpp) beside the whole-file calls of   *)
(* FileIO: one File, its cursor, and the fibers that read, write, seek and *)
(* close it.  A call waits inside read_some(), write_some() and close(),   *)
(* and nothing keeps the others out meanwhile.                             *)
(***************************************************************************)
EXTENDS FileIO

CONSTANT Workloads  \* what the calls are, a set of functions: a bound

\* one File is modelled, so there is one open() at most
ASSUME WorkloadsAssumption ==
    \A w \in Workloads :
        /\ w \in [Calls -> {"none", "read_file", "write_file", "append_file", "open", "open_append",
                           "read_some", "read_at", "write_some", "write_at", "seek", "close",
                           "create_file"}]
        /\ \A c, e \in Calls :
             w[c] \in {"open", "open_append"} /\ w[e] \in {"open", "open_append"} => c = e

VARIABLES
    file,       \* the Impl
    track,      \* history: the cursor calls that returned since the last seek, how much
                \* each used and where in the file, and whether a cursor call or a
                \* seek began while another one waited
    stolen      \* some close() freed a descriptor that was not the File's

vars == <<loop, kind, fsVars, io, file, track, stolen>>

Openers == Of({"open", "open_append"})  \* File::open, at most one
Appending == Openers \cap Appenders # {}    \* with O_APPEND
Readers == Of({"read_some", "read_at"})
Writers == Of({"write_some", "write_at"})
Positional == Of({"read_at", "write_at"})   \* at offset 0
Seeks == Of({"seek"})                   \* to offset 1
Closers == Of({"close"})
Creates == Of({"create_file"})
FileCalls == Calls \ ChainCalls
Cursored == (Readers \cup Writers) \ Positional

Init ==
    /\ loop = "running" /\ FsInit
    /\ kind \in Workloads /\ io = [c \in Calls |-> NoIo]
    /\ file = [exists |-> FALSE, fd |-> -1, cursor |-> 0, closed |-> FALSE]
    /\ track = [base |-> 0, log |-> <<>>, overlapped |-> FALSE]
    /\ stolen = FALSE

Return(c, o) == Continue(c, [io[c] EXCEPT !.result = o], NoReq)
Wait(c, r) == Continue(c, [io[c] EXCEPT !.result = "waiting", !.offset = r.off], r)

\* a fiber makes the call on a File that exists
Calling(c, S) == FibersRun /\ c \in S /\ file.exists /\ io[c].result = "new"

\* the callback has set the promise and the fiber goes on; not inside ~EventLoop
Resumed(c, S, op) == FibersRun /\ c \in S /\ req[c].op = op /\ req[c].done

\* File::open and create_file up to the wait in fs_open
OpenFile(c) ==
    /\ is_loop_alive /\ c \in Creates \cup Openers /\ io[c].result = "new"
    /\ \E truncate \in BOOLEAN : Wait(c, OpenReq(truncate))
    /\ UNCHANGED <<loop, kind, owner, content, writes, file, track, stolen>>

\* File::open after fs_open: once the loop is gone its lifetime_token() is undefined
Opened(c) ==
    /\ Resumed(c, Openers, "open")
    /\ IF req[c].res < 0 THEN Return(c, "error") /\ UNCHANGED file
       ELSE IF is_loop_alive
       THEN Return(c, "ok") /\ file' = [file EXCEPT !.exists = TRUE, !.fd = req[c].res]
       ELSE Return(c, "undefined") /\ UNCHANGED file
    /\ UNCHANGED <<loop, kind, owner, content, writes, track, stolen>>

\* create_file after fs_open: once the loop is gone its fs_close is undefined
Created(c) ==
    /\ Resumed(c, Creates, "open")
    /\ IF req[c].res < 0 THEN Return(c, "error")
       ELSE IF is_loop_alive THEN Wait(c, CloseReq(req[c].res))
       ELSE Return(c, "undefined")
    /\ UNCHANGED <<loop, kind, owner, content, writes, file, track, stolen>>

CreatedClosed(c) ==
    /\ Resumed(c, Creates, "close")
    /\ Return(c, IF req[c].res < 0 THEN "error" ELSE "ok")
    /\ UNCHANGED <<loop, kind, owner, content, writes, file, track, stolen>>

\* some call is between its read of the cursor and its write
Overlaps == \E e \in Cursored : io[e].result = "waiting"

Offset(c) == IF c \in Positional THEN 0 ELSE file.cursor

\* the reads and writes up to the wait: the cursor is read before it
Use(c) ==
    /\ Calling(c, Readers \cup Writers)
    /\ IF file.closed \/ ~is_loop_alive THEN Return(c, "error")
       ELSE Wait(c, IF c \in Readers THEN ReadReq(file.fd, Offset(c), Chunk)
                    ELSE WriteReq(file.fd, Offset(c), Data(c)))
    /\ track' = [track EXCEPT !.overlapped = @ \/ (c \in Cursored /\ Overlaps)]
    /\ UNCHANGED <<loop, kind, owner, content, writes, file, stolen>>

\* where in the file the bytes of a call are: with O_APPEND a write ends with the file
Entry(c, k) ==
    [call |-> c, len |-> k,
     at |-> IF c \in Writers /\ Appending THEN Len(content) - k ELSE io[c].offset]

Logged(c, k) ==
    track' = IF c \in Cursored THEN [track EXCEPT !.log = Append(@, Entry(c, k))] ELSE track

\* Faulty: a write counts only what its last request wrote.
CountLast(c, k) ==
    /\ file' = IF c \in Cursored THEN [file EXCEPT !.cursor = @ + req[c].res] ELSE file
    /\ Logged(c, k)

\* the cursor is moved after the wait
Count(c, k) ==
    /\ file' = IF c \in Cursored THEN [file EXCEPT !.cursor = @ + k] ELSE file
    /\ Logged(c, k)

\* on_fs_read, and read_some() after it
UsedRead(c) ==
    /\ Resumed(c, Readers, "read")
    /\ IF req[c].res < 0 THEN Return(c, "error") /\ UNCHANGED <<file, track>>
       ELSE Return(c, "ok") /\ Count(c, req[c].res)
    /\ UNCHANGED <<loop, kind, owner, content, writes, stolen>>

\* FsWriteState::written, and whether more is to be written
Written(c) == req[c].off - io[c].offset + req[c].res
Short(c) == c \in Writers /\ req[c].done /\ req[c].res >= 0 /\ Written(c) < DataLen

\* on_fs_write goes on until everything is written
OnFsWrite(c) ==
    /\ CallbacksRun /\ Short(c)
    /\ Continue(c, io[c], WriteReq(req[c].fd, io[c].offset + Written(c),
                                   SubSeq(Data(c), Written(c) + 1, DataLen)))
    /\ UNCHANGED <<loop, kind, owner, content, writes, file, track, stolen>>

\* the last on_fs_write, and write_some() after it
UsedWrite(c) ==
    /\ Resumed(c, Writers, "write") /\ ~Short(c)
    /\ IF req[c].res < 0 THEN Return(c, "error") /\ UNCHANGED <<file, track>>
       ELSE Return(c, "ok") /\ Count(c, Written(c))
    /\ UNCHANGED <<loop, kind, owner, content, writes, stolen>>

Seek(c) ==
    /\ Calling(c, Seeks)
    /\ IF file.closed \/ ~is_loop_alive THEN Return(c, "error") /\ UNCHANGED <<file, track>>
       ELSE /\ Return(c, "ok") /\ file' = [file EXCEPT !.cursor = 1]
            /\ track' = [base |-> 1, log |-> <<>>, overlapped |-> track.overlapped \/ Overlaps]
    /\ UNCHANGED <<loop, kind, owner, content, writes, stolen>>

\* close() up to the wait; once the loop is gone the descriptor is dropped
CloseFile(c) ==
    /\ Calling(c, Closers)
    /\ IF file.closed THEN Return(c, "ok") /\ UNCHANGED file
       ELSE IF ~is_loop_alive
       THEN Return(c, "ok") /\ file' = [file EXCEPT !.fd = -1, !.closed = TRUE]
       ELSE Wait(c, CloseReq(file.fd)) /\ UNCHANGED file
    /\ UNCHANGED <<loop, kind, owner, content, writes, track, stolen>>

\* on_fs_close, and close() after it: an error leaves the File as it was
ClosedFile(c) ==
    /\ Resumed(c, Closers, "close")
    /\ IF req[c].res < 0 THEN Return(c, "error") /\ UNCHANGED file
       ELSE Return(c, "ok") /\ file' = [file EXCEPT !.fd = -1, !.closed = TRUE]
    /\ UNCHANGED <<loop, kind, owner, content, writes, track, stolen>>

Pool(c) ==
    /\ Exec(c)
    /\ stolen' = (stolen \/ (c \in Closers /\ ExecClose(c) /\ owner[req[c].fd] \notin Openers))
    /\ UNCHANGED <<loop, kind, io, file, track>>

LoopDies ==
    /\ loop = "running" /\ loop' = "dying"
    /\ UNCHANGED <<kind, fsVars, io, file, track, stolen>>

\* uv_run in ~EventLoop returns when no request is left; fibers may be left to resume
LoopDead ==
    /\ loop = "dying" /\ loop' = "dead"
    /\ \A c \in Calls : req[c].op = "none" \/ (c \in FileCalls /\ req[c].done /\ ~Short(c))
    /\ UNCHANGED <<kind, fsVars, io, file, track, stolen>>

Callback(c) == (Chain(c) /\ UNCHANGED <<file, track, stolen>>) \/ OnFsWrite(c)

Resume(c) ==
    \/ Opened(c) \/ Created(c) \/ CreatedClosed(c)
    \/ UsedRead(c) \/ UsedWrite(c) \/ ClosedFile(c)

Next ==
    \/ \E c \in Calls : Pool(c) \/ Callback(c) \/ Resume(c)
    \/ \E c \in ChainCalls : Begin(c) /\ UNCHANGED <<file, track, stolen>>
    \/ \E c \in FileCalls : OpenFile(c) \/ Use(c) \/ Seek(c) \/ CloseFile(c)
    \/ LoopDies \/ LoopDead

\* the pool executes what it was given, uv_run calls the callbacks, run() resumes
\* fibers while the loop runs, and ~EventLoop ends
Fairness ==
    /\ \A c \in Calls : WF_vars(Pool(c) \/ Callback(c) \/ (is_loop_alive /\ Resume(c)))
    /\ WF_vars(LoopDead)

Spec == Init /\ [][Next]_vars /\ Fairness

-----------------------------------------------------------------------------
(* Properties *)

Made(c) == io[c].result # "new"
Changing == WriteFiles \cup AppendFiles \cup Writers \cup Creates
Done(c) == Made(c) /\ io[c].result # "waiting"

\* No descriptor is lost while the loop lives: one that is open belongs to a call
\* that has not returned, or to the File until its close().  Those of read_file()
\* and write_file() are not even lost in ~EventLoop.  A close() frees a descriptor
\* that is not the File's own only when close() was called twice: the second call
\* may find a number that was used again.
DescriptorsOwned ==
    /\ \A d \in Descriptors : owner[d] \in ChainCalls => ~Done(owner[d])
    /\ is_loop_alive => \A d \in Descriptors :
         /\ owner[d] \in Creates => ~Done(owner[d])
         /\ owner[d] \in Openers => ~file.closed
    /\ stolen => \E c, e \in Closers : c # e /\ Made(c) /\ Made(e)

\* read_file() returns the file, and write_file() leaves its data in the file, in
\* spite of short reads and writes, as long as nobody else changes it meanwhile.
WholeFile ==
    /\ \A c \in ReadFiles : io[c].result = "ok" /\ io[c].seen = writes => io[c].out = content
    /\ \A c \in WriteFiles :
         io[c].result = "ok" /\ (\A e \in (Changing \cup Openers) \ {c} : ~Made(e)) => content = Data(c)

End(i) == IF i = 0 THEN track.base
          ELSE io[track.log[i].call].offset + track.log[i].len

OnlyCursor == \A e \in Changing \ Cursored : ~Made(e)

\* Calls of read_some() and write_some() that do not overlap each other or a seek()
\* use up the file piece by piece: each begins where the one before it ended, in
\* spite of short and failed requests, and the cursor is at the end of the last one.
\* As long as nobody writes in another way, what each write_some() wrote stays in the
\* file in one piece: at the cursor it began with, or, in a File opened for append,
\* where the end of the file was, behind the pieces written before it.
CursorTiles ==
    ~track.overlapped =>
        /\ file.cursor = End(Len(track.log))
        /\ \A i \in DOMAIN track.log :
             LET e == track.log[i]
             IN  /\ io[e.call].offset = End(i - 1)
                 /\ e.call \in Writers /\ OnlyCursor =>
                      /\ SubSeq(content, e.at + 1, e.at + e.len) = Data(e.call)
                      /\ \A j \in 1 .. i - 1 : track.log[j].call \in Writers =>
                           track.log[j].at + track.log[j].len <= e.at

\* Every call that waits for the file system is answered, also when ~EventLoop runs
\* meanwhile: it returns, or its fiber only waits for its turn.
CallsAnswered ==
    \A c \in Calls : io[c].result = "waiting" ~> Done(c) \/ (loop = "dead" /\ req[c].done)
=============================================================================
