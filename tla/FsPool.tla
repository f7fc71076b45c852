-------------------------------- MODULE FsPool --------------------------------
(***************************************************************************)
(* What libuv's uv_fs_* requests do (external): a request is executed by a *)
(* thread of the pool at any time after it was submitted, in any order     *)
(* with the others, and its callback runs on the loop later.  The requests *)
(* act on one file and on the descriptors of the process, whose numbers    *)
(* are reused, lowest first.                                               *)
(***************************************************************************)
EXTENDS UvLoop, Integers, Sequences

CONSTANTS
    Calls,          \* calls that use the file system, at most one request each
    Descriptors,    \* the numbers a descriptor can have
    Initial,        \* the bytes of the file at the start
    Zero,           \* the byte that fills a hole
    None

ASSUME DescriptorsAssumption == Descriptors \subseteq Nat /\ None \notin Calls
ASSUME InitialAssumption == Initial \in Seq({Initial[i] : i \in DOMAIN Initial})

VARIABLES
    kind,       \* what each call is, of the whole behaviour
    req,        \* the request of each call
    owner,      \* the call that opened each descriptor, or None
    content,    \* the bytes of the file
    writes      \* how often the file was changed

fsVars == <<req, owner, content, writes>>

Of(K) == {c \in Calls : kind[c] \in K}

\* the flags of the descriptors that the calls open
Appenders == Of({"append_file", "open_append"})                 \* O_APPEND
ReadOnly == Of({"read_file"})                                   \* O_RDONLY
WriteOnly == Of({"write_file", "append_file", "create_file"})   \* O_WRONLY

NoReq == [op |-> "none", done |-> FALSE, fd |-> -1, off |-> 0, n |-> 0, data |-> <<>>, res |-> 0]

FsInit ==
    /\ req = [c \in Calls |-> NoReq]
    /\ owner = [d \in Descriptors |-> None]
    /\ content = Initial /\ writes = 0

\* trunc: O_TRUNC
OpenReq(trunc) == [NoReq EXCEPT !.op = "open", !.n = IF trunc THEN 0 ELSE 1]
ReadReq(fd, off, n) == [NoReq EXCEPT !.op = "read", !.fd = fd, !.off = off, !.n = n]
\* off = -1: at the position of the descriptor, which is open with O_APPEND
WriteReq(fd, off, data) == [NoReq EXCEPT !.op = "write", !.fd = fd, !.off = off, !.data = data]
CloseReq(fd) == [NoReq EXCEPT !.op = "close", !.fd = fd]

Completed(c, res, data) == req' = [req EXCEPT ![c].done = TRUE, ![c].res = res, ![c].data = data]

IsOpen(fd) == fd \in Descriptors /\ owner[fd] # None
Free == {d \in Descriptors : owner[d] = None}

Overwritten(s, off, data) ==
    LET end == off + Len(data)
    IN  [i \in 1 .. (IF end > Len(s) THEN end ELSE Len(s)) |->
            IF i > off /\ i <= end THEN data[i - off]
            ELSE IF i <= Len(s) THEN s[i] ELSE Zero]

Pending(c, op) == CallbacksRun /\ req[c].op = op /\ ~req[c].done

ExecOpen(c) ==
    /\ Pending(c, "open")
    /\ \E d \in Free : /\ \A e \in Free : d <= e
                      /\ Completed(c, d, <<>>)
                      /\ owner' = [owner EXCEPT ![d] = c]
    /\ content' = IF req[c].n = 0 THEN <<>> ELSE content
    /\ writes' = IF req[c].n = 0 THEN writes + 1 ELSE writes

\* a read may be short; nothing at the end of the file
ExecRead(c) ==
    /\ Pending(c, "read") /\ IsOpen(req[c].fd) /\ owner[req[c].fd] \notin WriteOnly
    /\ LET left == Len(content) - req[c].off
       IN  \E k \in IF left <= 0 THEN {0} ELSE {i \in 1 .. req[c].n : i <= left} :
             Completed(c, k, SubSeq(content, req[c].off + 1, req[c].off + k))
    /\ UNCHANGED <<owner, content, writes>>

\* O_APPEND sends a write to the end of the file whatever offset was asked for, as
\* pwrite does on Linux
WriteOffset(c) ==
    IF req[c].off = -1 \/ owner[req[c].fd] \in Appenders THEN Len(content) ELSE req[c].off

\* a write may be short
ExecWrite(c) ==
    /\ Pending(c, "write") /\ IsOpen(req[c].fd) /\ owner[req[c].fd] \notin ReadOnly
    /\ \E k \in 1 .. Len(req[c].data) :
         /\ Completed(c, k, req[c].data)
         /\ content' = Overwritten(content, WriteOffset(c), SubSeq(req[c].data, 1, k))
    /\ writes' = writes + 1 /\ UNCHANGED owner

\* the number is free even when close reports an error
ExecClose(c) ==
    /\ Pending(c, "close") /\ IsOpen(req[c].fd)
    /\ \E res \in {0, -1} : Completed(c, res, <<>>)
    /\ owner' = [owner EXCEPT ![req[c].fd] = None]
    /\ UNCHANGED <<content, writes>>

\* any request fails without an effect; a close only on a number that is not open
ExecFails(c) ==
    /\ CallbacksRun /\ req[c].op # "none" /\ ~req[c].done
    /\ req[c].op = "close" => ~IsOpen(req[c].fd)
    /\ Completed(c, -1, req[c].data)
    /\ UNCHANGED <<owner, content, writes>>

Exec(c) == ExecOpen(c) \/ ExecRead(c) \/ ExecWrite(c) \/ ExecClose(c) \/ ExecFails(c)
=============================================================================
