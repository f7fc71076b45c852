---------------------------- MODULE FileIOProofs ----------------------------
(***************************************************************************)
(* Proofs about File and FileIO for any calls, descriptors, file and       *)
(* chunk: what every step leaves in its call and its request, and what     *)
(* read_file() and write_file() leave in the end.  FileProofs goes on from *)
(* here with the descriptors and the cursor of a File.                     *)
(***************************************************************************)
EXTENDS File, TLAPS

-----------------------------------------------------------------------------
(* The invariants *)

DataBytes == {Byte(c, i) : c \in Calls, i \in 1 .. DataLen}

Bytes == DataBytes \cup {Zero} \cup {Initial[i] : i \in DOMAIN Initial}

Reqs == [op : {"none", "open", "read", "write", "close"}, done : BOOLEAN, fd : Int,
         off : Nat \cup {-1}, n : Nat, data : Seq(Bytes), res : Int]

Ios == [result : {"new", "waiting", "ok", "error", "undefined"}, fd : Int, offset : Nat,
        out : Seq(Bytes), error : BOOLEAN, seen : Nat]

Files == [exists : BOOLEAN, fd : Int, cursor : Nat, closed : BOOLEAN]

Entries == [call : Calls, len : Nat, at : Int]

Types ==
    /\ loop \in {"running", "dying", "dead"}
    /\ kind \in Workloads
    /\ req \in [Calls -> Reqs]
    /\ owner \in [Descriptors -> Calls \cup {None}]
    /\ content \in Seq(Bytes)
    /\ writes \in Nat
    /\ io \in [Calls -> Ios]
    /\ file \in Files
    /\ track \in [base : Nat, log : Seq(Entries), overlapped : BOOLEAN]
    /\ stolen \in BOOLEAN

\* the requests a call makes
Ops(c) ==
    CASE kind[c] = "read_file" -> {"open", "read", "close"}
      [] kind[c] \in {"write_file", "append_file"} -> {"open", "write", "close"}
      [] kind[c] \in {"open", "open_append"} -> {"open"}
      [] kind[c] = "create_file" -> {"open", "close"}
      [] kind[c] \in {"read_some", "read_at"} -> {"read"}
      [] kind[c] \in {"write_some", "write_at"} -> {"write"}
      [] kind[c] = "close" -> {"close"}
      [] OTHER -> {}

\* m bytes of the data of c, from f on
Run(c, f, m) == [i \in 1 .. m |-> Byte(c, f + i)]

\* how far into its data the write request of a call begins
From(c) == IF c \in ChainCalls THEN io[c].offset ELSE req[c].off - io[c].offset

\* A call waits while it has a request, and only a File that exists is used; what a
\* request asks for, and what it has answered.
Shape(c) ==
    /\ io[c].result = "waiting" <=> req[c].op # "none"
    /\ req[c].op \in Ops(c) \cup {"none"}
    /\ ~Made(c) => io[c].offset = 0 /\ io[c].out = <<>> /\ ~io[c].error
    /\ c \in Openers => (file.exists <=> io[c].result = "ok")
    /\ Made(c) => file.exists \/ c \in ChainCalls \cup Creates \cup Openers
    /\ c \in ChainCalls /\ req[c].op \in {"read", "write", "close"} => req[c].fd = io[c].fd
    /\ req[c].op = "none" => ~req[c].done
    /\ ~req[c].done => req[c].res = 0
    /\ io[c].seen <= writes
    /\ req[c].op = "open" => /\ io[c].offset = 0 /\ io[c].out = <<>> /\ ~io[c].error
                             /\ c \in WriteFiles => req[c].n = 0
                             /\ req[c].done => req[c].res = -1 \/ req[c].res \in Descriptors
    /\ req[c].op = "read" => req[c].off \in Nat /\ (req[c].done => req[c].res >= -1)
    /\ req[c].op = "write" =>
          /\ From(c) \in 0 .. DataLen - 1 /\ (req[c].off = -1 => c \in ChainCalls)
          /\ req[c].data = Run(c, From(c), DataLen - From(c))
          /\ req[c].done => req[c].res = -1 \/ req[c].res \in 1 .. DataLen - From(c)

ShapeInv == Types /\ \A c \in Calls : Shape(c)

\* What read_file() has of a file that nobody changes.
ReadAt(c) ==
    /\ req[c].op = "open" => req[c].n # 0
    /\ req[c].op = "read" => req[c].off = io[c].offset
    /\ io[c].seen = writes =>
          /\ req[c].op = "read" =>
                io[c].offset <= Len(content) /\ io[c].out = SubSeq(content, 1, io[c].offset)
          /\ req[c].op = "read" /\ req[c].done /\ req[c].res >= 0 =>
                /\ io[c].offset + req[c].res <= Len(content)
                /\ req[c].data = SubSeq(content, io[c].offset + 1, io[c].offset + req[c].res)
                /\ req[c].res = 0 => io[c].offset = Len(content)
          /\ (req[c].op = "close" /\ ~io[c].error) \/ io[c].result = "ok" => io[c].out = content

ReadInv == \A c \in ReadFiles : ReadAt(c)

Alone(c) == \A e \in (Changing \cup Openers) \ {c} : ~Made(e)

\* What write_file() has left in a file that nobody else changes.
WriteAt(c) ==
    /\ req[c].op = "write" => req[c].off = io[c].offset
    /\ Alone(c) =>
          /\ req[c].op = "open" /\ req[c].done /\ req[c].res >= 0 => content = <<>>
          /\ req[c].op = "write" /\ ~(req[c].done /\ req[c].res < 0) =>
                content = Run(c, 0, io[c].offset + req[c].res)
          /\ (req[c].op = "close" /\ ~io[c].error) \/ io[c].result = "ok" => content = Run(c, 0, DataLen)

WriteInv == \A c \in WriteFiles : WriteAt(c)

-----------------------------------------------------------------------------
(* Calls, requests and bytes *)

\* The kinds of calls, which last for a behaviour, and the requests of each.
LEMMA KindFacts ==
    ASSUME Types, NEW c \in Calls
    PROVE  /\ c \in ReadFiles => Ops(c) = {"open", "read", "close"}
           /\ c \in WriteFiles \cup AppendFiles => Ops(c) = {"open", "write", "close"}
           /\ c \in Openers => Ops(c) = {"open"}
           /\ c \in Creates => Ops(c) = {"open", "close"}
           /\ c \in Readers => Ops(c) = {"read"}
           /\ c \in Writers => Ops(c) = {"write"}
           /\ c \in Closers => Ops(c) = {"close"}
           /\ c \in Seeks => Ops(c) = {}
           /\ "open" \in Ops(c) => c \in ChainCalls \cup Openers \cup Creates
           /\ "read" \in Ops(c) => c \in ReadFiles \cup Readers
           /\ "write" \in Ops(c) => c \in WriteFiles \cup AppendFiles \cup Writers
           /\ "close" \in Ops(c) => c \in ChainCalls \cup Creates \cup Closers
<1>1. kind[c] \in {"none", "read_file", "write_file", "append_file", "open", "open_append",
                   "read_some", "read_at", "write_some", "write_at", "seek", "close", "create_file"}
  BY WorkloadsAssumption, Zenon DEF Types
<1> QED BY <1>1, Zenon DEF Ops, ReadFiles, WriteFiles, AppendFiles, ChainCalls, Openers, Creates, Readers,
                    Writers, Closers, Seeks, Of

\* No call is of two kinds.
LEMMA KindsDiffer ==
    ASSUME Types
    PROVE  /\ ChainCalls \cap (Openers \cup Creates \cup Readers \cup Writers \cup Closers \cup Seeks) = {}
           /\ Openers \cap (Creates \cup Readers \cup Writers \cup Closers \cup Seeks) = {}
           /\ Creates \cap (Readers \cup Writers \cup Closers \cup Seeks) = {}
           /\ Readers \cap (Writers \cup Closers \cup Seeks) = {} /\ Writers \cap (Closers \cup Seeks) = {}
           /\ Closers \cap Seeks = {}
           /\ ReadFiles \cap (WriteFiles \cup AppendFiles) = {} /\ WriteFiles \cap AppendFiles = {}
           /\ ChainCalls \subseteq Calls /\ Openers \subseteq Calls /\ Creates \subseteq Calls
           /\ Readers \subseteq Calls /\ Writers \subseteq Calls /\ Closers \subseteq Calls
           /\ \A c, e \in Openers : c = e
<1>1. \A c, e \in Openers : c = e
  BY WorkloadsAssumption, Zenon DEF Types, Openers, Of
<1> QED BY <1>1, Zenon DEF ReadFiles, WriteFiles, AppendFiles, ChainCalls, Openers, Creates, Readers,
                    Writers, Closers, Seeks, Of

\* They are the same after a step.
LEMMA SameKinds ==
    ASSUME kind' = kind
    PROVE  /\ ReadFiles' = ReadFiles /\ WriteFiles' = WriteFiles /\ AppendFiles' = AppendFiles
           /\ ChainCalls' = ChainCalls /\ Openers' = Openers /\ Creates' = Creates
           /\ Readers' = Readers /\ Writers' = Writers /\ Closers' = Closers /\ Seeks' = Seeks
           /\ Cursored' = Cursored /\ Positional' = Positional /\ Changing' = Changing
           /\ Appenders' = Appenders /\ Appending' = Appending
           /\ \A c : Ops(c)' = Ops(c)
BY Zenon DEF ReadFiles, WriteFiles, AppendFiles, ChainCalls, Openers, Creates, Readers, Writers, Closers,
       Seeks, Cursored, Positional, Changing, Appenders, Appending, Ops, Of

\* A piece of the data of a call.
LEMMA RunFacts ==
    ASSUME NEW c \in Calls, NEW f \in Nat, NEW m \in Nat, f + m <= DataLen
    PROVE  /\ Run(c, f, m) \in Seq(Bytes) /\ Len(Run(c, f, m)) = m
           /\ \A i \in 1 .. m : Run(c, f, m)[i] = Byte(c, f + i)
           /\ \A k \in 0 .. m : SubSeq(Run(c, f, m), 1, k) = Run(c, f, k)
<1>1. \A i \in 1 .. m : f + i \in 1 .. DataLen
  BY LengthsAssumption
<1>2. \A i \in 1 .. m : Byte(c, f + i) \in Bytes
  <2>1. \A i \in 1 .. DataLen : Byte(c, i) \in DataBytes
    BY SMT DEF DataBytes
  <2> QED BY <1>1, <2>1, Zenon DEF Bytes
<1>3. Run(c, f, m) \in Seq(Bytes) /\ Len(Run(c, f, m)) = m /\ \A i \in 1 .. m : Run(c, f, m)[i] = Byte(c, f + i)
  BY <1>2 DEF Run
<1>4. ASSUME NEW k \in 0 .. m PROVE SubSeq(Run(c, f, m), 1, k) = Run(c, f, k)
  BY <1>3 DEF Run
<1> QED BY <1>3, <1>4, Zenon

\* Data(c) as such a piece, and what is left of it.
LEMMA DataFacts ==
    ASSUME NEW c \in Calls
    PROVE  /\ Data(c) = Run(c, 0, DataLen)
           /\ \A w \in 0 .. DataLen - 1 : SubSeq(Data(c), w + 1, DataLen) = Run(c, w, DataLen - w)
<1>1. Data(c) = Run(c, 0, DataLen)
  <2>1. \A i \in 1 .. DataLen : 0 + i = i
    BY LengthsAssumption
  <2> QED BY <2>1, Zenon DEF Data, Run
<1>2. Data(c) \in Seq(Bytes) /\ Len(Data(c)) = DataLen /\ \A i \in 1 .. DataLen : Data(c)[i] = Byte(c, i)
  <2>1. 0 \in Nat /\ DataLen \in Nat /\ 0 + DataLen <= DataLen
    BY LengthsAssumption
  <2>2. \A i \in 1 .. DataLen : Data(c)[i] = Byte(c, i)
    BY Zenon DEF Data
  <2>3. Run(c, 0, DataLen) \in Seq(Bytes) /\ Len(Run(c, 0, DataLen)) = DataLen
    BY <2>1, RunFacts, Zenon
  <2> QED BY <1>1, <2>2, <2>3, Zenon
<1>3. ASSUME NEW w \in 0 .. DataLen - 1 PROVE SubSeq(Data(c), w + 1, DataLen) = Run(c, w, DataLen - w)
  <2>1. PICK d \in Seq(Bytes) : d = Data(c) /\ Len(d) = DataLen /\ \A i \in 1 .. DataLen : d[i] = Byte(c, i)
    BY <1>2, Zenon
  <2>2. SubSeq(d, w + 1, DataLen) = [i \in 1 .. DataLen - w |-> d[w + i]]
    BY <2>1, LengthsAssumption
  <2>3. \A i \in 1 .. DataLen - w : d[w + i] = Byte(c, w + i)
    BY <2>1, LengthsAssumption
  <2> QED BY <2>1, <2>2, <2>3, Zenon DEF Run
<1> QED BY <1>1, <1>3, Zenon

\* o is s with k bytes of c, from f on, at off
Overwrote(o, s, off, c, f, k) ==
    /\ o \in Seq(Bytes)
    /\ Len(o) >= Len(s) /\ Len(o) >= off + k /\ Len(o) \in {Len(s), off + k}
    /\ \A j \in 1 .. k : o[off + j] = Byte(c, f + j)
    /\ \A i \in 1 .. Len(s) : i <= off \/ i > off + k => o[i] = s[i]

\* What a write leaves: what is before and behind it stays, a hole is filled.
LEMMA OverwrittenFacts ==
    ASSUME NEW s \in Seq(Bytes), NEW off \in Nat, NEW c \in Calls, NEW f \in Nat, NEW k \in Nat,
           f + k <= DataLen, NEW o, o = Overwritten(s, off, Run(c, f, k))
    PROVE  Overwrote(o, s, off, c, f, k)
<1>1. PICK r \in Seq(Bytes) : r = Run(c, f, k) /\ Len(r) = k /\ \A i \in 1 .. k : r[i] = Byte(c, f + i)
  BY RunFacts, Zenon
<1>2. PICK m \in Nat : m = IF Len(s) > off + k THEN Len(s) ELSE off + k
  OBVIOUS
<1>3. o = [i \in 1 .. m |-> IF i > off /\ i <= off + k THEN r[i - off]
                            ELSE IF i <= Len(s) THEN s[i] ELSE Zero]
  BY <1>1, <1>2 DEF Overwritten
<1>4. \A i \in 1 .. m : o[i] = IF i > off /\ i <= off + k THEN r[i - off]
                               ELSE IF i <= Len(s) THEN s[i] ELSE Zero
  BY <1>3, Zenon
<1>5. \A i \in 1 .. m : o[i] \in Bytes
  <2>1. Zero \in Bytes
    BY Zenon DEF Bytes
  <2>2. ASSUME NEW i \in 1 .. m, i > off, i <= off + k PROVE o[i] \in Bytes
    <3>1. i - off \in 1 .. k
      BY <2>2
    <3>2. r[i - off] \in Bytes
      BY <1>1, <3>1
    <3> QED BY <1>4, <2>2, <3>2, Zenon
  <2>3. ASSUME NEW i \in 1 .. m, i <= Len(s) PROVE s[i] \in Bytes
    BY <2>3
  <2> QED BY <1>4, <2>1, <2>2, <2>3, Zenon
<1>6. o \in Seq(Bytes) /\ Len(o) = m
  BY <1>3, <1>5
<1>7. ASSUME NEW j \in 1 .. k PROVE o[off + j] = Byte(c, f + j)
  <2>1. off + j \in 1 .. m /\ off + j > off /\ off + j <= off + k /\ (off + j) - off = j
    BY <1>2
  <2>2. o[off + j] = r[j]
    BY <1>4, <2>1, Zenon
  <2> QED BY <1>1, <2>2, Zenon
<1>8. \A i \in 1 .. Len(s) : i <= off \/ i > off + k => o[i] = s[i]
  BY <1>2, <1>4
<1> QED BY <1>2, <1>6, <1>7, <1>8 DEF Overwrote

\* No request.
LEMMA NoReqForm ==
    /\ NoReq \in Reqs /\ NoReq.op = "none" /\ NoReq.done = FALSE /\ NoReq.res = 0 /\ NoReq.off = 0
    /\ NoReq.n = 0 /\ NoReq.data = <<>>
<1>1. <<>> \in Seq(Bytes)
  OBVIOUS
<1> QED BY <1>1 DEF NoReq, Reqs

\* fs_open.
LEMMA OpenReqForm ==
    ASSUME NEW b \in BOOLEAN
    PROVE  /\ OpenReq(b) \in Reqs /\ OpenReq(b).op = "open" /\ OpenReq(b).done = FALSE
           /\ OpenReq(b).res = 0 /\ OpenReq(b).off = 0 /\ OpenReq(b).n = IF b THEN 0 ELSE 1
BY NoReqForm, Zenon DEF Reqs, OpenReq

\* uv_fs_read.
LEMMA ReadReqForm ==
    ASSUME NEW fd \in Int, NEW off \in Nat \cup {-1}, NEW n \in Nat, NEW r, r = ReadReq(fd, off, n)
    PROVE  r \in Reqs /\ r.op = "read" /\ ~r.done /\ r.res = 0 /\ r.fd = fd /\ r.off = off /\ r.n = n
BY NoReqForm, Zenon DEF Reqs, ReadReq

\* uv_fs_write.
LEMMA WriteReqForm ==
    ASSUME NEW fd \in Int, NEW off \in Nat \cup {-1}, NEW data \in Seq(Bytes), NEW r,
           r = WriteReq(fd, off, data)
    PROVE  /\ r \in Reqs /\ r.op = "write" /\ ~r.done /\ r.res = 0 /\ r.fd = fd /\ r.off = off
           /\ r.data = data
BY NoReqForm, Zenon DEF Reqs, WriteReq

\* uv_fs_close.
LEMMA CloseReqForm ==
    ASSUME NEW fd \in Int, NEW r, r = CloseReq(fd)
    PROVE  r \in Reqs /\ r.op = "close" /\ ~r.done /\ r.res = 0 /\ r.fd = fd /\ r.off = 0
BY NoReqForm, Zenon DEF Reqs, CloseReq

-----------------------------------------------------------------------------
(* What a step does to the call that takes it *)

\* The state and the request of the other calls are left alone.
Others(c) == \A e \in Calls \ {c} : io'[e] = io[e] /\ req'[e] = req[e]

\* A callback or a fiber leaves one state and one request.
LEMMA ContinueForms ==
    ASSUME Types, NEW c \in Calls, NEW s \in Ios, NEW r \in Reqs, Continue(c, s, r)
    PROVE  /\ io' \in [Calls -> Ios] /\ req' \in [Calls -> Reqs]
           /\ io'[c] = s /\ req'[c] = r /\ Others(c)
BY Zenon DEF Types, Continue, Others

\* A fiber goes on and the call returns.
LEMMA ReturnForms ==
    ASSUME Types, NEW c \in Calls, NEW o \in {"ok", "error", "undefined"}, Return(c, o)
    PROVE  /\ io' \in [Calls -> Ios] /\ req' \in [Calls -> Reqs] /\ Others(c)
           /\ io'[c].result = o /\ io'[c].fd = io[c].fd /\ io'[c].offset = io[c].offset
           /\ io'[c].out = io[c].out /\ io'[c].error = io[c].error /\ io'[c].seen = io[c].seen
           /\ req'[c].op = "none" /\ req'[c].done = FALSE /\ req'[c].res = 0
<1>1. PICK s : s = [io[c] EXCEPT !.result = o]
  BY Zenon
<1>2. /\ s \in Ios /\ s.result = o /\ s.fd = io[c].fd /\ s.offset = io[c].offset
      /\ s.out = io[c].out /\ s.error = io[c].error /\ s.seen = io[c].seen
  BY <1>1, ZenonT(30) DEF Types, Ios
<1>3. NoReq \in Reqs /\ NoReq.op = "none" /\ NoReq.done = FALSE /\ NoReq.res = 0
  BY NoReqForm, Zenon
<1>4. Continue(c, s, NoReq)
  BY <1>1, Zenon DEF Return
<1> QED BY <1>2, <1>3, <1>4, ContinueForms, Zenon

\* A fiber starts a request and waits.
LEMMA WaitForms ==
    ASSUME Types, NEW c \in Calls, NEW r \in Reqs, r.off \in Nat, Wait(c, r)
    PROVE  /\ io' \in [Calls -> Ios] /\ req' \in [Calls -> Reqs] /\ Others(c)
           /\ io'[c].result = "waiting" /\ io'[c].fd = io[c].fd /\ io'[c].offset = r.off
           /\ io'[c].out = io[c].out /\ io'[c].error = io[c].error /\ io'[c].seen = io[c].seen
           /\ req'[c] = r
<1>1. PICK s : s = [io[c] EXCEPT !.result = "waiting", !.offset = r.off]
  BY Zenon
<1>2. /\ s \in Ios /\ s.result = "waiting" /\ s.fd = io[c].fd /\ s.offset = r.off
      /\ s.out = io[c].out /\ s.error = io[c].error /\ s.seen = io[c].seen
  BY <1>1, ZenonT(30) DEF Types, Ios
<1>3. Continue(c, s, r)
  BY <1>1, Zenon DEF Wait
<1> QED BY <1>2, <1>3, ContinueForms, Zenon

\* A thread of the pool completes a request.
LEMMA CompletedForms ==
    ASSUME Types, NEW c \in Calls, NEW res \in Int, NEW data \in Seq(Bytes), Completed(c, res, data)
    PROVE  /\ req' \in [Calls -> Reqs] /\ \A e \in Calls \ {c} : req'[e] = req[e]
           /\ req'[c].op = req[c].op /\ req'[c].fd = req[c].fd /\ req'[c].off = req[c].off
           /\ req'[c].n = req[c].n /\ req'[c].done = TRUE /\ req'[c].res = res /\ req'[c].data = data
<1>1. PICK r : r = [req[c] EXCEPT !.done = TRUE, !.res = res, !.data = data]
  BY Zenon
<1>2. /\ r \in Reqs /\ r.op = req[c].op /\ r.fd = req[c].fd /\ r.off = req[c].off
      /\ r.n = req[c].n /\ r.done = TRUE /\ r.res = res /\ r.data = data
  BY <1>1, ZenonT(30) DEF Types, Reqs
<1>3. req' = [req EXCEPT ![c] = r]
  BY <1>1, Zenon DEF Completed, Types, Reqs
<1> QED BY <1>2, <1>3, Zenon DEF Types

\* The other calls keep their shape when one takes a step.
LEMMA OtherShapes ==
    ASSUME ShapeInv, NEW c \in Calls, kind' = kind, writes' \in Nat, writes' >= writes, Others(c),
           file'.exists = file.exists \/ (c \in Openers /\ file'.exists), Shape(c)'
    PROVE  \A e \in Calls : Shape(e)'
<1> SUFFICES ASSUME NEW e \in Calls, e # c PROVE Shape(e)'
  BY Zenon
<1>1. io'[e] = io[e] /\ req'[e] = req[e]
  BY Zenon DEF Others
<1>2. Shape(e) /\ io[e] \in Ios
  BY Zenon DEF ShapeInv, Types
<1>3. Openers' = Openers /\ ChainCalls' = ChainCalls /\ Creates' = Creates /\ WriteFiles' = WriteFiles
      /\ Ops(e)' = Ops(e)
  BY SameKinds, Zenon
<1>4. e \in Openers => file'.exists = file.exists
  BY KindsDiffer, Zenon DEF ShapeInv
<1>5. From(e)' = From(e)
  BY <1>1, <1>3, Zenon DEF From
<1>6. io[e].seen <= writes'
  BY <1>2 DEF Shape, Ios, ShapeInv, Types
<1> QED BY <1>1, <1>2, <1>3, <1>4, <1>5, <1>6 DEF Shape, Made

-----------------------------------------------------------------------------
(* The chains of read_file and write_file *)

\* What a callback of a chain leaves alone.
Quiet == UNCHANGED <<loop, kind, owner, content, writes>>

\* What it leaves of the call: a state, and a request for the descriptor fd.
Chained(c, result, fd) ==
    /\ Quiet /\ c \in ChainCalls /\ Others(c)
    /\ io' \in [Calls -> Ios] /\ req' \in [Calls -> Reqs]
    /\ io'[c].result = result /\ io'[c].fd = fd
    /\ ~req'[c].done /\ req'[c].res = 0

NextRequest(c, s) == IF c \in ReadFiles THEN ReadNextChunk(s) ELSE WriteNextChunk(c, s)

\* read_next_chunk and write_next_chunk.
LEMMA NextForms ==
    ASSUME Types, NEW c \in ChainCalls, NEW s \in Ios, NEW r, r = NextRequest(c, s)
    PROVE  /\ r \in Reqs /\ ~r.done /\ r.res = 0 /\ r.fd = s.fd
           /\ c \in ReadFiles => r.op = "read" /\ r.off = s.offset /\ r.n = Chunk
           /\ c \notin ReadFiles /\ s.offset >= DataLen => r.op = "close"
           /\ c \notin ReadFiles /\ s.offset < DataLen =>
                 r.op = "write" /\ r.data = Run(c, s.offset, DataLen - s.offset) /\ (c \in WriteFiles => r.off = s.offset)
<1>0. c \in Calls /\ s.fd \in Int /\ s.offset \in Nat /\ Chunk \in Nat /\ DataLen \in Nat
  BY KindsDiffer, LengthsAssumption, Zenon DEF Ios
<1>1. CASE c \in ReadFiles
  <2>1. r = ReadReq(s.fd, s.offset, Chunk)
    BY <1>1, Zenon DEF NextRequest, ReadNextChunk
  <2>2. s.offset \in Nat \cup {-1}
    BY <1>0, Zenon
  <2>3. /\ r \in Reqs /\ r.op = "read" /\ ~r.done /\ r.res = 0
        /\ r.fd = s.fd /\ r.off = s.offset /\ r.n = Chunk
    BY <1>0, <2>1, <2>2, ReadReqForm
  <2> QED BY <1>1, <2>3, Zenon
<1>2. CASE c \notin ReadFiles /\ s.offset >= DataLen
  <2>1. r = CloseReq(s.fd)
    BY <1>2, Zenon DEF NextRequest, WriteNextChunk
  <2>2. r \in Reqs /\ r.op = "close" /\ ~r.done /\ r.res = 0 /\ r.fd = s.fd
    BY <1>0, <2>1, CloseReqForm, Zenon
  <2> QED BY <1>0, <1>2, <2>2
<1>3. CASE c \notin ReadFiles /\ s.offset < DataLen
  <2>1. PICK off \in Nat \cup {-1} : off = IF c \in AppendFiles THEN -1 ELSE s.offset
    BY <1>0, Zenon
  <2>2. PICK data : data = SubSeq(Data(c), s.offset + 1, DataLen)
    BY Zenon
  <2>3. s.offset \in 0 .. DataLen - 1 /\ DataLen - s.offset \in Nat
    BY <1>0, <1>3
  <2>4. data = Run(c, s.offset, DataLen - s.offset)
    BY <1>0, <2>2, <2>3, DataFacts, Zenon
  <2>5. data \in Seq(Bytes)
    <3>1. s.offset + (DataLen - s.offset) <= DataLen
      BY <1>0
    <3> QED BY <1>0, <2>3, <2>4, <3>1, RunFacts, Zenon
  <2>6. r = WriteReq(s.fd, off, data)
    <3>1. ~(s.offset >= DataLen)
      BY <1>0, <1>3
    <3> QED BY <1>3, <2>1, <2>2, <3>1, Zenon DEF NextRequest, WriteNextChunk
  <2>7. /\ r \in Reqs /\ r.op = "write" /\ ~r.done /\ r.res = 0
        /\ r.fd = s.fd /\ r.off = off /\ r.data = data
    BY <1>0, <2>5, <2>6, WriteReqForm
  <2>8. c \in WriteFiles => off = s.offset
    BY <2>1, KindsDiffer, Zenon
  <2> QED BY <1>0, <1>3, <2>4, <2>7, <2>8
<1> QED BY <1>0, <1>1, <1>2, <1>3

\* finalize_read and finalize_write.
LEMMA FinalForms ==
    ASSUME Types, NEW c \in ChainCalls, NEW s \in Ios, Quiet, Finalize(c, s)
    PROVE  /\ Chained(c, IF s.error THEN "error" ELSE "ok", s.fd) /\ req'[c].op = "none"
           /\ io'[c].offset = s.offset /\ io'[c].out = s.out /\ io'[c].error = s.error
           /\ io'[c].seen = s.seen
<1>0. c \in Calls
  BY KindsDiffer, Zenon
<1>1. PICK o \in {"ok", "error"} : o = IF s.error THEN "error" ELSE "ok"
  BY Zenon
<1>2. PICK t : t = [s EXCEPT !.result = o]
  BY Zenon
<1>3. /\ t \in Ios /\ t.result = o /\ t.fd = s.fd /\ t.offset = s.offset /\ t.out = s.out
      /\ t.error = s.error /\ t.seen = s.seen
  BY <1>2, Zenon DEF Ios
<1>4. NoReq \in Reqs /\ NoReq.op = "none" /\ NoReq.done = FALSE /\ NoReq.res = 0
  BY NoReqForm, Zenon
<1>5. Continue(c, t, NoReq)
  BY <1>1, <1>2, Zenon DEF Finalize
<1>6. /\ io' \in [Calls -> Ios] /\ req' \in [Calls -> Reqs]
      /\ io'[c] = t /\ req'[c] = NoReq /\ Others(c)
  BY <1>0, <1>3, <1>4, <1>5, ContinueForms, Zenon
<1> QED BY <1>1, <1>3, <1>4, <1>6, Zenon DEF Chained

\* A callback that goes on with the state s and the request r.
LEMMA ChainForms ==
    ASSUME Types, NEW c \in ChainCalls, NEW s \in Ios, NEW r \in Reqs, ~r.done, r.res = 0, Quiet,
           Continue(c, s, r)
    PROVE  Chained(c, s.result, s.fd) /\ io'[c] = s /\ req'[c] = r
<1>0. c \in Calls
  BY KindsDiffer, Zenon
<1>1. /\ io' \in [Calls -> Ios] /\ req' \in [Calls -> Reqs]
      /\ io'[c] = s /\ req'[c] = r /\ Others(c)
  BY <1>0, ContinueForms, Zenon
<1> QED BY <1>1, Zenon DEF Chained

\* read_file() and write_file() up to the first request.
LEMMA BeginForms ==
    ASSUME ShapeInv, NEW c \in ChainCalls, Begin(c)
    PROVE  /\ Chained(c, "waiting", io[c].fd) /\ io[c].result = "new" /\ is_loop_alive
           /\ io'[c].offset = 0 /\ io'[c].out = <<>> /\ ~io'[c].error /\ io'[c].seen = io[c].seen
           /\ req'[c].op = "open" /\ req'[c].n = IF c \in WriteFiles THEN 0 ELSE 1
<1>0. c \in Calls /\ Types /\ io[c] \in Ios
  BY KindsDiffer, Zenon DEF ShapeInv, Types
<1>1. Quiet /\ io[c].result = "new" /\ is_loop_alive
  BY Zenon DEF Begin, Quiet
<1>2. PICK b \in BOOLEAN : b <=> c \in WriteFiles
  BY Zenon
<1>3. OpenReq(c \in WriteFiles) = OpenReq(b)
  BY <1>2, Zenon DEF OpenReq
<1>4. /\ OpenReq(b) \in Reqs /\ OpenReq(b).op = "open" /\ OpenReq(b).done = FALSE
      /\ OpenReq(b).res = 0 /\ OpenReq(b).n = IF b THEN 0 ELSE 1
  BY OpenReqForm, Zenon
<1>5. PICK s : s = [io[c] EXCEPT !.result = "waiting"]
  BY Zenon
<1>6. /\ s \in Ios /\ s.result = "waiting" /\ s.fd = io[c].fd /\ s.offset = io[c].offset
      /\ s.out = io[c].out /\ s.error = io[c].error /\ s.seen = io[c].seen
  BY <1>0, <1>5, Zenon DEF Ios
<1>7. Continue(c, s, OpenReq(b))
  BY <1>3, <1>5, Zenon DEF Begin
<1>8. Chained(c, "waiting", io[c].fd) /\ io'[c] = s /\ req'[c] = OpenReq(b)
  BY <1>0, <1>1, <1>4, <1>6, <1>7, ChainForms, Zenon
<1>9. io[c].offset = 0 /\ io[c].out = <<>> /\ ~io[c].error
  BY <1>0, <1>1, Zenon DEF ShapeInv, Shape, Made
<1> QED BY <1>1, <1>2, <1>4, <1>6, <1>8, <1>9, Zenon

\* on_file_open_for_read and on_file_open_for_write.
LEMMA OnOpenForms ==
    ASSUME ShapeInv, NEW c \in Calls, OnOpen(c)
    PROVE  /\ c \in ChainCalls /\ req[c].op = "open" /\ req[c].done /\ CallbacksRun
           /\ \/ /\ req[c].res < 0 /\ Chained(c, "error", io[c].fd) /\ req'[c].op = "none"
                 /\ io'[c].seen = io[c].seen
              \/ /\ req[c].res \in Descriptors /\ Chained(c, "waiting", req[c].res)
                 /\ io'[c].offset = 0 /\ io'[c].out = <<>> /\ ~io'[c].error /\ io'[c].seen = writes
                 /\ req'[c].fd = req[c].res
                 /\ c \in ReadFiles => req'[c].op = "read" /\ req'[c].off = 0 /\ req'[c].n = Chunk
                 /\ c \notin ReadFiles => req'[c].op = "write" /\ req'[c].data = Run(c, 0, DataLen)
                                          /\ (c \in WriteFiles => req'[c].off = 0)
<1>0. /\ c \in ChainCalls /\ req[c].op = "open" /\ req[c].done /\ CallbacksRun /\ Quiet
      /\ Types /\ io[c] \in Ios /\ req[c] \in Reqs
  BY Zenon DEF OnOpen, Called, Quiet, ShapeInv, Types
<1>1. /\ io[c].result = "waiting" /\ io[c].offset = 0 /\ io[c].out = <<>> /\ ~io[c].error
      /\ req[c].res = -1 \/ req[c].res \in Descriptors
  BY <1>0, Zenon DEF ShapeInv, Shape
<1>2. CASE req[c].res < 0
  <2>1. PICK s : s = [io[c] EXCEPT !.error = TRUE]
    BY Zenon
  <2>2. s \in Ios /\ s.error /\ s.fd = io[c].fd /\ s.seen = io[c].seen
    BY <1>0, <2>1, Zenon DEF Ios
  <2>3. Finalize(c, s)
    BY <1>2, <2>1, Zenon DEF OnOpen
  <2> QED BY <1>0, <1>2, <2>2, <2>3, FinalForms, Zenon
<1>3. CASE ~(req[c].res < 0)
  <2>0. req[c].res \in Descriptors /\ req[c].res \in Int
    BY <1>0, <1>1, <1>3 DEF Reqs
  <2>1. PICK s : s = [io[c] EXCEPT !.fd = req[c].res, !.seen = writes]
    BY Zenon
  <2>2. /\ s \in Ios /\ s.error = io[c].error /\ s.fd = req[c].res /\ s.seen = writes
        /\ s.result = io[c].result /\ s.offset = io[c].offset /\ s.out = io[c].out
    BY <1>0, <2>0, <2>1, Zenon DEF Ios, Types
  <2>3. PICK r : r = NextRequest(c, s)
    BY Zenon
  <2>4. Continue(c, s, r)
    BY <1>3, <2>1, <2>3, Zenon DEF OnOpen, NextRequest
  <2>5. /\ r \in Reqs /\ ~r.done /\ r.res = 0 /\ r.fd = s.fd
        /\ c \in ReadFiles => r.op = "read" /\ r.off = s.offset /\ r.n = Chunk
        /\ c \notin ReadFiles /\ s.offset < DataLen =>
              r.op = "write" /\ r.data = Run(c, s.offset, DataLen - s.offset) /\ (c \in WriteFiles => r.off = s.offset)
    BY <1>0, <2>2, <2>3, NextForms
  <2>6. Chained(c, s.result, s.fd) /\ io'[c] = s /\ req'[c] = r
    BY <1>0, <2>2, <2>4, <2>5, ChainForms, Zenon
  <2>7. s.offset < DataLen /\ DataLen - s.offset = DataLen
    BY <1>1, <2>2, LengthsAssumption
  <2> QED BY <1>0, <1>1, <2>0, <2>2, <2>5, <2>6, <2>7, Zenon
<1> QED BY <1>2, <1>3, Zenon

\* on_file_read.
LEMMA OnReadForms ==
    ASSUME ShapeInv, NEW c \in Calls, OnRead(c)
    PROVE  /\ c \in ReadFiles /\ req[c].op = "read" /\ req[c].done /\ CallbacksRun
           /\ Chained(c, "waiting", io[c].fd) /\ io'[c].seen = io[c].seen /\ req'[c].fd = io[c].fd
           /\ \/ /\ req[c].res > 0
                 /\ io'[c].offset = io[c].offset + req[c].res /\ io'[c].out = io[c].out \o req[c].data
                 /\ req'[c].op = "read" /\ req'[c].off = io'[c].offset /\ req'[c].n = Chunk
              \/ /\ req[c].res <= 0
                 /\ io'[c].offset = io[c].offset /\ io'[c].out = io[c].out
                 /\ (io'[c].error <=> req[c].res < 0) /\ req'[c].op = "close"
<1>0. /\ c \in ChainCalls /\ req[c].op = "read" /\ req[c].done /\ CallbacksRun /\ Quiet
      /\ Types /\ io[c] \in Ios /\ req[c] \in Reqs
  BY Zenon DEF OnRead, Called, Quiet, ShapeInv, Types
<1>1. io[c].result = "waiting" /\ c \in ReadFiles
  BY <1>0, KindFacts, KindsDiffer DEF ShapeInv, Shape
<1>2. CASE req[c].res > 0
  <2>1. PICK s : s = [io[c] EXCEPT !.offset = @ + req[c].res, !.out = @ \o req[c].data]
    BY Zenon
  <2>2. /\ io[c].offset + req[c].res \in Nat /\ io[c].out \o req[c].data \in Seq(Bytes)
    BY <1>0, <1>2, SMTT(30) DEF Ios, Reqs
  <2>3. /\ s \in Ios /\ s.fd = io[c].fd /\ s.seen = io[c].seen /\ s.result = io[c].result
        /\ s.offset = io[c].offset + req[c].res /\ s.out = io[c].out \o req[c].data
    BY <1>0, <2>1, <2>2, Zenon DEF Ios
  <2>4. PICK r : r = NextRequest(c, s)
    BY Zenon
  <2>5. Continue(c, s, r)
    BY <1>1, <1>2, <2>1, <2>4, Zenon DEF OnRead, NextRequest
  <2>6. /\ r \in Reqs /\ ~r.done /\ r.res = 0 /\ r.fd = s.fd
        /\ r.op = "read" /\ r.off = s.offset /\ r.n = Chunk
    BY <1>0, <1>1, <2>3, <2>4, NextForms
  <2>7. Chained(c, s.result, s.fd) /\ io'[c] = s /\ req'[c] = r
    BY <1>0, <2>3, <2>5, <2>6, ChainForms, Zenon
  <2> QED BY <1>0, <1>1, <1>2, <2>3, <2>6, <2>7, Zenon
<1>3. CASE ~(req[c].res > 0)
  <2>1. PICK b \in BOOLEAN : b <=> req[c].res < 0
    BY Zenon
  <2>2. PICK s : s = [io[c] EXCEPT !.error = b]
    BY Zenon
  <2>3. /\ s \in Ios /\ s.fd = io[c].fd /\ s.seen = io[c].seen /\ s.result = io[c].result
        /\ s.offset = io[c].offset /\ s.out = io[c].out /\ s.error = b
    BY <1>0, <2>2, Zenon DEF Ios
  <2>4. PICK r : r = CloseReq(io[c].fd)
    BY Zenon
  <2>5. Continue(c, s, r)
    BY <1>3, <2>1, <2>2, <2>4 DEF OnRead
  <2>6. r \in Reqs /\ ~r.done /\ r.res = 0 /\ r.fd = s.fd /\ r.op = "close"
    BY <1>0, <2>3, <2>4, CloseReqForm DEF Ios
  <2>7. Chained(c, s.result, s.fd) /\ io'[c] = s /\ req'[c] = r
    BY <1>0, <2>3, <2>5, <2>6, ChainForms, Zenon
  <2>8. req[c].res <= 0
    BY <1>0, <1>3 DEF Reqs
  <2> QED BY <1>0, <1>1, <2>1, <2>3, <2>6, <2>7, <2>8, Zenon
<1> QED BY <1>2, <1>3, Zenon

\* on_file_write.
LEMMA OnWriteForms ==
    ASSUME ShapeInv, NEW c \in Calls, OnWrite(c)
    PROVE  /\ c \in WriteFiles \cup AppendFiles /\ req[c].op = "write" /\ req[c].done /\ CallbacksRun
           /\ Chained(c, "waiting", io[c].fd) /\ io'[c].seen = io[c].seen /\ req'[c].fd = io[c].fd
           /\ io'[c].out = io[c].out
           /\ \/ /\ req[c].res > 0 /\ io'[c].error = io[c].error
                 /\ io'[c].offset = io[c].offset + req[c].res
                 /\ io'[c].offset >= DataLen => req'[c].op = "close"
                 /\ io'[c].offset < DataLen =>
                       /\ req'[c].op = "write" /\ req'[c].data = Run(c, io'[c].offset, DataLen - io'[c].offset)
                       /\ c \in WriteFiles => req'[c].off = io'[c].offset
              \/ /\ req[c].res < 0 /\ io'[c].offset = io[c].offset /\ io'[c].error
                 /\ req'[c].op = "close"
<1>0. /\ c \in ChainCalls /\ req[c].op = "write" /\ req[c].done /\ CallbacksRun /\ Quiet
      /\ Types /\ io[c] \in Ios /\ req[c] \in Reqs
  BY Zenon DEF OnWrite, Called, Quiet, ShapeInv, Types
<1>1. io[c].result = "waiting" /\ c \in WriteFiles \cup AppendFiles /\ c \notin ReadFiles
  BY <1>0, KindFacts, KindsDiffer DEF ShapeInv, Shape
<1>2. CASE req[c].res > 0
  <2>1. PICK s : s = [io[c] EXCEPT !.offset = @ + req[c].res]
    BY Zenon
  <2>2. io[c].offset + req[c].res \in Nat
    BY <1>0, <1>2, SMTT(30) DEF Ios, Reqs
  <2>3. /\ s \in Ios /\ s.fd = io[c].fd /\ s.seen = io[c].seen /\ s.result = io[c].result
        /\ s.offset = io[c].offset + req[c].res /\ s.out = io[c].out /\ s.error = io[c].error
    BY <1>0, <2>1, <2>2, Zenon DEF Ios
  <2>4. PICK r : r = NextRequest(c, s)
    BY Zenon
  <2>5. Continue(c, s, r)
    BY <1>1, <1>2, <2>1, <2>4, Zenon DEF OnWrite, NextRequest
  <2>6. /\ r \in Reqs /\ ~r.done /\ r.res = 0 /\ r.fd = s.fd
        /\ s.offset >= DataLen => r.op = "close"
        /\ s.offset < DataLen =>
              r.op = "write" /\ r.data = Run(c, s.offset, DataLen - s.offset) /\ (c \in WriteFiles => r.off = s.offset)
    BY <1>0, <1>1, <2>3, <2>4, NextForms
  <2>7. Chained(c, s.result, s.fd) /\ io'[c] = s /\ req'[c] = r
    BY <1>0, <2>3, <2>5, <2>6, ChainForms, Zenon
  <2> QED BY <1>0, <1>1, <1>2, <2>3, <2>6, <2>7, Zenon
<1>3. CASE ~(req[c].res > 0)
  <2>2. PICK s : s = [io[c] EXCEPT !.error = TRUE]
    BY Zenon
  <2>3. /\ s \in Ios /\ s.fd = io[c].fd /\ s.seen = io[c].seen /\ s.result = io[c].result
        /\ s.offset = io[c].offset /\ s.out = io[c].out /\ s.error
    BY <1>0, <2>2, Zenon DEF Ios
  <2>4. PICK r : r = CloseReq(io[c].fd)
    BY Zenon
  <2>5. Continue(c, s, r)
    BY <1>3, <2>2, <2>4, Zenon DEF OnWrite
  <2>6. r \in Reqs /\ ~r.done /\ r.res = 0 /\ r.fd = s.fd /\ r.op = "close"
    BY <1>0, <2>3, <2>4, CloseReqForm DEF Ios
  <2>7. Chained(c, s.result, s.fd) /\ io'[c] = s /\ req'[c] = r
    BY <1>0, <2>3, <2>5, <2>6, ChainForms, Zenon
  <2>8. req[c].res < 0
    BY <1>0, <1>3 DEF ShapeInv, Shape
  <2> QED BY <1>0, <1>1, <2>3, <2>6, <2>7, <2>8, Zenon
<1> QED BY <1>2, <1>3, Zenon

\* on_read_close and on_write_close.
LEMMA OnCloseForms ==
    ASSUME ShapeInv, NEW c \in Calls, OnClose(c)
    PROVE  /\ c \in ChainCalls /\ req[c].op = "close" /\ req[c].done /\ CallbacksRun
           /\ Chained(c, IF io[c].error \/ req[c].res < 0 THEN "error" ELSE "ok", io[c].fd)
           /\ req'[c].op = "none" /\ io'[c].out = io[c].out /\ io'[c].seen = io[c].seen
           /\ (io'[c].error <=> io[c].error \/ req[c].res < 0)
<1>0. /\ c \in ChainCalls /\ req[c].op = "close" /\ req[c].done /\ CallbacksRun /\ Quiet
      /\ Types /\ io[c] \in Ios /\ req[c] \in Reqs
  BY Zenon DEF OnClose, Called, Quiet, ShapeInv, Types
<1>1. PICK b \in BOOLEAN : b <=> io[c].error \/ req[c].res < 0
  BY Zenon
<1>2. PICK s : s = [io[c] EXCEPT !.error = b]
  BY Zenon
<1>3. s \in Ios /\ s.fd = io[c].fd /\ s.seen = io[c].seen /\ s.out = io[c].out /\ s.error = b
  BY <1>0, <1>2, Zenon DEF Ios
<1>4. Finalize(c, s)
  BY <1>1, <1>2, Zenon DEF OnClose
<1> QED BY <1>0, <1>1, <1>3, <1>4, FinalForms

\* A chain keeps the shape of its call and of the others.
LEMMA ChainedShape ==
    ASSUME ShapeInv, NEW c \in Calls, NEW o \in {"waiting", "ok", "error"}, NEW fd, Chained(c, o, fd),
           UNCHANGED <<file, track, stolen>>,
           o = "waiting" <=> req'[c].op # "none", req'[c].op \in Ops(c) \cup {"none"},
           req'[c].op \in {"read", "write", "close"} => req'[c].fd = fd, io'[c].seen <= writes,
           req'[c].op = "open" => /\ io'[c].offset = 0 /\ io'[c].out = <<>> /\ ~io'[c].error
                                  /\ c \in WriteFiles => req'[c].n = 0,
           req'[c].op = "read" => req'[c].off \in Nat,
           req'[c].op = "write" => /\ io'[c].offset < DataLen
                                   /\ req'[c].data = Run(c, io'[c].offset, DataLen - io'[c].offset)
    PROVE  ShapeInv'
<1>1. /\ Quiet /\ c \in ChainCalls /\ Others(c) /\ io' \in [Calls -> Ios] /\ req' \in [Calls -> Reqs]
      /\ io'[c].result = o /\ io'[c].fd = fd /\ ~req'[c].done /\ req'[c].res = 0
  BY Zenon DEF Chained
<1>2. kind' = kind /\ writes' = writes /\ writes' \in Nat /\ writes' >= writes
  BY <1>1 DEF Quiet, ShapeInv, Types
<1>3. Types'
  BY <1>1, Zenon DEF Quiet, ShapeInv, Types
<1>4. /\ Openers' = Openers /\ ChainCalls' = ChainCalls /\ Creates' = Creates /\ WriteFiles' = WriteFiles
      /\ Ops(c)' = Ops(c)
  BY <1>2, SameKinds, Zenon
<1>5. c \notin Openers
  BY <1>1, KindsDiffer, Zenon DEF ShapeInv
<1>6. From(c)' = io'[c].offset /\ io'[c].offset \in Nat /\ DataLen \in Nat
  BY <1>1, <1>4, LengthsAssumption, Zenon DEF From, Ios
<1>7. req'[c].op = "write" => From(c)' \in 0 .. DataLen - 1 /\ req'[c].data = Run(c, From(c)', DataLen - From(c)')
  BY <1>6
<1>8. Shape(c)'
  BY <1>1, <1>2, <1>4, <1>5, <1>7, Zenon DEF Shape, Made
<1>9. \A e \in Calls : Shape(e)'
  BY <1>1, <1>2, <1>8, OtherShapes, Zenon
<1> QED BY <1>3, <1>9, Zenon DEF ShapeInv

\* read_file() and write_file() keep it.
LEMMA ChainShape ==
    ASSUME ShapeInv, NEW c \in Calls, UNCHANGED <<file, track, stolen>>,
           Chain(c) \/ (c \in ChainCalls /\ Begin(c))
    PROVE  ShapeInv'
<1>0. Types /\ Shape(c) /\ writes \in Nat /\ io[c] \in Ios /\ req[c] \in Reqs /\ DataLen \in Nat \ {0}
  BY LengthsAssumption, Zenon DEF ShapeInv, Types
<1>1. io[c].seen <= writes
  BY <1>0, Zenon DEF Shape
<1>2. c \in ChainCalls => /\ c \in ReadFiles \/ c \in WriteFiles \cup AppendFiles
                          /\ "open" \in Ops(c) /\ "close" \in Ops(c)
                          /\ c \in ReadFiles => "read" \in Ops(c)
                          /\ c \notin ReadFiles => "write" \in Ops(c)
  BY <1>0, KindFacts, Zenon DEF ChainCalls
<1>3. CASE c \in ChainCalls /\ Begin(c)
  <2>1. /\ Chained(c, "waiting", io[c].fd) /\ io'[c].offset = 0 /\ io'[c].out = <<>> /\ ~io'[c].error
        /\ io'[c].seen = io[c].seen /\ req'[c].op = "open" /\ (c \in WriteFiles => req'[c].n = 0)
    BY <1>3, BeginForms, Zenon
  <2> QED BY <1>1, <1>2, <1>3, <2>1, ChainedShape, Zenon
<1>4. CASE OnOpen(c)
  <2>1. CASE /\ Chained(c, "error", io[c].fd) /\ req'[c].op = "none" /\ io'[c].seen = io[c].seen
    BY <1>1, <2>1, ChainedShape, Zenon
  <2>2. CASE /\ Chained(c, "waiting", req[c].res)
             /\ io'[c].offset = 0 /\ io'[c].out = <<>> /\ ~io'[c].error /\ io'[c].seen = writes
             /\ req'[c].fd = req[c].res
             /\ c \in ReadFiles => req'[c].op = "read" /\ req'[c].off = 0 /\ req'[c].n = Chunk
             /\ c \notin ReadFiles => req'[c].op = "write" /\ req'[c].data = Run(c, 0, DataLen)
                                      /\ (c \in WriteFiles => req'[c].off = 0)
    <3>1. c \in ChainCalls /\ io'[c].seen <= writes
      BY <1>0, <2>2 DEF Chained
    <3>2. DataLen - io'[c].offset = DataLen /\ io'[c].offset < DataLen
      BY <1>0, <2>2
    <3>3. CASE c \in ReadFiles
      <4>1. req'[c].op = "read" /\ req'[c].off \in Nat /\ req'[c].op \in Ops(c)
        BY <1>2, <2>2, <3>1, <3>3
      <4> QED BY <2>2, <3>1, <4>1, ChainedShape, Zenon
    <3>4. CASE c \notin ReadFiles
      <4>1. req'[c].op = "write" /\ req'[c].data = Run(c, io'[c].offset, DataLen - io'[c].offset) /\ req'[c].op \in Ops(c)
        BY <1>2, <2>2, <3>1, <3>2, <3>4, Zenon
      <4> QED BY <2>2, <3>1, <3>2, <4>1, ChainedShape, Zenon
    <3> QED BY <3>3, <3>4, Zenon
  <2> QED BY <1>4, <2>1, <2>2, OnOpenForms, Zenon
<1>5. CASE OnRead(c)
  <2>1. /\ c \in ReadFiles /\ Chained(c, "waiting", io[c].fd) /\ io'[c].seen = io[c].seen
        /\ req'[c].fd = io[c].fd
        /\ \/ req'[c].op = "read" /\ req'[c].off = io'[c].offset
           \/ req'[c].op = "close"
    BY <1>5, OnReadForms, Zenon
  <2>2. c \in ChainCalls /\ io'[c].offset \in Nat
    BY <2>1, Zenon DEF Chained, Ios
  <2> QED BY <1>1, <1>2, <2>1, <2>2, ChainedShape, Zenon
<1>6. CASE OnWrite(c)
  <2>1. /\ c \in WriteFiles \cup AppendFiles /\ Chained(c, "waiting", io[c].fd)
        /\ io'[c].seen = io[c].seen /\ req'[c].fd = io[c].fd
        /\ \/ req'[c].op = "close"
           \/ /\ io'[c].offset < DataLen /\ req'[c].op = "write"
              /\ req'[c].data = Run(c, io'[c].offset, DataLen - io'[c].offset)
    <3>1. io[c].offset + req[c].res \in Int
      BY <1>0 DEF Ios, Reqs
    <3>2. io[c].offset + req[c].res >= DataLen \/ io[c].offset + req[c].res < DataLen
      BY <1>0, <3>1
    <3> QED BY <1>6, <3>2, OnWriteForms, Zenon
  <2>2. c \in ChainCalls /\ c \notin ReadFiles
    BY <1>0, <2>1, KindsDiffer, Zenon DEF Chained
  <2> QED BY <1>1, <1>2, <2>1, <2>2, ChainedShape, Zenon
<1>7. CASE OnClose(c)
  <2>1. PICK o \in {"ok", "error"} :
           Chained(c, o, io[c].fd) /\ req'[c].op = "none" /\ io'[c].seen = io[c].seen
    BY <1>7, OnCloseForms, Zenon
  <2> QED BY <1>1, <2>1, ChainedShape, Zenon
<1> QED BY <1>3, <1>4, <1>5, <1>6, <1>7, Zenon DEF Chain

-----------------------------------------------------------------------------
(* The pool *)

\* What a thread of the pool does to a request, and to the file and the descriptors.
Executed(c, res, data) ==
    /\ UNCHANGED <<loop, kind, io, file, track>> /\ CallbacksRun /\ ~req[c].done
    /\ req' \in [Calls -> Reqs] /\ \A e \in Calls \ {c} : req'[e] = req[e]
    /\ req'[c].op = req[c].op /\ req'[c].fd = req[c].fd /\ req'[c].off = req[c].off
    /\ req'[c].n = req[c].n /\ req'[c].done = TRUE /\ req'[c].res = res /\ req'[c].data = data

\* The five ways a request is executed.
LEMMA PoolForms ==
    ASSUME ShapeInv, NEW c \in Calls, Pool(c)
    PROVE  \/ \E d \in Descriptors :
                 /\ Executed(c, d, <<>>) /\ req[c].op = "open" /\ stolen' = stolen
                 /\ owner[d] = None /\ owner' = [owner EXCEPT ![d] = c]
                 /\ content' = IF req[c].n = 0 THEN <<>> ELSE content
                 /\ writes' = IF req[c].n = 0 THEN writes + 1 ELSE writes
           \/ \E k \in Nat :
                 /\ Executed(c, k, SubSeq(content, req[c].off + 1, req[c].off + k)) /\ req[c].op = "read"
                 /\ req[c].off \in Nat /\ (k > 0 => req[c].off + k <= Len(content))
                 /\ k = 0 => req[c].off >= Len(content)
                 /\ UNCHANGED <<owner, content, writes, stolen>>
           \/ \E k \in 1 .. DataLen - From(c), off \in Nat :
                 /\ Executed(c, k, req[c].data) /\ req[c].op = "write"
                 /\ req[c].fd \in Descriptors /\ owner[req[c].fd] \in Calls \ ReadFiles
                 /\ off = WriteOffset(c)
                 /\ content' = Overwritten(content, off, Run(c, From(c), k))
                 /\ writes' = writes + 1 /\ UNCHANGED <<owner, stolen>>
           \/ \E res \in {0, -1} :
                 /\ Executed(c, res, <<>>) /\ req[c].op = "close"
                 /\ req[c].fd \in Descriptors /\ owner[req[c].fd] # None
                 /\ owner' = [owner EXCEPT ![req[c].fd] = None]
                 /\ stolen' <=> stolen \/ (c \in Closers /\ owner[req[c].fd] \notin Openers)
                 /\ UNCHANGED <<content, writes>>
           \/ /\ Executed(c, -1, req[c].data) /\ req[c].op # "none"
              /\ req[c].op = "close" => ~(req[c].fd \in Descriptors /\ owner[req[c].fd] # None)
              /\ UNCHANGED <<owner, content, writes, stolen>>
<1>0. /\ Types /\ Shape(c) /\ io[c] \in Ios /\ req[c] \in Reqs /\ UNCHANGED <<loop, kind, io, file, track>>
      /\ <<>> \in Seq(Bytes) /\ stolen \in BOOLEAN /\ content \in Seq(Bytes)
  BY DEF ShapeInv, Types, Pool
<1>1. CASE ExecOpen(c)
  <2>1. PICK d \in Free : Completed(c, d, <<>>) /\ owner' = [owner EXCEPT ![d] = c]
    BY <1>1, Zenon DEF ExecOpen
  <2>2. d \in Descriptors /\ owner[d] = None /\ d \in Int
    BY DescriptorsAssumption DEF Free
  <2>3. CallbacksRun /\ ~req[c].done /\ req[c].op = "open"
    BY <1>1, Zenon DEF ExecOpen, Pending
  <2>4. Executed(c, d, <<>>)
    BY <1>0, <2>1, <2>2, <2>3, CompletedForms, Zenon DEF Executed
  <2>5. stolen' = stolen
    BY <1>0, <2>3, Zenon DEF Pool, ExecClose, Pending
  <2> QED BY <1>1, <2>1, <2>2, <2>3, <2>4, <2>5, Zenon DEF ExecOpen
<1>2. CASE ExecRead(c)
  <2>1. CallbacksRun /\ ~req[c].done /\ req[c].op = "read" /\ UNCHANGED <<owner, content, writes>>
    BY <1>2, Zenon DEF ExecRead, Pending
  <2>2. req[c].off \in Nat /\ Len(content) \in Nat /\ req[c].n \in Nat
    BY <1>0, <2>1 DEF Shape, Reqs
  <2>3. PICK left \in Int : left = Len(content) - req[c].off
    BY <2>2
  <2>4. PICK k \in IF left <= 0 THEN {0} ELSE {i \in 1 .. req[c].n : i <= left} :
           Completed(c, k, SubSeq(content, req[c].off + 1, req[c].off + k))
    BY <1>2, <2>3, Zenon DEF ExecRead
  <2>6. k \in Nat /\ (k > 0 => req[c].off + k <= Len(content)) /\ (k = 0 => req[c].off >= Len(content))
    BY <2>2, <2>3, <2>4
  <2>7. PICK data \in Seq(Bytes) : data = SubSeq(content, req[c].off + 1, req[c].off + k)
    <3>1. PICK off \in Nat : off = req[c].off
      BY <2>2, Zenon
    <3>2. CASE k = 0
      <4>1. SubSeq(content, off + 1, off + k) = <<>>
        BY <1>0, <3>1, <3>2
      <4> QED BY <1>0, <3>1, <4>1, Zenon
    <3>3. CASE k > 0
      <4>1. \A i \in off + 1 .. off + k : content[i] \in Bytes
        BY <1>0, <2>6, <3>1, <3>3
      <4>2. SubSeq(content, off + 1, off + k) \in Seq(Bytes)
        BY <1>0, <2>6, <3>1, <3>3, <4>1
      <4> QED BY <3>1, <4>2, Zenon
    <3> QED BY <2>6, <3>2, <3>3
  <2>8. Executed(c, k, data)
    <3>1. Completed(c, k, data) /\ k \in Int
      BY <2>4, <2>6, <2>7
    <3> QED BY <1>0, <2>1, <3>1, CompletedForms, Zenon DEF Executed
  <2>9. stolen' = stolen
    BY <1>0, <2>1, Zenon DEF Pool, ExecClose, Pending
  <2> QED BY <2>1, <2>2, <2>6, <2>7, <2>8, <2>9, Zenon
<1>3. CASE ExecWrite(c)
  <2>1. CallbacksRun /\ ~req[c].done /\ req[c].op = "write" /\ UNCHANGED owner /\ writes' = writes + 1
    BY <1>3, Zenon DEF ExecWrite, Pending
  <2>2. From(c) \in 0 .. DataLen - 1 /\ req[c].data = Run(c, From(c), DataLen - From(c)) /\ DataLen \in Nat
    BY <1>0, <2>1, LengthsAssumption, Zenon DEF Shape
  <2>3. DataLen - From(c) \in Nat
    BY <2>2
  <2>4. Len(req[c].data) = DataLen - From(c)
    <3>1. From(c) \in Nat /\ From(c) + (DataLen - From(c)) <= DataLen
      BY <2>2
    <3>2. Len(Run(c, From(c), DataLen - From(c))) = DataLen - From(c)
      BY <2>3, <3>1, RunFacts, Zenon
    <3> QED BY <2>2, <3>2, Zenon
  <2>5. PICK k \in 1 .. DataLen - From(c) :
           /\ Completed(c, k, req[c].data)
           /\ content' = Overwritten(content, WriteOffset(c), SubSeq(req[c].data, 1, k))
    BY <1>3, <2>4, Zenon DEF ExecWrite
  <2>6. SubSeq(req[c].data, 1, k) = Run(c, From(c), k)
    <3>1. PICK m \in Nat : m = DataLen - From(c)
      BY <2>3, Zenon
    <3>2. k \in 0 .. m /\ req[c].data = Run(c, From(c), m) /\ From(c) \in Nat /\ From(c) + m <= DataLen
      BY <2>2, <3>1
    <3> QED BY <3>2, RunFacts, ZenonT(30)
  <2>7. PICK off \in Nat : off = WriteOffset(c)
    BY <1>0 DEF Reqs, WriteOffset
  <2>8. req[c].data \in Seq(Bytes) /\ k \in Int
    BY <1>0, <2>5 DEF Reqs
  <2>9. Executed(c, k, req[c].data)
    BY <1>0, <2>1, <2>5, <2>8, CompletedForms, ZenonT(30) DEF Executed
  <2>10. stolen' = stolen
    BY <1>0, <2>1, Zenon DEF Pool, ExecClose, Pending
  <2>11. req[c].fd \in Descriptors /\ owner[req[c].fd] \in Calls \ ReadFiles
    BY <1>0, <1>3, Zenon DEF ExecWrite, IsOpen, Types, ReadOnly, ReadFiles
  <2> QED BY <2>1, <2>5, <2>6, <2>7, <2>9, <2>10, <2>11, Zenon
<1>4. CASE ExecClose(c)
  <2>1. CallbacksRun /\ ~req[c].done /\ req[c].op = "close" /\ UNCHANGED <<content, writes>>
    BY <1>4, Zenon DEF ExecClose, Pending
  <2>2. PICK res \in {0, -1} : Completed(c, res, <<>>)
    BY <1>4, Zenon DEF ExecClose
  <2>3. Executed(c, res, <<>>)
    <3>1. res \in Int
      BY <2>2
    <3> QED BY <1>0, <2>1, <2>2, <3>1, CompletedForms, Zenon DEF Executed
  <2>4. stolen' <=> stolen \/ (c \in Closers /\ owner[req[c].fd] \notin Openers)
    BY <1>4, Zenon DEF Pool
  <2> QED BY <1>4, <2>1, <2>2, <2>3, <2>4, Zenon DEF ExecClose, IsOpen
<1>5. CASE ExecFails(c)
  <2>1. /\ CallbacksRun /\ ~req[c].done /\ req[c].op # "none" /\ UNCHANGED <<owner, content, writes>>
        /\ req[c].op = "close" => ~(req[c].fd \in Descriptors /\ owner[req[c].fd] # None)
    BY <1>5, Zenon DEF ExecFails, IsOpen
  <2>2. Completed(c, -1, req[c].data) /\ req[c].data \in Seq(Bytes) /\ -1 \in Int
    BY <1>0, <1>5 DEF ExecFails, Reqs
  <2>3. Executed(c, -1, req[c].data)
    BY <1>0, <2>1, <2>2, CompletedForms, ZenonT(30) DEF Executed
  <2>4. stolen' = stolen
    BY <1>0, <2>1, Zenon DEF Pool, ExecClose, Pending, IsOpen
  <2> QED BY <2>1, <2>3, <2>4, Zenon
<1> QED BY <1>1, <1>2, <1>3, <1>4, <1>5, Zenon DEF Pool, Exec

\* The pool keeps the shape.
LEMMA PoolShape ==
    ASSUME ShapeInv, NEW c \in Calls, Pool(c)
    PROVE  ShapeInv'
<1>0. /\ Types /\ Shape(c) /\ io[c] \in Ios /\ req[c] \in Reqs /\ content \in Seq(Bytes) /\ writes \in Nat
      /\ owner \in [Descriptors -> Calls \cup {None}] /\ stolen \in BOOLEAN
  BY Zenon DEF ShapeInv, Types
<1>1. ASSUME NEW res \in Int, NEW data, Executed(c, res, data), owner' \in [Descriptors -> Calls \cup {None}],
             content' \in Seq(Bytes), writes' \in Nat, writes' >= writes, stolen' \in BOOLEAN,
             req[c].op # "none", req[c].op = "open" => res = -1 \/ res \in Descriptors,
             req[c].op = "read" => res >= -1,
             req[c].op = "write" => data = req[c].data /\ (res = -1 \/ res \in 1 .. DataLen - From(c))
      PROVE  ShapeInv'
  <2>1. /\ UNCHANGED <<loop, kind, io, file, track>> /\ req' \in [Calls -> Reqs]
        /\ req'[c].op = req[c].op /\ req'[c].fd = req[c].fd /\ req'[c].off = req[c].off
        /\ req'[c].n = req[c].n /\ req'[c].done = TRUE /\ req'[c].res = res /\ req'[c].data = data
        /\ Others(c)
    BY <1>1, Zenon DEF Executed, Others
  <2>2. Types'
    BY <1>0, <1>1, <2>1, Zenon DEF Types
  <2>3. /\ Openers' = Openers /\ ChainCalls' = ChainCalls /\ Creates' = Creates /\ WriteFiles' = WriteFiles
        /\ Ops(c)' = Ops(c)
    BY <2>1, SameKinds, Zenon
  <2>4. From(c)' = From(c)
    BY <2>1, <2>3, Zenon DEF From
  <2>5. io[c].seen <= writes'
    BY <1>0, <1>1, SMTT(30) DEF Shape, Ios
  <2>6. Shape(c)'
    BY <1>0, <1>1, <2>1, <2>3, <2>4, <2>5 DEF Shape, Made
  <2>7. \A e \in Calls : Shape(e)'
    BY <1>1, <2>1, <2>6, OtherShapes, Zenon
  <2> QED BY <2>2, <2>7, Zenon DEF ShapeInv
<1>2. ASSUME NEW d \in Descriptors, Executed(c, d, <<>>), req[c].op = "open", stolen' = stolen,
             owner' = [owner EXCEPT ![d] = c],
             content' = (IF req[c].n = 0 THEN <<>> ELSE content),
             writes' = (IF req[c].n = 0 THEN writes + 1 ELSE writes)
      PROVE  ShapeInv'
  <2>1. /\ d \in Int /\ owner' \in [Descriptors -> Calls \cup {None}] /\ writes' \in Nat /\ writes' >= writes
        /\ stolen' \in BOOLEAN
    BY <1>0, <1>2, DescriptorsAssumption
  <2>2. content' \in Seq(Bytes)
    BY <1>0, <1>2
  <2> QED BY <1>1, <1>2, <2>1, <2>2, Zenon
<1>3. ASSUME NEW k \in Nat, NEW data, Executed(c, k, data), req[c].op = "read",
             UNCHANGED <<owner, content, writes, stolen>>
      PROVE  ShapeInv'
  <2>1. k \in Int /\ k >= -1 /\ writes' >= writes
    BY <1>0, <1>3
  <2> QED BY <1>0, <1>1, <1>3, <2>1, Zenon
<1>4. ASSUME NEW k \in 1 .. DataLen - From(c), NEW off \in Nat, Executed(c, k, req[c].data),
             req[c].op = "write", content' = Overwritten(content, off, Run(c, From(c), k)), writes' = writes + 1,
             UNCHANGED <<owner, stolen>>
      PROVE  ShapeInv'
  <2>1. k \in Nat /\ k \in Int /\ From(c) \in Nat /\ From(c) + k <= DataLen
    <3>1. From(c) \in 0 .. DataLen - 1 /\ DataLen \in Nat
      BY <1>0, <1>4, LengthsAssumption, Zenon DEF Shape
    <3> QED BY <1>4, <3>1
  <2>2. content' \in Seq(Bytes)
    BY <1>0, <1>4, <2>1, OverwrittenFacts, Zenon DEF Overwrote
  <2>3. writes' \in Nat /\ writes' >= writes
    BY <1>0, <1>4
  <2> QED BY <1>0, <1>1, <1>4, <2>1, <2>2, <2>3, Zenon
<1>5. ASSUME NEW res \in {0, -1}, Executed(c, res, <<>>), req[c].op = "close", req[c].fd \in Descriptors,
             owner' = [owner EXCEPT ![req[c].fd] = None], stolen' \in BOOLEAN, UNCHANGED <<content, writes>>
      PROVE  ShapeInv'
  <2>1. res \in Int /\ writes' >= writes /\ owner' \in [Descriptors -> Calls \cup {None}]
    BY <1>0, <1>5
  <2> QED BY <1>0, <1>1, <1>5, <2>1, Zenon
<1>6. ASSUME Executed(c, -1, req[c].data), req[c].op # "none", UNCHANGED <<owner, content, writes, stolen>>
      PROVE  ShapeInv'
  <2>1. -1 \in Int /\ -1 >= -1 /\ writes' >= writes
    BY <1>0, <1>6
  <2> QED BY <1>0, <1>1, <1>6, <2>1, Zenon
<1>7. stolen' \in BOOLEAN
  BY Zenon DEF Pool
<1> QED BY <1>2, <1>3, <1>4, <1>5, <1>6, <1>7, PoolForms, Zenon

-----------------------------------------------------------------------------
(* The fibers that use a File *)

\* The call returns o.
Returned(c, o) ==
    /\ Quiet /\ Others(c) /\ io' \in [Calls -> Ios] /\ req' \in [Calls -> Reqs]
    /\ io'[c].result = o /\ io'[c].fd = io[c].fd /\ io'[c].offset = io[c].offset
    /\ io'[c].out = io[c].out /\ io'[c].error = io[c].error /\ io'[c].seen = io[c].seen
    /\ req'[c].op = "none" /\ ~req'[c].done /\ req'[c].res = 0

\* The call waits for a request.
Waits(c, op, fd, off) ==
    /\ Quiet /\ Others(c) /\ io' \in [Calls -> Ios] /\ req' \in [Calls -> Reqs]
    /\ io'[c].result = "waiting" /\ io'[c].offset = off
    /\ io'[c].out = io[c].out /\ io'[c].error = io[c].error /\ io'[c].seen = io[c].seen
    /\ req'[c].op = op /\ req'[c].fd = fd /\ req'[c].off = off /\ ~req'[c].done /\ req'[c].res = 0

Tracks == [base : Nat, log : Seq(Entries), overlapped : BOOLEAN]

\* The cursor is moved by k.
Counted(c, k) ==
    /\ c \in Cursored =>
          /\ file' \in Files /\ file'.exists = file.exists /\ file'.fd = file.fd
          /\ file'.closed = file.closed /\ file'.cursor = file.cursor + k
          /\ track' \in Tracks /\ track'.log = Append(track.log, Entry(c, k))
          /\ track'.base = track.base /\ track'.overlapped = track.overlapped
    /\ c \notin Cursored => UNCHANGED <<file, track>>

\* The File is closed.
Shut ==
    /\ file' \in Files /\ file'.exists = file.exists /\ file'.cursor = file.cursor
    /\ file'.fd = -1 /\ file'.closed

\* A call that returns.
LEMMA Returning ==
    ASSUME Types, NEW c \in Calls, NEW o \in {"ok", "error", "undefined"}, Return(c, o), Quiet
    PROVE  Returned(c, o)
<1>1. /\ io' \in [Calls -> Ios] /\ req' \in [Calls -> Reqs] /\ Others(c)
      /\ io'[c].result = o /\ io'[c].fd = io[c].fd /\ io'[c].offset = io[c].offset
      /\ io'[c].out = io[c].out /\ io'[c].error = io[c].error /\ io'[c].seen = io[c].seen
      /\ req'[c].op = "none" /\ req'[c].done = FALSE /\ req'[c].res = 0
  BY ReturnForms, Zenon
<1> QED BY <1>1, Zenon DEF Returned

\* A call that waits.
LEMMA Waiting ==
    ASSUME Types, NEW c \in Calls, NEW r \in Reqs, r.off \in Nat, ~r.done, r.res = 0, Wait(c, r), Quiet
    PROVE  Waits(c, r.op, r.fd, r.off) /\ req'[c] = r
<1>1. /\ io' \in [Calls -> Ios] /\ req' \in [Calls -> Reqs] /\ Others(c)
      /\ io'[c].result = "waiting" /\ io'[c].fd = io[c].fd /\ io'[c].offset = r.off
      /\ io'[c].out = io[c].out /\ io'[c].error = io[c].error /\ io'[c].seen = io[c].seen
      /\ req'[c] = r
  BY WaitForms, Zenon
<1> QED BY <1>1, Zenon DEF Waits

\* File::open and create_file up to the wait.
LEMMA OpenFileForms ==
    ASSUME ShapeInv, NEW c \in Calls, OpenFile(c)
    PROVE  /\ c \in Creates \cup Openers /\ is_loop_alive /\ io[c].result = "new"
           /\ Waits(c, "open", req'[c].fd, 0) /\ UNCHANGED <<file, track, stolen>>
<1>0. Types /\ Quiet
  BY Zenon DEF ShapeInv, OpenFile, Quiet
<1>1. PICK b \in BOOLEAN : Wait(c, OpenReq(b))
  BY Zenon DEF OpenFile
<1>2. PICK r : r = OpenReq(b)
  BY Zenon
<1>3. r \in Reqs /\ r.op = "open" /\ ~r.done /\ r.res = 0 /\ r.off = 0 /\ r.off \in Nat
  <2>1. /\ r \in Reqs /\ r.op = "open" /\ r.done = FALSE /\ r.res = 0 /\ r.off = 0
    BY <1>2, OpenReqForm, Zenon
  <2> QED BY <2>1
<1>4. Waits(c, r.op, r.fd, r.off) /\ req'[c] = r
  BY <1>0, <1>1, <1>2, <1>3, Waiting, Zenon
<1> QED BY <1>3, <1>4, Zenon DEF OpenFile

\* File::open after it.
LEMMA OpenedForms ==
    ASSUME ShapeInv, NEW c \in Calls, Opened(c)
    PROVE  /\ c \in Openers /\ req[c].op = "open" /\ req[c].done /\ FibersRun /\ ~file.exists
           /\ UNCHANGED <<track, stolen>>
           /\ \/ req[c].res < 0 /\ Returned(c, "error") /\ file' = file
              \/ ~is_loop_alive /\ Returned(c, "undefined") /\ file' = file
              \/ /\ req[c].res \in Descriptors /\ Returned(c, "ok")
                 /\ file' \in Files /\ file'.exists /\ file'.fd = req[c].res
                 /\ file'.cursor = file.cursor /\ file'.closed = file.closed
<1>0. /\ Types /\ Quiet /\ c \in Openers /\ req[c].op = "open" /\ req[c].done /\ FibersRun
      /\ req[c] \in Reqs /\ file \in Files /\ UNCHANGED <<track, stolen>>
  BY Zenon DEF ShapeInv, Types, Opened, Quiet, Resumed
<1>1. (req[c].res = -1 \/ req[c].res \in Descriptors) /\ ~file.exists
  BY <1>0, Zenon DEF ShapeInv, Shape
<1>2. CASE req[c].res < 0
  <2>1. Return(c, "error") /\ file' = file
    BY <1>2, Zenon DEF Opened
  <2> QED BY <1>0, <1>1, <1>2, <2>1, Returning, Zenon
<1>3. CASE ~(req[c].res < 0) /\ is_loop_alive
  <2>1. Return(c, "ok") /\ file' = [file EXCEPT !.exists = TRUE, !.fd = req[c].res]
    BY <1>3, Zenon DEF Opened
  <2>2. /\ file' \in Files /\ file'.exists /\ file'.fd = req[c].res
        /\ file'.cursor = file.cursor /\ file'.closed = file.closed
    BY <1>0, <2>1, Zenon DEF Files, Reqs
  <2>3. Returned(c, "ok") /\ req[c].res \in Descriptors
    BY <1>0, <1>1, <1>3, <2>1, Returning
  <2> QED BY <1>0, <1>1, <2>2, <2>3, Zenon
<1>4. CASE ~(req[c].res < 0) /\ ~is_loop_alive
  <2>1. Return(c, "undefined") /\ file' = file
    BY <1>4, Zenon DEF Opened
  <2> QED BY <1>0, <1>1, <1>4, <2>1, Returning, Zenon
<1> QED BY <1>2, <1>3, <1>4, Zenon

\* create_file after fs_open.
LEMMA CreatedForms ==
    ASSUME ShapeInv, NEW c \in Calls, Created(c)
    PROVE  /\ c \in Creates /\ req[c].op = "open" /\ req[c].done /\ UNCHANGED <<file, track, stolen>>
           /\ \/ req[c].res < 0 /\ Returned(c, "error")
              \/ /\ req[c].res \in Descriptors /\ is_loop_alive /\ Waits(c, "close", req[c].res, 0)
              \/ ~is_loop_alive /\ Returned(c, "undefined")
<1>0. /\ Types /\ Quiet /\ c \in Creates /\ req[c].op = "open" /\ req[c].done
      /\ req[c] \in Reqs /\ UNCHANGED <<file, track, stolen>>
  BY Zenon DEF ShapeInv, Types, Created, Quiet, Resumed
<1>1. req[c].res = -1 \/ req[c].res \in Descriptors
  BY <1>0, Zenon DEF ShapeInv, Shape
<1>2. CASE req[c].res < 0
  <2>1. Return(c, "error")
    BY <1>2, Zenon DEF Created
  <2> QED BY <1>0, <1>2, <2>1, Returning, Zenon
<1>3. CASE ~(req[c].res < 0) /\ is_loop_alive
  <2>1. PICK r : r = CloseReq(req[c].res)
    BY Zenon
  <2>2. r \in Reqs /\ r.op = "close" /\ ~r.done /\ r.res = 0 /\ r.fd = req[c].res /\ r.off = 0 /\ r.off \in Nat
    <3>1. req[c].res \in Int
      BY <1>0, Zenon DEF Reqs
    <3>2. r \in Reqs /\ r.op = "close" /\ ~r.done /\ r.res = 0 /\ r.fd = req[c].res /\ r.off = 0
      BY <2>1, <3>1, CloseReqForm, Zenon
    <3> QED BY <3>2
  <2>3. Wait(c, r)
    BY <1>3, <2>1, Zenon DEF Created
  <2>4. Waits(c, r.op, r.fd, r.off)
    BY <1>0, <2>2, <2>3, Waiting, Zenon
  <2> QED BY <1>0, <1>1, <1>3, <2>2, <2>4
<1>4. CASE ~(req[c].res < 0) /\ ~is_loop_alive
  <2>1. Return(c, "undefined")
    BY <1>4, Zenon DEF Created
  <2> QED BY <1>0, <1>4, <2>1, Returning, Zenon
<1> QED BY <1>2, <1>3, <1>4, Zenon

\* create_file after fs_close.
LEMMA CreatedClosedForms ==
    ASSUME ShapeInv, NEW c \in Calls, CreatedClosed(c)
    PROVE  /\ c \in Creates /\ req[c].op = "close" /\ req[c].done /\ UNCHANGED <<file, track, stolen>>
           /\ \E o \in {"ok", "error"} : Returned(c, o)
<1>0. /\ Types /\ Quiet /\ c \in Creates /\ req[c].op = "close" /\ req[c].done
      /\ UNCHANGED <<file, track, stolen>>
  BY Zenon DEF ShapeInv, Types, CreatedClosed, Quiet, Resumed
<1>1. PICK o \in {"ok", "error"} : Return(c, o)
  BY Zenon DEF CreatedClosed
<1>2. Returned(c, o)
  BY <1>0, <1>1, Returning, Zenon
<1> QED BY <1>0, <1>1, <1>2, Zenon

\* The reads and the writes up to the wait.
LEMMA UseForms ==
    ASSUME ShapeInv, NEW c \in Calls, Use(c)
    PROVE  /\ c \in Readers \cup Writers /\ file.exists /\ io[c].result = "new" /\ UNCHANGED <<file, stolen>>
           /\ track' \in Tracks /\ track'.base = track.base /\ track'.log = track.log
           /\ (track'.overlapped <=> track.overlapped \/ (c \in Cursored /\ Overlaps))
           /\ \/ Returned(c, "error")
              \/ /\ is_loop_alive /\ ~file.closed
                 /\ c \in Readers => Waits(c, "read", file.fd, Offset(c))
                 /\ c \notin Readers => Waits(c, "write", file.fd, Offset(c)) /\ req'[c].data = Run(c, 0, DataLen)
<1>0. /\ Types /\ Quiet /\ c \in Readers \cup Writers /\ file.exists /\ io[c].result = "new"
      /\ UNCHANGED <<file, stolen>> /\ file \in Files /\ track \in Tracks
  BY Zenon DEF ShapeInv, Types, Tracks, Use, Quiet, Calling
<1>1. /\ track' \in Tracks /\ track'.base = track.base /\ track'.log = track.log
      /\ (track'.overlapped <=> track.overlapped \/ (c \in Cursored /\ Overlaps))
  <2>1. PICK b \in BOOLEAN : b <=> track.overlapped \/ (c \in Cursored /\ Overlaps)
    BY Zenon
  <2>2. track' = [track EXCEPT !.overlapped = b]
    BY <2>1, Zenon DEF Use
  <2> QED BY <1>0, <2>1, <2>2, Zenon DEF Tracks
<1>2. CASE file.closed \/ ~is_loop_alive
  <2>1. Return(c, "error")
    BY <1>2, Zenon DEF Use
  <2> QED BY <1>0, <1>1, <2>1, Returning, Zenon
<1>3. CASE ~(file.closed \/ ~is_loop_alive)
  <2>1. /\ file.fd \in Int /\ Offset(c) \in Nat /\ Offset(c) \in Nat \cup {-1} /\ Chunk \in Nat
        /\ DataLen \in Nat
    BY <1>0, LengthsAssumption, Zenon DEF Files, Offset
  <2>2. CASE c \in Readers
    <3>1. PICK r : r = ReadReq(file.fd, Offset(c), Chunk)
      BY Zenon
    <3>2. r \in Reqs /\ r.op = "read" /\ ~r.done /\ r.res = 0 /\ r.fd = file.fd /\ r.off = Offset(c)
      BY <2>1, <3>1, ReadReqForm
    <3>3. Wait(c, r)
      BY <1>3, <2>2, <3>1, Zenon DEF Use
    <3>4. r.off \in Nat
      BY <2>1, <3>2, Zenon
    <3>5. Waits(c, r.op, r.fd, r.off)
      BY <1>0, <3>2, <3>3, <3>4, Waiting, Zenon
    <3> QED BY <1>0, <1>1, <1>3, <2>2, <3>2, <3>5, Zenon
  <2>3. CASE c \notin Readers
    <3>1. PICK r : r = WriteReq(file.fd, Offset(c), Data(c))
      BY Zenon
    <3>2. Data(c) = Run(c, 0, DataLen) /\ Data(c) \in Seq(Bytes)
      <4>1. 0 \in Nat /\ 0 + DataLen <= DataLen
        BY <2>1
      <4>2. Run(c, 0, DataLen) \in Seq(Bytes)
        BY <2>1, <4>1, RunFacts, Zenon
      <4> QED BY <4>2, DataFacts, Zenon
    <3>3. /\ r \in Reqs /\ r.op = "write" /\ ~r.done /\ r.res = 0 /\ r.fd = file.fd /\ r.off = Offset(c)
          /\ r.data = Data(c)
      BY <2>1, <3>1, <3>2, WriteReqForm
    <3>4. Wait(c, r)
      BY <1>3, <2>3, <3>1, Zenon DEF Use
    <3>5. r.off \in Nat
      BY <2>1, <3>3, Zenon
    <3>6. Waits(c, r.op, r.fd, r.off) /\ req'[c] = r
      BY <1>0, <3>3, <3>4, <3>5, Waiting, Zenon
    <3> QED BY <1>0, <1>1, <1>3, <2>3, <3>2, <3>3, <3>6, Zenon
  <2> QED BY <2>2, <2>3, Zenon
<1> QED BY <1>2, <1>3, Zenon

\* The cursor after a wait.
LEMMA Counting ==
    ASSUME Types, NEW c \in Calls, NEW k \in Nat, Count(c, k)
    PROVE  Counted(c, k)
<1>0. file \in Files /\ track \in Tracks /\ Len(content) - k \in Int /\ io[c].offset \in Int
  BY DEF Types, Tracks, Ios
<1>1. CASE c \notin Cursored
  BY <1>1, Zenon DEF Count, Logged, Counted
<1>2. CASE c \in Cursored
  <2>1. /\ file' = [file EXCEPT !.cursor = @ + k]
        /\ track' = [track EXCEPT !.log = Append(@, Entry(c, k))]
    BY <1>2, Zenon DEF Count, Logged
  <2>2. PICK e \in Entries : e = Entry(c, k)
    <3>1. PICK at \in Int : at = IF c \in Writers /\ Appending THEN Len(content) - k ELSE io[c].offset
      BY <1>0, Zenon
    <3> QED BY <3>1, Zenon DEF Entries, Entry
  <2>3. Append(track.log, e) \in Seq(Entries)
    BY <1>0, <2>2 DEF Tracks
  <2>4. /\ track' \in Tracks /\ track'.log = Append(track.log, Entry(c, k))
        /\ track'.base = track.base /\ track'.overlapped = track.overlapped
    BY <1>0, <2>1, <2>2, <2>3, Zenon DEF Tracks
  <2>5. /\ file' \in Files /\ file'.exists = file.exists /\ file'.fd = file.fd
        /\ file'.closed = file.closed /\ file'.cursor = file.cursor + k
    BY <1>0, <2>1 DEF Files
  <2> QED BY <1>2, <2>4, <2>5, Zenon DEF Counted
<1> QED BY <1>1, <1>2, Zenon

\* read_some() and read_at() after the wait.
LEMMA UsedReadForms ==
    ASSUME ShapeInv, NEW c \in Calls, UsedRead(c)
    PROVE  /\ c \in Readers /\ req[c].op = "read" /\ req[c].done /\ file.exists /\ stolen' = stolen
           /\ \/ Returned(c, "error") /\ UNCHANGED <<file, track>>
              \/ req[c].res \in Nat /\ Returned(c, "ok") /\ Counted(c, req[c].res)
<1>0. /\ Types /\ Quiet /\ c \in Readers /\ req[c].op = "read" /\ req[c].done /\ stolen' = stolen
      /\ req[c] \in Reqs
  BY Zenon DEF ShapeInv, Types, UsedRead, Quiet, Resumed
<1>1. file.exists
  BY <1>0, KindsDiffer, Zenon DEF ShapeInv, Shape, Made
<1>2. CASE req[c].res < 0
  <2>1. Return(c, "error") /\ UNCHANGED <<file, track>>
    BY <1>2, Zenon DEF UsedRead
  <2> QED BY <1>0, <1>1, <2>1, Returning, Zenon
<1>3. CASE ~(req[c].res < 0)
  <2>1. Return(c, "ok") /\ Count(c, req[c].res)
    BY <1>3, Zenon DEF UsedRead
  <2>2. req[c].res \in Nat
    BY <1>0, <1>3 DEF Reqs
  <2> QED BY <1>0, <1>1, <2>1, <2>2, Returning, Counting, Zenon
<1> QED BY <1>2, <1>3, Zenon

\* The writes of a File, of which the last part is done or not.
LEMMA WritersForm ==
    ASSUME ShapeInv, NEW c \in Writers, req[c].done
    PROVE  /\ req[c].op = "write" /\ req[c].off \in Nat /\ file.exists /\ io[c].result = "waiting"
           /\ From(c) = req[c].off - io[c].offset /\ From(c) \in 0 .. DataLen - 1
           /\ req[c].res = -1 \/ (req[c].res \in 1 .. DataLen - From(c) /\ Written(c) = From(c) + req[c].res)
<1>0. c \in Calls /\ Types /\ Shape(c) /\ c \notin ChainCalls \cup Creates \cup Openers
  BY KindsDiffer, Zenon DEF ShapeInv
<1>1. req[c].op = "write" /\ io[c].result = "waiting"
  BY <1>0, KindFacts DEF Shape
<1>2. req[c].off \in Nat /\ file.exists
  BY <1>0, <1>1, Zenon DEF Shape, Made, Types, Reqs
<1>3. From(c) = req[c].off - io[c].offset
  BY <1>0, Zenon DEF From
<1> QED BY <1>0, <1>1, <1>2, <1>3, Zenon DEF Shape, Written

\* on_fs_write goes on.
LEMMA OnFsWriteForms ==
    ASSUME ShapeInv, NEW c \in Calls, OnFsWrite(c)
    PROVE  /\ c \in Writers /\ req[c].op = "write" /\ req[c].done /\ CallbacksRun /\ Quiet /\ Others(c)
           /\ io' \in [Calls -> Ios] /\ req' \in [Calls -> Reqs] /\ UNCHANGED <<file, track, stolen>>
           /\ io'[c] = io[c] /\ req[c].res > 0 /\ file.exists
           /\ \E w \in 1 .. DataLen - 1 :
                 /\ w = From(c) + req[c].res /\ req'[c].op = "write" /\ req'[c].fd = req[c].fd
                 /\ req'[c].off = io[c].offset + w /\ req'[c].data = Run(c, w, DataLen - w)
                 /\ ~req'[c].done /\ req'[c].res = 0
<1>0. /\ Types /\ Quiet /\ c \in Writers /\ req[c].done /\ req[c].res >= 0 /\ Written(c) < DataLen
      /\ CallbacksRun /\ UNCHANGED <<file, track, stolen>> /\ io[c] \in Ios /\ req[c] \in Reqs
      /\ DataLen \in Nat
  BY LengthsAssumption, Zenon DEF ShapeInv, Types, OnFsWrite, Short, Quiet
<1>1. /\ req[c].op = "write" /\ file.exists /\ From(c) \in 0 .. DataLen - 1
      /\ req[c].res = -1 \/ (req[c].res \in 1 .. DataLen - From(c) /\ Written(c) = From(c) + req[c].res)
  BY <1>0, WritersForm, Zenon
<1>2. PICK w \in 1 .. DataLen - 1 : w = From(c) + req[c].res /\ w = Written(c) /\ req[c].res > 0
  BY <1>0, <1>1
<1>3. PICK data : data = SubSeq(Data(c), w + 1, DataLen)
  BY Zenon
<1>3a. w \in 0 .. DataLen - 1 /\ DataLen - w \in Nat
  BY <1>0
<1>4. data = Run(c, w, DataLen - w) /\ DataLen - w \in Nat
  BY <1>3, <1>3a, DataFacts, Zenon
<1>5. data \in Seq(Bytes)
  <2>1. w \in Nat /\ w + (DataLen - w) <= DataLen
    BY <1>0, <1>3a
  <2> QED BY <1>4, <2>1, RunFacts, Zenon
<1>6. PICK off \in Nat : off = io[c].offset + w
  BY <1>0 DEF Ios
<1>7. PICK r : r = WriteReq(req[c].fd, off, data)
  BY Zenon
<1>8. /\ r \in Reqs /\ r.op = "write" /\ ~r.done /\ r.res = 0 /\ r.fd = req[c].fd /\ r.off = off
      /\ r.data = data
  <2>1. req[c].fd \in Int /\ off \in Nat \cup {-1}
    BY <1>0, Zenon DEF Reqs
  <2> QED BY <1>5, <1>7, <2>1, WriteReqForm
<1>9. Continue(c, io[c], r)
  BY <1>2, <1>3, <1>6, <1>7, Zenon DEF OnFsWrite
<1>10. io' \in [Calls -> Ios] /\ req' \in [Calls -> Reqs] /\ io'[c] = io[c] /\ req'[c] = r /\ Others(c)
  BY <1>0, <1>8, <1>9, ContinueForms, Zenon
<1> QED BY <1>0, <1>1, <1>2, <1>4, <1>6, <1>8, <1>10, Zenon

\* write_some() and write_at() after the wait.
LEMMA UsedWriteForms ==
    ASSUME ShapeInv, NEW c \in Calls, UsedWrite(c)
    PROVE  /\ c \in Writers /\ req[c].op = "write" /\ req[c].done /\ file.exists /\ stolen' = stolen
           /\ \/ Returned(c, "error") /\ UNCHANGED <<file, track>>
              \/ /\ Returned(c, "ok") /\ Counted(c, DataLen) /\ req[c].res > 0
                 /\ req[c].off - io[c].offset + req[c].res = DataLen
<1>0. /\ Types /\ Quiet /\ c \in Writers /\ req[c].op = "write" /\ req[c].done /\ stolen' = stolen
      /\ req[c] \in Reqs /\ DataLen \in Nat /\ io[c] \in Ios
  BY LengthsAssumption, Zenon DEF ShapeInv, Types, UsedWrite, Quiet, Resumed
<1>1. /\ file.exists /\ From(c) = req[c].off - io[c].offset /\ From(c) \in 0 .. DataLen - 1
      /\ req[c].res = -1 \/ (req[c].res \in 1 .. DataLen - From(c) /\ Written(c) = From(c) + req[c].res)
  BY <1>0, WritersForm, Zenon
<1>2. CASE req[c].res < 0
  <2>1. Return(c, "error") /\ UNCHANGED <<file, track>>
    BY <1>2, Zenon DEF UsedWrite
  <2> QED BY <1>0, <1>1, <2>1, Returning, Zenon
<1>3. CASE ~(req[c].res < 0)
  <2>1. Return(c, "ok") /\ Count(c, Written(c))
    BY <1>3, Zenon DEF UsedWrite
  <2>2. req[c].res \in 1 .. DataLen - From(c) /\ Written(c) = From(c) + req[c].res
    BY <1>1, <1>3
  <2>3. ~(Written(c) < DataLen)
    BY <1>0, <1>3, <2>2 DEF UsedWrite, Short, Reqs
  <2>4. Written(c) = DataLen /\ req[c].res > 0 /\ req[c].off - io[c].offset + req[c].res = DataLen
    BY <1>0, <1>1, <2>2, <2>3
  <2> QED BY <1>0, <1>1, <2>1, <2>4, Returning, Counting, Zenon
<1> QED BY <1>2, <1>3, Zenon

\* seek().
LEMMA SeekForms ==
    ASSUME ShapeInv, NEW c \in Calls, Seek(c)
    PROVE  /\ c \in Seeks /\ file.exists /\ io[c].result = "new" /\ stolen' = stolen
           /\ \/ Returned(c, "error") /\ UNCHANGED <<file, track>>
              \/ /\ Returned(c, "ok")
                 /\ file' \in Files /\ file'.exists = file.exists /\ file'.fd = file.fd
                 /\ file'.closed = file.closed /\ file'.cursor = 1
                 /\ track' \in Tracks /\ track'.base = 1 /\ track'.log = <<>>
                 /\ (track'.overlapped <=> track.overlapped \/ Overlaps)
<1>0. /\ Types /\ Quiet /\ c \in Seeks /\ file.exists /\ io[c].result = "new"
      /\ stolen' = stolen /\ file \in Files /\ track \in Tracks
  BY Zenon DEF ShapeInv, Types, Tracks, Seek, Quiet, Calling
<1>1. CASE file.closed \/ ~is_loop_alive
  <2>1. Return(c, "error") /\ UNCHANGED <<file, track>>
    BY <1>1, Zenon DEF Seek
  <2> QED BY <1>0, <2>1, Returning, Zenon
<1>2. CASE ~(file.closed \/ ~is_loop_alive)
  <2>1. PICK b \in BOOLEAN : b <=> track.overlapped \/ Overlaps
    BY Zenon
  <2>2. Return(c, "ok") /\ file' = [file EXCEPT !.cursor = 1] /\ track' = [base |-> 1, log |-> <<>>, overlapped |-> b]
    BY <1>2, <2>1, Zenon DEF Seek
  <2>3. track' \in Tracks /\ track'.base = 1 /\ track'.log = <<>> /\ (track'.overlapped <=> track.overlapped \/ Overlaps)
    BY <2>1, <2>2 DEF Tracks
  <2>4. /\ file' \in Files /\ file'.exists = file.exists /\ file'.fd = file.fd
        /\ file'.closed = file.closed /\ file'.cursor = 1
    BY <1>0, <2>2, Zenon DEF Files
  <2> QED BY <1>0, <2>2, <2>3, <2>4, Returning, Zenon
<1> QED BY <1>1, <1>2, Zenon

\* close() up to the wait.
LEMMA CloseFileForms ==
    ASSUME ShapeInv, NEW c \in Calls, CloseFile(c)
    PROVE  /\ c \in Closers /\ file.exists /\ io[c].result = "new" /\ UNCHANGED <<track, stolen>>
           /\ \/ file.closed /\ Returned(c, "ok") /\ file' = file
              \/ ~is_loop_alive /\ Returned(c, "ok") /\ Shut
              \/ is_loop_alive /\ ~file.closed /\ Waits(c, "close", file.fd, 0) /\ file' = file
<1>0. /\ Types /\ Quiet /\ c \in Closers /\ file.exists /\ io[c].result = "new"
      /\ UNCHANGED <<track, stolen>> /\ file \in Files /\ file.fd \in Int
  BY Zenon DEF ShapeInv, Types, Files, CloseFile, Quiet, Calling
<1>1. CASE file.closed
  <2>1. Return(c, "ok") /\ file' = file
    BY <1>1, Zenon DEF CloseFile
  <2> QED BY <1>0, <1>1, <2>1, Returning, Zenon
<1>2. CASE ~file.closed /\ ~is_loop_alive
  <2>1. Return(c, "ok") /\ file' = [file EXCEPT !.fd = -1, !.closed = TRUE]
    BY <1>2, Zenon DEF CloseFile
  <2>2. Shut
    <3>1. -1 \in Int /\ TRUE \in BOOLEAN
      OBVIOUS
    <3>2. /\ file' \in Files /\ file'.exists = file.exists /\ file'.cursor = file.cursor
          /\ file'.fd = -1 /\ file'.closed
      BY <1>0, <2>1, <3>1, Zenon DEF Files
    <3> QED BY <3>2, Zenon DEF Shut
  <2> QED BY <1>0, <1>2, <2>1, <2>2, Returning, Zenon
<1>3. CASE ~file.closed /\ is_loop_alive
  <2>1. PICK r : r = CloseReq(file.fd)
    BY Zenon
  <2>2. r \in Reqs /\ r.op = "close" /\ ~r.done /\ r.res = 0 /\ r.fd = file.fd /\ r.off = 0
    BY <1>0, <2>1, CloseReqForm, Zenon
  <2>3. Wait(c, r) /\ file' = file
    BY <1>3, <2>1, Zenon DEF CloseFile
  <2>4. r.off \in Nat
    BY <2>2
  <2>5. Waits(c, r.op, r.fd, r.off)
    BY <1>0, <2>2, <2>3, <2>4, Waiting, Zenon
  <2> QED BY <1>0, <1>3, <2>2, <2>3, <2>5, Zenon
<1> QED BY <1>1, <1>2, <1>3, Zenon

\* close() after it.
LEMMA ClosedFileForms ==
    ASSUME ShapeInv, NEW c \in Calls, ClosedFile(c)
    PROVE  /\ c \in Closers /\ file.exists /\ req[c].op = "close" /\ req[c].done
           /\ UNCHANGED <<track, stolen>>
           /\ \/ req[c].res < 0 /\ Returned(c, "error") /\ file' = file
              \/ req[c].res >= 0 /\ Returned(c, "ok") /\ Shut
<1>0. /\ Types /\ Quiet /\ c \in Closers /\ req[c].op = "close" /\ req[c].done
      /\ UNCHANGED <<track, stolen>> /\ file \in Files /\ req[c] \in Reqs
  BY Zenon DEF ShapeInv, Types, ClosedFile, Quiet, Resumed
<1>1. file.exists
  BY <1>0, KindsDiffer, Zenon DEF ShapeInv, Shape, Made
<1>2. CASE req[c].res < 0
  <2>1. Return(c, "error") /\ file' = file
    BY <1>2, Zenon DEF ClosedFile
  <2> QED BY <1>0, <1>1, <1>2, <2>1, Returning, Zenon
<1>3. CASE ~(req[c].res < 0)
  <2>1. Return(c, "ok") /\ file' = [file EXCEPT !.fd = -1, !.closed = TRUE]
    BY <1>3, Zenon DEF ClosedFile
  <2>2. Shut
    <3>1. -1 \in Int /\ TRUE \in BOOLEAN
      OBVIOUS
    <3>2. /\ file' \in Files /\ file'.exists = file.exists /\ file'.cursor = file.cursor
          /\ file'.fd = -1 /\ file'.closed
      BY <1>0, <2>1, <3>1, Zenon DEF Files
    <3> QED BY <3>2, Zenon DEF Shut
  <2>3. req[c].res >= 0
    BY <1>0, <1>3 DEF Reqs
  <2> QED BY <1>0, <1>1, <2>1, <2>2, <2>3, Returning, Zenon
<1> QED BY <1>2, <1>3, Zenon

\* A call that returns has no request.
LEMMA ReturnedShape ==
    ASSUME ShapeInv, NEW c \in Calls, NEW o \in {"ok", "error", "undefined"}, Returned(c, o),
           file' \in Files, track' \in Tracks, stolen' \in BOOLEAN,
           file'.exists = file.exists \/ (c \in Openers /\ file'.exists),
           c \in Openers => (file'.exists <=> o = "ok"), file'.exists \/ c \in Creates \cup Openers
    PROVE  ShapeInv'
<1>1. /\ Quiet /\ Others(c) /\ io' \in [Calls -> Ios] /\ req' \in [Calls -> Reqs]
      /\ io'[c].result = o /\ io'[c].seen = io[c].seen
      /\ req'[c].op = "none" /\ ~req'[c].done /\ req'[c].res = 0
  BY Zenon DEF Returned
<1>2. io[c].seen <= writes /\ writes \in Nat
  BY Zenon DEF ShapeInv, Shape, Types
<1>3. kind' = kind /\ writes' = writes /\ writes' \in Nat /\ writes' >= writes
  BY <1>1, <1>2 DEF Quiet
<1>4. Openers' = Openers /\ ChainCalls' = ChainCalls /\ Creates' = Creates
  BY <1>3, SameKinds, Zenon
<1>5. Shape(c)'
  BY <1>1, <1>2, <1>3, <1>4, Zenon DEF Shape, Made
<1>6. \A e \in Calls : Shape(e)'
  BY <1>1, <1>3, <1>5, OtherShapes, Zenon
<1>7. Types'
  BY <1>1, Zenon DEF Quiet, ShapeInv, Types, Tracks
<1> QED BY <1>6, <1>7, Zenon DEF ShapeInv

\* A call that waits has one.
LEMMA WaitsShape ==
    ASSUME ShapeInv, NEW c \in Calls, NEW op \in Ops(c), NEW fd, NEW off \in Nat, Waits(c, op, fd, off),
           op # "none", UNCHANGED <<file, stolen>>, track' \in Tracks, c \notin ChainCalls,
           file.exists \/ c \in Creates \cup Openers,
           io[c].result \in {"new", "waiting"},
           op = "open" => off = 0 /\ io[c].result = "new",
           op = "write" => req'[c].data = Run(c, 0, DataLen)
    PROVE  ShapeInv'
<1>1. /\ Quiet /\ Others(c) /\ io' \in [Calls -> Ios] /\ req' \in [Calls -> Reqs]
      /\ io'[c].result = "waiting" /\ io'[c].seen = io[c].seen /\ io'[c].offset = off
      /\ io'[c].out = io[c].out /\ io'[c].error = io[c].error
      /\ req'[c].op = op /\ req'[c].off = off /\ ~req'[c].done /\ req'[c].res = 0
  BY Zenon DEF Waits
<1>2. io[c].seen <= writes /\ writes \in Nat /\ DataLen \in Nat \ {0}
  BY LengthsAssumption, Zenon DEF ShapeInv, Shape, Types
<1>3. kind' = kind /\ writes' = writes /\ writes' \in Nat /\ writes' >= writes
  BY <1>1, <1>2 DEF Quiet
<1>4. /\ Openers' = Openers /\ ChainCalls' = ChainCalls /\ Creates' = Creates /\ WriteFiles' = WriteFiles
      /\ Ops(c)' = Ops(c)
  BY <1>3, SameKinds, Zenon
<1>5. From(c)' = 0
  BY <1>1, <1>4 DEF From
<1>6. op = "open" => io[c].out = <<>> /\ ~io[c].error
  BY Zenon DEF ShapeInv, Shape, Made
<1>7. c \notin WriteFiles /\ (c \in Openers => ~file.exists)
  BY Zenon DEF ShapeInv, Shape, ChainCalls
<1>8. DataLen - 0 = DataLen /\ 0 \in 0 .. DataLen - 1
  BY <1>2
<1>9. op = "write" => From(c)' \in 0 .. DataLen - 1 /\ req'[c].data = Run(c, From(c)', DataLen - From(c)')
  BY <1>5, <1>8, Zenon
<1>10. off # -1
  OBVIOUS
<1>11. Shape(c)'
  BY <1>1, <1>2, <1>3, <1>4, <1>6, <1>7, <1>9, <1>10, Zenon DEF Shape, Made
<1>12. \A e \in Calls : Shape(e)'
  BY <1>1, <1>3, <1>11, OtherShapes, Zenon
<1>13. Types'
  BY <1>1, Zenon DEF Quiet, ShapeInv, Types, Tracks
<1> QED BY <1>12, <1>13, Zenon DEF ShapeInv

\* Every step keeps the shape of the calls.
LEMMA ShapeStep ==
    ASSUME ShapeInv, [Next]_vars
    PROVE  ShapeInv'
<1>0. Types /\ file \in Files /\ track \in Tracks /\ stolen \in BOOLEAN
  BY Zenon DEF ShapeInv, Types, Tracks
<1>1. ASSUME NEW c \in Calls, Pool(c) PROVE ShapeInv'
  BY <1>1, PoolShape, Zenon
<1>2. ASSUME NEW c \in Calls, Chain(c) \/ (c \in ChainCalls /\ Begin(c)), UNCHANGED <<file, track, stolen>>
      PROVE  ShapeInv'
  BY <1>2, ChainShape, Zenon
<1>3. ASSUME NEW c \in Calls, OnFsWrite(c) PROVE ShapeInv'
  <2>1. /\ c \in Writers /\ req[c].op = "write" /\ Quiet /\ Others(c)
        /\ io' \in [Calls -> Ios] /\ req' \in [Calls -> Reqs] /\ UNCHANGED <<file, track, stolen>>
        /\ io'[c] = io[c]
    BY <1>3, OnFsWriteForms, Zenon
  <2>2. PICK w \in 1 .. DataLen - 1 :
           /\ req'[c].op = "write" /\ req'[c].off = io[c].offset + w /\ req'[c].data = Run(c, w, DataLen - w)
           /\ ~req'[c].done /\ req'[c].res = 0
    BY <1>3, OnFsWriteForms, Zenon
  <2>3. /\ io[c].seen <= writes /\ writes \in Nat /\ io[c].offset \in Nat /\ DataLen \in Nat /\ Shape(c)
        /\ c \notin ChainCalls
    BY <1>0, <2>1, LengthsAssumption, KindsDiffer, ZenonT(30) DEF ShapeInv, Shape, Types, Ios
  <2>4. kind' = kind /\ writes' = writes /\ writes' \in Nat /\ writes' >= writes
    BY <2>1, <2>3 DEF Quiet
  <2>5. /\ Openers' = Openers /\ ChainCalls' = ChainCalls /\ Creates' = Creates /\ WriteFiles' = WriteFiles
        /\ Ops(c)' = Ops(c)
    BY <2>4, SameKinds, Zenon
  <2>6. From(c)' = w
    BY <2>1, <2>2, <2>3, <2>5 DEF From
  <2>7. From(c)' \in 0 .. DataLen - 1 /\ req'[c].data = Run(c, From(c)', DataLen - From(c)') /\ req'[c].off # -1
    BY <2>2, <2>3, <2>6
  <2>8. Shape(c)'
    BY <2>1, <2>2, <2>3, <2>4, <2>5, <2>7, Zenon DEF Shape, Made
  <2>9. \A e \in Calls : Shape(e)'
    BY <2>1, <2>4, <2>8, OtherShapes, Zenon
  <2>10. Types'
    BY <2>1, Zenon DEF Quiet, ShapeInv, Types
  <2> QED BY <2>9, <2>10, Zenon DEF ShapeInv
<1>4. ASSUME NEW c \in Calls, OpenFile(c) PROVE ShapeInv'
  <2>1. /\ c \in Creates \cup Openers /\ io[c].result = "new"
        /\ Waits(c, "open", req'[c].fd, 0) /\ UNCHANGED <<file, track, stolen>>
    BY <1>4, OpenFileForms, Zenon
  <2>2. "open" \in Ops(c) /\ c \notin ChainCalls /\ 0 \in Nat
    BY <1>0, <2>1, KindFacts, KindsDiffer
  <2> QED BY <1>0, <2>1, <2>2, WaitsShape, Zenon
<1>5. ASSUME NEW c \in Calls, Opened(c) PROVE ShapeInv'
  <2>1. /\ c \in Openers /\ ~file.exists /\ UNCHANGED <<track, stolen>>
        /\ \/ Returned(c, "error") /\ file' = file
           \/ Returned(c, "undefined") /\ file' = file
           \/ Returned(c, "ok") /\ file' \in Files /\ file'.exists
    BY <1>5, OpenedForms, Zenon
  <2> QED BY <1>0, <2>1, ReturnedShape, Zenon
<1>6. ASSUME NEW c \in Calls, Created(c) PROVE ShapeInv'
  <2>1. /\ c \in Creates /\ req[c].op = "open" /\ UNCHANGED <<file, track, stolen>>
        /\ \/ Returned(c, "error")
           \/ Waits(c, "close", req[c].res, 0)
           \/ Returned(c, "undefined")
    BY <1>6, CreatedForms, Zenon
  <2>2. "close" \in Ops(c) /\ c \notin ChainCalls /\ 0 \in Nat /\ c \notin Openers
    BY <1>0, <2>1, KindFacts, KindsDiffer
  <2>3. io[c].result = "waiting"
    BY <2>1, Zenon DEF ShapeInv, Shape
  <2>4. CASE Waits(c, "close", req[c].res, 0)
    BY <1>0, <2>1, <2>2, <2>3, <2>4, WaitsShape, Zenon
  <2>5. CASE Returned(c, "error") \/ Returned(c, "undefined")
    BY <1>0, <2>1, <2>2, <2>5, ReturnedShape, Zenon
  <2> QED BY <2>1, <2>4, <2>5, Zenon
<1>7. ASSUME NEW c \in Calls, CreatedClosed(c) PROVE ShapeInv'
  <2>1. c \in Creates /\ UNCHANGED <<file, track, stolen>>
    BY <1>7, CreatedClosedForms, Zenon
  <2>2. PICK o \in {"ok", "error"} : Returned(c, o)
    BY <1>7, CreatedClosedForms, Zenon
  <2>3. c \notin Openers
    BY <1>0, <2>1, KindsDiffer, Zenon
  <2> QED BY <1>0, <2>1, <2>2, <2>3, ReturnedShape, Zenon
<1>8. ASSUME NEW c \in Calls, Use(c) PROVE ShapeInv'
  <2>1. /\ c \in Readers \cup Writers /\ file.exists /\ io[c].result = "new" /\ UNCHANGED <<file, stolen>>
        /\ track' \in Tracks
        /\ \/ Returned(c, "error")
           \/ /\ c \in Readers => Waits(c, "read", file.fd, Offset(c))
              /\ c \notin Readers => Waits(c, "write", file.fd, Offset(c)) /\ req'[c].data = Run(c, 0, DataLen)
    BY <1>8, UseForms, Zenon
  <2>2. c \notin ChainCalls \cup Openers \cup Creates /\ Offset(c) \in Nat
    BY <1>0, <2>1, KindsDiffer, Zenon DEF Offset, Files
  <2>3. CASE Returned(c, "error")
    BY <1>0, <2>1, <2>2, <2>3, ReturnedShape, Zenon
  <2>4. CASE c \in Readers /\ Waits(c, "read", file.fd, Offset(c))
    <3>1. "read" \in Ops(c)
      BY <1>0, <2>4, KindFacts, Zenon
    <3> QED BY <2>1, <2>2, <2>4, <3>1, WaitsShape, Zenon
  <2>5. CASE c \notin Readers /\ Waits(c, "write", file.fd, Offset(c)) /\ req'[c].data = Run(c, 0, DataLen)
    <3>1. "write" \in Ops(c)
      BY <1>0, <2>1, <2>5, KindFacts, Zenon
    <3> QED BY <2>1, <2>2, <2>5, <3>1, WaitsShape, Zenon
  <2> QED BY <2>1, <2>3, <2>4, <2>5, Zenon
<1>9. ASSUME NEW c \in Calls, UsedRead(c) \/ UsedWrite(c) PROVE ShapeInv'
  <2>1. PICK k \in Nat :
           /\ c \in Readers \cup Writers /\ file.exists /\ stolen' = stolen
           /\ \/ Returned(c, "error") /\ UNCHANGED <<file, track>>
              \/ Returned(c, "ok") /\ Counted(c, k)
    <3>1. CASE UsedRead(c)
      <4>1. CASE req[c].res \in Nat
        BY <3>1, <4>1, UsedReadForms, Zenon
      <4>2. CASE req[c].res \notin Nat
        BY <3>1, <4>2, UsedReadForms, Zenon
      <4> QED BY <4>1, <4>2, Zenon
    <3>2. CASE UsedWrite(c)
      BY <3>2, UsedWriteForms, LengthsAssumption, Zenon
    <3> QED BY <1>9, <3>1, <3>2, Zenon
  <2>2. c \notin Openers
    BY <1>0, <2>1, KindsDiffer, Zenon
  <2>3. Counted(c, k) => file' \in Files /\ file'.exists = file.exists /\ track' \in Tracks
    BY <1>0, Zenon DEF Counted
  <2> QED BY <1>0, <2>1, <2>2, <2>3, ReturnedShape, Zenon
<1>10. ASSUME NEW c \in Calls, Seek(c) PROVE ShapeInv'
  <2>1. /\ c \in Seeks /\ file.exists /\ stolen' = stolen
        /\ \/ Returned(c, "error") /\ UNCHANGED <<file, track>>
           \/ Returned(c, "ok") /\ file' \in Files /\ file'.exists = file.exists /\ track' \in Tracks
    BY <1>10, SeekForms, Zenon
  <2>2. c \notin Openers
    BY <1>0, <2>1, KindsDiffer, Zenon
  <2> QED BY <1>0, <2>1, <2>2, ReturnedShape, Zenon
<1>11. ASSUME NEW c \in Calls, CloseFile(c) PROVE ShapeInv'
  <2>1. /\ c \in Closers /\ file.exists /\ io[c].result = "new" /\ UNCHANGED <<track, stolen>>
        /\ \/ Returned(c, "ok") /\ file' = file
           \/ Returned(c, "ok") /\ Shut
           \/ Waits(c, "close", file.fd, 0) /\ file' = file
    BY <1>11, CloseFileForms, ZenonT(30)
  <2>2. c \notin Openers \cup ChainCalls /\ "close" \in Ops(c) /\ 0 \in Nat
    BY <1>0, <2>1, KindsDiffer, KindFacts
  <2>3. CASE Waits(c, "close", file.fd, 0) /\ file' = file
    BY <1>0, <2>1, <2>2, <2>3, WaitsShape, Zenon
  <2>4. CASE Returned(c, "ok") /\ (file' = file \/ Shut)
    BY <1>0, <2>1, <2>2, <2>4, ReturnedShape, Zenon DEF Shut
  <2> QED BY <2>1, <2>3, <2>4, Zenon
<1>12. ASSUME NEW c \in Calls, ClosedFile(c) PROVE ShapeInv'
  <2>1. /\ c \in Closers /\ file.exists /\ UNCHANGED <<track, stolen>>
        /\ \/ Returned(c, "error") /\ file' = file
           \/ Returned(c, "ok") /\ Shut
    BY <1>12, ClosedFileForms, Zenon
  <2>2. c \notin Openers
    BY <1>0, <2>1, KindsDiffer, Zenon
  <2> QED BY <1>0, <2>1, <2>2, ReturnedShape, Zenon DEF Shut
<1>13. ASSUME UNCHANGED <<kind, fsVars, io, file, track, stolen>>, loop' \in {"running", "dying", "dead"}
       PROVE  ShapeInv'
  <2>1. Types'
    BY <1>0, <1>13, ZenonT(30) DEF Types, fsVars
  <2>2. ASSUME NEW c \in Calls PROVE Shape(c)'
    <3>1. Shape(c)
      BY Zenon DEF ShapeInv
    <3>2. /\ Openers' = Openers /\ ChainCalls' = ChainCalls /\ Creates' = Creates /\ WriteFiles' = WriteFiles
          /\ Ops(c)' = Ops(c)
      BY <1>13, SameKinds, Zenon
    <3>3. From(c)' = From(c)
      BY <1>13, <3>2, Zenon DEF From, fsVars
    <3> QED BY <1>13, <3>1, <3>2, <3>3 DEF Shape, Made, fsVars
  <2> QED BY <2>1, <2>2, Zenon DEF ShapeInv
<1>14. CASE LoopDies \/ LoopDead
  BY <1>13, <1>14, Zenon DEF LoopDies, LoopDead
<1>15. CASE UNCHANGED vars
  BY <1>0, <1>13, <1>15, Zenon DEF vars, Types
<1>16. ChainCalls \subseteq Calls /\ FileCalls \subseteq Calls
  BY <1>0, KindsDiffer, Zenon DEF FileCalls
<1> QED BY <1>1, <1>2, <1>3, <1>4, <1>5, <1>6, <1>7, <1>8, <1>9, <1>10, <1>11, <1>12, <1>14, <1>15, <1>16, SMTT(30)
        DEF Next, Callback, Resume

\* At first there is no file, no request and no descriptor.
LEMMA FileInit ==
    ASSUME Init
    PROVE  /\ ShapeInv /\ writes = 0 /\ owner = [d \in Descriptors |-> None] /\ ~file.exists /\ ~file.closed
           /\ file.cursor = 0 /\ track.base = 0 /\ track.log = <<>> /\ stolen = FALSE
           /\ \A c \in Calls : req[c].op = "none" /\ io[c].result = "new"
<1>1. NoReq \in Reqs /\ NoReq.op = "none" /\ NoReq.done = FALSE /\ NoReq.res = 0
  BY NoReqForm, Zenon
<1>2. /\ NoIo \in Ios /\ NoIo.result = "new" /\ NoIo.offset = 0 /\ NoIo.out = <<>> /\ NoIo.error = FALSE
      /\ NoIo.seen = 0
  <2>1. <<>> \in Seq(Bytes) /\ -1 \in Int
    OBVIOUS
  <2> QED BY <2>1, Zenon DEF NoIo, Ios
<1>3. /\ req \in [Calls -> Reqs] /\ io \in [Calls -> Ios] /\ \A c \in Calls : req[c] = NoReq /\ io[c] = NoIo
  BY <1>1, <1>2, Zenon DEF Init, FsInit
<1>4. file \in Files /\ ~file.exists /\ ~file.closed /\ file.cursor = 0
  BY DEF Init, Files
<1>5. track \in [base : Nat, log : Seq(Entries), overlapped : BOOLEAN] /\ track.base = 0 /\ track.log = <<>>
  <2>1. <<>> \in Seq(Entries)
    OBVIOUS
  <2> QED BY <2>1, Zenon DEF Init
<1>6. content \in Seq(Bytes)
  <2>1. {Initial[i] : i \in DOMAIN Initial} \subseteq Bytes
    BY Zenon DEF Bytes
  <2> QED BY <2>1, InitialAssumption DEF Init, FsInit
<1>7. Types
  BY <1>3, <1>4, <1>5, <1>6, ZenonT(30) DEF Init, FsInit, Types
<1>8. ASSUME NEW c \in Calls PROVE Shape(c)
  BY <1>1, <1>2, <1>3, <1>4 DEF Shape, Made, Init, FsInit
<1> QED BY <1>1, <1>2, <1>3, <1>4, <1>5, <1>7, <1>8, ZenonT(30) DEF ShapeInv, Init, FsInit

\* Each call has the shape of its kind: what it waits for, and what it is told.
THEOREM FileShapes == Spec => []ShapeInv
<1>1. Init => ShapeInv
  BY FileInit, Zenon
<1>2. ShapeInv /\ [Next]_vars => ShapeInv'
  BY ShapeStep, Zenon
<1> QED BY <1>1, <1>2, PTL DEF Spec

-----------------------------------------------------------------------------
(* What read_file() and write_file() leave *)

\* A step of a fiber that uses a File, or of its callback.
Fiber(c) ==
    \/ OnFsWrite(c) \/ OpenFile(c) \/ Opened(c) \/ Created(c) \/ CreatedClosed(c) \/ Use(c) \/ UsedRead(c)
    \/ UsedWrite(c) \/ Seek(c) \/ CloseFile(c) \/ ClosedFile(c)

\* The steps of the program, and who takes them.
LEMMA StepCases ==
    ASSUME ShapeInv, [Next]_vars
    PROVE  \/ \E c \in Calls : Pool(c)
           \/ \E c \in Calls : /\ Chain(c) \/ (c \in ChainCalls /\ Begin(c))
                               /\ UNCHANGED <<file, track, stolen>>
           \/ \E c \in Calls : Fiber(c)
           \/ UNCHANGED <<kind, fsVars, io, file, track, stolen>>
<1>1. ChainCalls \subseteq Calls /\ FileCalls \subseteq Calls
  BY KindsDiffer, Zenon DEF FileCalls, ShapeInv
<1> QED BY <1>1, Zenon DEF Next, Callback, Resume, Fiber, LoopDies, LoopDead, vars

\* A fiber does not touch the file, and is not a chain.
LEMMA FiberActs ==
    ASSUME ShapeInv, NEW c \in Calls, Fiber(c)
    PROVE  Others(c) /\ Quiet /\ Made(c)' /\ ~req'[c].done /\ c \notin ChainCalls /\ stolen' = stolen
<1>0. Types
  BY Zenon DEF ShapeInv
<1>1. CASE OnFsWrite(c)
  <2>1. /\ c \in Writers /\ Others(c) /\ Quiet /\ stolen' = stolen /\ ~req'[c].done
        /\ io'[c] = io[c] /\ req[c].op = "write"
    BY <1>1, OnFsWriteForms, Zenon
  <2>2. io[c].result = "waiting" /\ c \notin ChainCalls
    BY <1>0, <2>1, KindsDiffer, Zenon DEF ShapeInv, Shape
  <2> QED BY <2>1, <2>2, Zenon DEF Made
<1>2. CASE OpenFile(c)
  <2>1. c \in Creates \cup Openers /\ stolen' = stolen /\ Waits(c, "open", req'[c].fd, 0)
    BY <1>2, OpenFileForms, Zenon
  <2> QED BY <1>0, <2>1, KindsDiffer, Zenon DEF Waits, Made
<1>3. CASE Opened(c)
  <2>1. /\ c \in Openers /\ stolen' = stolen
        /\ Returned(c, "error") \/ Returned(c, "undefined") \/ Returned(c, "ok")
    BY <1>3, OpenedForms, Zenon
  <2> QED BY <1>0, <2>1, KindsDiffer, Zenon DEF Returned, Made
<1>4. CASE Created(c)
  <2>1. /\ c \in Creates /\ stolen' = stolen
        /\ Returned(c, "error") \/ Waits(c, "close", req[c].res, 0) \/ Returned(c, "undefined")
    BY <1>4, CreatedForms, Zenon
  <2> QED BY <1>0, <2>1, KindsDiffer, Zenon DEF Returned, Waits, Made
<1>5. CASE CreatedClosed(c)
  <2>1. c \in Creates /\ stolen' = stolen /\ (Returned(c, "error") \/ Returned(c, "ok"))
    BY <1>5, CreatedClosedForms, Zenon
  <2> QED BY <1>0, <2>1, KindsDiffer, Zenon DEF Returned, Made
<1>6. CASE Use(c)
  <2>1. /\ c \in Readers \cup Writers /\ stolen' = stolen
        /\ \/ Returned(c, "error") \/ Waits(c, "read", file.fd, Offset(c))
           \/ Waits(c, "write", file.fd, Offset(c))
    BY <1>6, UseForms, Zenon
  <2> QED BY <1>0, <2>1, KindsDiffer, Zenon DEF Returned, Waits, Made
<1>7. CASE UsedRead(c) \/ UsedWrite(c)
  <2>1. c \in Readers \cup Writers /\ stolen' = stolen /\ (Returned(c, "error") \/ Returned(c, "ok"))
    BY <1>7, UsedReadForms, UsedWriteForms, Zenon
  <2> QED BY <1>0, <2>1, KindsDiffer, Zenon DEF Returned, Made
<1>8. CASE Seek(c)
  <2>1. c \in Seeks /\ stolen' = stolen /\ (Returned(c, "error") \/ Returned(c, "ok"))
    BY <1>8, SeekForms, Zenon
  <2> QED BY <1>0, <2>1, KindsDiffer, Zenon DEF Returned, Made
<1>9. CASE CloseFile(c)
  <2>1. c \in Closers /\ stolen' = stolen /\ (Returned(c, "ok") \/ Waits(c, "close", file.fd, 0))
    BY <1>9, CloseFileForms, Zenon
  <2> QED BY <1>0, <2>1, KindsDiffer, Zenon DEF Returned, Waits, Made
<1>10. CASE ClosedFile(c)
  <2>1. c \in Closers /\ stolen' = stolen /\ (Returned(c, "error") \/ Returned(c, "ok"))
    BY <1>10, ClosedFileForms, Zenon
  <2> QED BY <1>0, <2>1, KindsDiffer, Zenon DEF Returned, Made
<1> QED BY <1>1, <1>2, <1>3, <1>4, <1>5, <1>6, <1>7, <1>8, <1>9, <1>10, ZenonT(30) DEF Fiber

\* A descriptor that is open was opened by a call that can open one.
OwnerInv ==
    \A d \in Descriptors :
        owner[d] # None => owner[d] \in ChainCalls \cup Openers \cup Creates /\ Made(owner[d])

\* Every step keeps that.
LEMMA OwnerStep ==
    ASSUME ShapeInv, OwnerInv, [Next]_vars
    PROVE  OwnerInv'
<1>0. Types /\ owner \in [Descriptors -> Calls \cup {None}] /\ None \notin Calls
  BY DescriptorsAssumption, Zenon DEF ShapeInv, Types
<1>1. ASSUME NEW c \in Calls, Others(c), Made(c)', kind' = kind, owner' = owner PROVE OwnerInv'
  <2>1. \A e \in Calls : Made(e) => Made(e)'
    BY <1>1, Zenon DEF Others, Made
  <2> QED BY <1>0, <1>1, <2>1, SameKinds, Zenon DEF OwnerInv
<1>2. ASSUME NEW c \in Calls, Pool(c) PROVE OwnerInv'
  <2>1. UNCHANGED <<kind, io>>
    BY <1>2, Zenon DEF Pool
  <2>2. ASSUME NEW d \in Descriptors, req[c].op = "open", owner' = [owner EXCEPT ![d] = c] PROVE OwnerInv'
    <3>1. Made(c) /\ "open" \in Ops(c)
      BY <2>2, Zenon DEF ShapeInv, Shape, Made
    <3>2. c \in ChainCalls \cup Openers \cup Creates
      BY <1>0, <3>1, KindFacts, Zenon
    <3> QED BY <1>0, <2>1, <2>2, <3>1, <3>2, SameKinds, Zenon DEF OwnerInv, Made
  <2>3. ASSUME NEW d \in Descriptors, owner' = [owner EXCEPT ![d] = None] PROVE OwnerInv'
    BY <1>0, <2>1, <2>3, SameKinds, Zenon DEF OwnerInv, Made
  <2>4. ASSUME owner' = owner PROVE OwnerInv'
    BY <1>0, <2>1, <2>4, SameKinds, Zenon DEF OwnerInv, Made
  <2> QED BY <1>2, <2>2, <2>3, <2>4, PoolForms, Zenon
<1>3. ASSUME NEW c \in Calls, Chain(c) \/ (c \in ChainCalls /\ Begin(c)) PROVE OwnerInv'
  <2>1. PICK o \in {"waiting", "ok", "error"} : \E fd : Chained(c, o, fd)
    BY <1>3, BeginForms, OnOpenForms, OnReadForms, OnWriteForms, OnCloseForms, Zenon DEF Chain
  <2>2. Others(c) /\ Made(c)' /\ kind' = kind /\ owner' = owner
    BY <2>1, Zenon DEF Chained, Quiet, Made
  <2> QED BY <1>1, <2>2, Zenon
<1>4. ASSUME NEW c \in Calls, Fiber(c) PROVE OwnerInv'
  BY <1>1, <1>4, FiberActs, Zenon DEF Quiet
<1>5. CASE UNCHANGED <<kind, fsVars, io, file, track, stolen>>
  <2>1. kind' = kind /\ io' = io /\ owner' = owner
    BY <1>5, Zenon DEF fsVars
  <2> QED BY <1>0, <2>1, SameKinds, Zenon DEF OwnerInv, Made
<1> QED BY <1>2, <1>3, <1>4, <1>5, StepCases, Zenon

\* It always holds.
THEOREM Owners == Spec => []OwnerInv
<1>1. Init => OwnerInv
  BY FileInit, Zenon DEF OwnerInv
<1>2. ShapeInv /\ OwnerInv /\ [Next]_vars => OwnerInv'
  BY OwnerStep, Zenon
<1> QED BY <1>1, <1>2, FileShapes, PTL DEF Spec

\* A step of one call keeps what the others have read and written.
LEMMA FilesAct ==
    ASSUME ShapeInv, ReadInv, WriteInv, NEW c \in Calls, Others(c), kind' = kind, Made(c)',
           writes' \in Nat, (content' = content /\ writes' = writes) \/ writes' > writes,
           c \notin Changing \cup Openers => content' = content,
           c \in ReadFiles => ReadAt(c)', c \in WriteFiles => WriteAt(c)'
    PROVE  ReadInv' /\ WriteInv'
<1>0. /\ Types /\ writes \in Nat /\ ReadFiles' = ReadFiles /\ WriteFiles' = WriteFiles /\ Openers' = Openers
      /\ Changing' = Changing /\ ReadFiles \subseteq Calls /\ WriteFiles \subseteq Calls
      /\ Changing \subseteq Calls /\ Openers \subseteq Calls
  BY SameKinds, KindsDiffer, Zenon DEF ShapeInv, Types, ChainCalls, Changing
<1>1. ASSUME NEW e \in ReadFiles, e # c PROVE ReadAt(e)'
  <2>1. io'[e] = io[e] /\ req'[e] = req[e] /\ ReadAt(e) /\ io[e].seen <= writes /\ io[e].seen \in Nat
    BY <1>0, <1>1, Zenon DEF Others, ReadInv, ShapeInv, Shape, Types, Ios
  <2>2. CASE content' = content /\ writes' = writes
    BY <2>1, <2>2, Zenon DEF ReadAt
  <2>3. CASE writes' > writes
    <3>1. io'[e].seen # writes'
      BY <1>0, <2>1, <2>3
    <3> QED BY <2>1, <3>1, ZenonT(30) DEF ReadAt
  <2> QED BY <2>2, <2>3, Zenon
<1>2. ASSUME NEW e \in WriteFiles, e # c PROVE WriteAt(e)'
  <2>1. io'[e] = io[e] /\ req'[e] = req[e] /\ WriteAt(e)
    BY <1>0, <1>2, Zenon DEF Others, WriteInv
  <2>2. Alone(e)' => c \notin Changing \cup Openers /\ Alone(e)
    BY <1>0, <1>2, Zenon DEF Alone, Others, Made
  <2> QED BY <2>1, <2>2, Zenon DEF WriteAt
<1> QED BY <1>0, <1>1, <1>2, Zenon DEF ReadInv, WriteInv

\* What read_file() has read is the beginning of the file.
LEMMA ReadGrows ==
    ASSUME NEW s \in Seq(Bytes), NEW m \in Nat, NEW k \in Nat, m + k <= Len(s)
    PROVE  SubSeq(s, 1, m) \o SubSeq(s, m + 1, m + k) = SubSeq(s, 1, m + k)
<1>1. 1 \in 1 .. Len(s) + 1 /\ m \in 1 - 1 .. Len(s) /\ m + k \in m .. Len(s)
  OBVIOUS
<1> QED BY <1>1

\* The callbacks of read_file() and write_file().
LEMMA ChainFiles ==
    ASSUME ShapeInv, ReadInv, WriteInv, NEW c \in Calls, Chain(c) \/ (c \in ChainCalls /\ Begin(c))
    PROVE  ReadInv' /\ WriteInv'
<1>0. /\ Types /\ Shape(c) /\ req[c] \in Reqs /\ io[c] \in Ios /\ DataLen \in Nat \ {0}
      /\ content \in Seq(Bytes) /\ writes \in Nat
  BY LengthsAssumption, Zenon DEF ShapeInv, Types
<1>1. ASSUME NEW o \in {"waiting", "ok", "error"}, NEW fd, Chained(c, o, fd),
             c \in ReadFiles => ReadAt(c)', c \in WriteFiles => WriteAt(c)'
      PROVE  ReadInv' /\ WriteInv'
  <2>1. /\ Others(c) /\ kind' = kind /\ content' = content /\ writes' = writes /\ writes' \in Nat /\ Made(c)'
    BY <1>0, <1>1, Zenon DEF Chained, Quiet, Made
  <2> QED BY <1>1, <2>1, FilesAct, Zenon
<1>2. ASSUME NEW o, NEW fd, Chained(c, o, fd)
      PROVE  /\ content' = content /\ writes' = writes /\ io'[c].result = o /\ ~req'[c].done /\ req'[c].res = 0
             /\ (Made(c) /\ c \in WriteFiles => (Alone(c)' => Alone(c)))
  <2>1. /\ content' = content /\ writes' = writes /\ io'[c].result = o /\ ~req'[c].done /\ req'[c].res = 0
        /\ Others(c) /\ kind' = kind
    BY <1>2, Zenon DEF Chained, Quiet
  <2>2. Changing' = Changing /\ Openers' = Openers /\ Changing \cup Openers \subseteq Calls
    BY <1>0, <2>1, SameKinds, KindsDiffer, Zenon DEF Changing, ChainCalls
  <2>3. Alone(c)' => Alone(c)
    BY <2>1, <2>2, Zenon DEF Alone, Others, Made
  <2> QED BY <2>1, <2>3, Zenon
<1>3. c \in ReadFiles => c \notin WriteFiles /\ c \in Calls
  BY <1>0, KindsDiffer, Zenon
<1>4. ReadAt(c) \/ c \notin ReadFiles
  BY Zenon DEF ReadInv
<1>5. WriteAt(c) \/ c \notin WriteFiles
  BY Zenon DEF WriteInv
<1>6. CASE c \in ChainCalls /\ Begin(c)
  <2>1. Chained(c, "waiting", io[c].fd) /\ req'[c].op = "open" /\ req'[c].n = IF c \in WriteFiles THEN 0 ELSE 1
    BY <1>6, BeginForms, Zenon
  <2>2. io'[c].result = "waiting" /\ ~req'[c].done
    BY <1>2, <2>1, ZenonT(30)
  <2>3. c \in ReadFiles => ReadAt(c)'
    BY <1>3, <2>1, <2>2 DEF ReadAt
  <2>4. WriteAt(c)'
    BY <2>1, <2>2, Zenon DEF WriteAt
  <2> QED BY <1>1, <2>1, <2>3, <2>4, Zenon
<1>7. CASE OnOpen(c)
  <2>0. req[c].op = "open" /\ req[c].done
    BY <1>7, OnOpenForms, Zenon
  <2>1. CASE Chained(c, "error", io[c].fd) /\ req'[c].op = "none"
    <3>1. io'[c].result = "error"
      BY <1>2, <2>1, Zenon
    <3>2. ReadAt(c)' /\ WriteAt(c)'
      BY <2>1, <3>1, Zenon DEF ReadAt, WriteAt
    <3> QED BY <1>1, <2>1, <3>2, Zenon
  <2>2. CASE /\ req[c].res \in Descriptors /\ Chained(c, "waiting", req[c].res)
             /\ io'[c].offset = 0 /\ io'[c].out = <<>>
             /\ c \in ReadFiles => req'[c].op = "read" /\ req'[c].off = 0
             /\ c \notin ReadFiles => req'[c].op = "write" /\ (c \in WriteFiles => req'[c].off = 0)
    <3>1. /\ content' = content /\ writes' = writes /\ io'[c].result = "waiting" /\ ~req'[c].done
          /\ req'[c].res = 0
      BY <1>2, <2>2, Zenon
    <3>2. c \in ReadFiles => ReadAt(c)'
      <4>1. SubSeq(content, 1, 0) = <<>> /\ 0 <= Len(content)
        BY <1>0
      <4> QED BY <2>2, <3>1, <4>1, ZenonT(30) DEF ReadAt
    <3>3. ASSUME c \in WriteFiles PROVE WriteAt(c)'
      <4>1. c \notin ReadFiles /\ Made(c) /\ WriteAt(c)
        BY <1>0, <1>3, <1>5, <2>0, <3>3, Zenon DEF Shape, Made
      <4>2. Alone(c)' => Alone(c)
        BY <1>2, <2>2, <3>3, <4>1, ZenonT(30)
      <4>3. req[c].res >= 0
        <5>1. req[c].res \in Nat
          BY <2>2, DescriptorsAssumption, Zenon
        <5> QED BY <5>1
      <4>4. Alone(c)' => content = <<>>
        BY <2>0, <4>1, <4>2, <4>3, Zenon DEF WriteAt
      <4>5. Run(c, 0, 0 + 0) = <<>>
        BY DEF Run
      <4> QED BY <2>2, <3>1, <3>3, <4>1, <4>4, <4>5, Zenon DEF WriteAt
    <3> QED BY <1>1, <2>2, <3>2, <3>3, Zenon
  <2> QED BY <1>7, <2>1, <2>2, OnOpenForms, Zenon
<1>8. CASE OnRead(c)
  <2>1. /\ c \in ReadFiles /\ req[c].op = "read" /\ req[c].done
        /\ Chained(c, "waiting", io[c].fd) /\ io'[c].seen = io[c].seen
    BY <1>8, OnReadForms, Zenon
  <2>2. /\ content' = content /\ writes' = writes /\ io'[c].result = "waiting" /\ ~req'[c].done
    BY <1>2, <2>1, Zenon
  <2>3. ReadAt(c) /\ c \notin WriteFiles /\ io[c].offset \in Nat /\ req[c].res \in Int
    BY <1>0, <1>3, <1>4, <2>1, Zenon DEF Ios, Reqs
  <2>4. CASE /\ req[c].res > 0
             /\ io'[c].offset = io[c].offset + req[c].res /\ io'[c].out = io[c].out \o req[c].data
             /\ req'[c].op = "read" /\ req'[c].off = io'[c].offset
    <3>1. ASSUME io[c].seen = writes
          PROVE  io'[c].offset <= Len(content) /\ io'[c].out = SubSeq(content, 1, io'[c].offset)
      <4>1. /\ io[c].out = SubSeq(content, 1, io[c].offset) /\ io[c].offset + req[c].res <= Len(content)
            /\ req[c].data = SubSeq(content, io[c].offset + 1, io[c].offset + req[c].res)
        BY <2>1, <2>3, <2>4, <3>1 DEF ReadAt
      <4>2. req[c].res \in Nat
        BY <2>3, <2>4
      <4> QED BY <1>0, <2>3, <2>4, <4>1, <4>2, ReadGrows, ZenonT(30)
    <3>2. ReadAt(c)'
      BY <2>1, <2>2, <2>4, <3>1, ZenonT(30) DEF ReadAt
    <3> QED BY <1>1, <2>1, <2>3, <3>2, ZenonT(30)
  <2>5. CASE /\ req[c].res <= 0 /\ io'[c].out = io[c].out
             /\ (io'[c].error <=> req[c].res < 0) /\ req'[c].op = "close"
    <3>1. ASSUME io[c].seen = writes, ~io'[c].error PROVE io'[c].out = content
      <4>1. req[c].res = 0
        BY <2>3, <2>5, <3>1, SMTT(30)
      <4>2. io[c].out = SubSeq(content, 1, io[c].offset) /\ io[c].offset = Len(content)
        BY <2>1, <2>3, <3>1, <4>1 DEF ReadAt
      <4> QED BY <1>0, <2>5, <4>2
    <3>2. ReadAt(c)'
      BY <2>1, <2>2, <2>5, <3>1, Zenon DEF ReadAt
    <3> QED BY <1>1, <2>1, <2>3, <3>2, Zenon
  <2> QED BY <1>8, <2>4, <2>5, OnReadForms, Zenon
<1>9. CASE OnWrite(c)
  <2>1. /\ c \in WriteFiles \cup AppendFiles /\ req[c].op = "write" /\ req[c].done
        /\ Chained(c, "waiting", io[c].fd)
    BY <1>9, OnWriteForms, Zenon
  <2>2. /\ content' = content /\ io'[c].result = "waiting" /\ ~req'[c].done /\ req'[c].res = 0
        /\ c \notin ReadFiles
    BY <1>0, <1>2, <2>1, KindsDiffer, Zenon
  <2>3. ASSUME c \in WriteFiles PROVE WriteAt(c)'
    <3>1. WriteAt(c) /\ Made(c) /\ io[c].offset \in Nat /\ req[c].res \in Int
      BY <1>0, <1>5, <2>1, <2>3, Zenon DEF Shape, Made, Ios, Reqs
    <3>2. Alone(c)' => Alone(c)
      BY <1>2, <2>1, <2>3, <3>1, Zenon
    <3>3. From(c) = io[c].offset /\ (req[c].res = -1 \/ req[c].res \in 1 .. DataLen - From(c))
      BY <1>0, <2>1, <2>3, Zenon DEF From, Shape, ChainCalls
    <3>4. CASE /\ req[c].res > 0 /\ io'[c].offset = io[c].offset + req[c].res
               /\ io'[c].offset >= DataLen => req'[c].op = "close"
               /\ io'[c].offset < DataLen =>
                     req'[c].op = "write" /\ (c \in WriteFiles => req'[c].off = io'[c].offset)
      <4>1. Alone(c)' => content = Run(c, 0, io[c].offset + req[c].res)
        BY <2>1, <3>1, <3>2, <3>4 DEF WriteAt
      <4>2. CASE io'[c].offset >= DataLen
        <5>1. io[c].offset + req[c].res = DataLen
          BY <1>0, <3>1, <3>3, <3>4, <4>2, SMTT(30)
        <5> QED BY <2>2, <3>4, <4>1, <4>2, <5>1, ZenonT(30) DEF WriteAt
      <4>3. CASE io'[c].offset < DataLen
        <5>1. io'[c].offset + 0 = io[c].offset + req[c].res
          BY <3>1, <3>4, SMTT(30)
        <5> QED BY <2>2, <2>3, <3>4, <4>1, <4>3, <5>1, ZenonT(30) DEF WriteAt
      <4>4. io'[c].offset \in Int /\ DataLen \in Int
        BY <1>0, <3>1, <3>4
      <4>5. io'[c].offset >= DataLen \/ io'[c].offset < DataLen
        BY <4>4
      <4> QED BY <4>2, <4>3, <4>5, ZenonT(30)
    <3>5. CASE io'[c].error /\ req'[c].op = "close"
      BY <2>2, <3>5, Zenon DEF WriteAt
    <3> QED BY <1>9, <3>4, <3>5, OnWriteForms, Zenon
  <2> QED BY <1>1, <2>1, <2>2, <2>3, Zenon
<1>10. CASE OnClose(c)
  <2>1. PICK o \in {"ok", "error"} :
           /\ o = (IF io[c].error \/ req[c].res < 0 THEN "error" ELSE "ok") /\ Chained(c, o, io[c].fd)
    BY <1>10, OnCloseForms, Zenon
  <2>2. /\ req[c].op = "close" /\ req'[c].op = "none" /\ io'[c].out = io[c].out /\ io'[c].seen = io[c].seen
    BY <1>10, OnCloseForms, Zenon
  <2>3. /\ content' = content /\ writes' = writes /\ io'[c].result = o /\ (o = "ok" => ~io[c].error)
    BY <1>2, <2>1, Zenon
  <2>4. c \in ReadFiles => ReadAt(c)'
    BY <1>4, <2>2, <2>3, Zenon DEF ReadAt
  <2>5. ASSUME c \in WriteFiles PROVE WriteAt(c)'
    <3>1. WriteAt(c) /\ Made(c)
      BY <1>0, <1>5, <2>2, <2>5, Zenon DEF Shape, Made
    <3>2. Alone(c)' => Alone(c)
      BY <1>2, <2>1, <2>5, <3>1, Zenon
    <3> QED BY <2>2, <2>3, <3>1, <3>2, Zenon DEF WriteAt
  <2> QED BY <1>1, <2>1, <2>4, <2>5, Zenon
<1> QED BY <1>6, <1>7, <1>8, <1>9, <1>10, Zenon DEF Chain

\* A write behind what is there makes it longer.
LEMMA RunGrows ==
    ASSUME NEW c \in Calls, NEW off \in Nat, NEW k \in Nat, off + k <= DataLen
    PROVE  Overwritten(Run(c, 0, off), off, Run(c, off, k)) = Run(c, 0, off + k)
<1>0. 0 \in Nat /\ 0 + off <= DataLen /\ off + k \in Nat /\ 0 + (off + k) <= DataLen
  BY LengthsAssumption
<1>1. PICK s \in Seq(Bytes) : s = Run(c, 0, off) /\ Len(s) = off /\ \A i \in 1 .. off : s[i] = Byte(c, 0 + i)
  BY <1>0, RunFacts, Zenon
<1>2. PICK o : o = Overwritten(s, off, Run(c, off, k))
  BY Zenon
<1>3. Overwrote(o, s, off, c, off, k)
  BY <1>2, OverwrittenFacts, Zenon
<1>4. o \in Seq(Bytes) /\ Len(o) = off + k
  BY <1>1, <1>3 DEF Overwrote
<1>5. ASSUME NEW i \in 1 .. off + k PROVE o[i] = Byte(c, 0 + i)
  <2>1. CASE i <= off
    BY <1>1, <1>3, <2>1 DEF Overwrote
  <2>2. CASE i > off
    <3>1. PICK j \in 1 .. k : i = off + j /\ 0 + i = off + j
      BY <2>2
    <3> QED BY <1>3, <3>1, Zenon DEF Overwrote
  <2> QED BY <2>1, <2>2
<1>6. PICK r \in Seq(Bytes) :
         r = Run(c, 0, off + k) /\ Len(r) = off + k /\ \A i \in 1 .. off + k : r[i] = Byte(c, 0 + i)
  BY <1>0, RunFacts, Zenon
<1>7. o = r
  <2>1. \A i \in 1 .. off + k : o[i] = r[i]
    BY <1>5, <1>6, Zenon
  <2> QED BY <1>0, <1>4, <1>6, <2>1
<1> QED BY <1>1, <1>2, <1>6, <1>7, Zenon

\* The pool reads from the file and writes into it.
LEMMA PoolFiles ==
    ASSUME ShapeInv, OwnerInv, ReadInv, WriteInv, NEW c \in Calls, Pool(c)
    PROVE  ReadInv' /\ WriteInv'
<1>0. /\ Types /\ Shape(c) /\ req[c] \in Reqs /\ io[c] \in Ios /\ DataLen \in Nat
      /\ content \in Seq(Bytes) /\ writes \in Nat
  BY LengthsAssumption, Zenon DEF ShapeInv, Types
<1>1. ASSUME NEW res, NEW data, Executed(c, res, data)
      PROVE  /\ Others(c) /\ kind' = kind /\ io' = io /\ (req[c].op # "none" => Made(c)')
             /\ req'[c].op = req[c].op /\ req'[c].off = req[c].off /\ req'[c].n = req[c].n
             /\ req'[c].done /\ req'[c].res = res /\ req'[c].data = data /\ ~req[c].done /\ req[c].res = 0
             /\ Alone(c)' = Alone(c)
  <2>1. /\ Others(c) /\ kind' = kind /\ io' = io
        /\ req'[c].op = req[c].op /\ req'[c].off = req[c].off /\ req'[c].n = req[c].n
        /\ req'[c].done /\ req'[c].res = res /\ req'[c].data = data /\ ~req[c].done
    BY <1>1, Zenon DEF Executed, Others
  <2>2. Changing' = Changing /\ Openers' = Openers
    BY <2>1, SameKinds, Zenon
  <2>3. Alone(c)' = Alone(c)
    BY <2>1, <2>2, Zenon DEF Alone, Made
  <2> QED BY <1>0, <2>1, <2>3, Zenon DEF Shape, Made
<1>2. ReadAt(c) \/ c \notin ReadFiles
  BY Zenon DEF ReadInv
<1>3. WriteAt(c) \/ c \notin WriteFiles
  BY Zenon DEF WriteInv
<1>4. ASSUME NEW d \in Descriptors, Executed(c, d, <<>>), req[c].op = "open",
             content' = (IF req[c].n = 0 THEN <<>> ELSE content),
             writes' = (IF req[c].n = 0 THEN writes + 1 ELSE writes)
      PROVE  ReadInv' /\ WriteInv'
  <2>1. io[c].result = "waiting" /\ c \in ChainCalls \cup Openers \cup Creates
    <3>1. io[c].result = "waiting" /\ "open" \in Ops(c)
      BY <1>0, <1>4, Zenon DEF Shape
    <3> QED BY <1>0, <3>1, KindFacts, Zenon
  <2>2. writes' \in Nat /\ ((content' = content /\ writes' = writes) \/ writes' > writes)
    BY <1>0, <1>4
  <2>3. c \notin Changing \cup Openers => content' = content
    <3>1. c \notin Changing \cup Openers => c \in ReadFiles
      BY <2>1, Zenon DEF Changing, ChainCalls
    <3> QED BY <1>2, <1>4, <3>1, Zenon DEF ReadAt
  <2>4. c \in ReadFiles => ReadAt(c)'
    BY <1>1, <1>2, <1>4, <2>1, Zenon DEF ReadAt
  <2>5. ASSUME c \in WriteFiles PROVE WriteAt(c)'
    <3>1. content' = <<>>
      BY <1>0, <1>4, <2>5, Zenon DEF Shape
    <3> QED BY <1>1, <1>4, <2>1, <3>1, ZenonT(30) DEF WriteAt
  <2> QED BY <1>1, <1>4, <2>2, <2>3, <2>4, <2>5, FilesAct, Zenon
<1>5. ASSUME NEW k \in Nat, Executed(c, k, SubSeq(content, req[c].off + 1, req[c].off + k)), req[c].op = "read",
             k > 0 => req[c].off + k <= Len(content), k = 0 => req[c].off >= Len(content),
             UNCHANGED <<content, writes>>
      PROVE  ReadInv' /\ WriteInv'
  <2>1. io[c].result = "waiting" /\ c \notin WriteFiles
    <3>1. io[c].result = "waiting" /\ "read" \in Ops(c)
      BY <1>0, <1>5, Zenon DEF Shape
    <3>2. c \in WriteFiles \cup AppendFiles => "read" \notin Ops(c)
      BY <1>0, KindFacts
    <3> QED BY <3>1, <3>2, Zenon
  <2>2. ASSUME c \in ReadFiles PROVE ReadAt(c)'
    <3>1. ReadAt(c) /\ req[c].off = io[c].offset /\ io[c].offset \in Nat
      BY <1>0, <1>2, <1>5, <2>2, Zenon DEF ReadAt, Ios
    <3>2. io[c].seen = writes =>
             /\ io[c].offset <= Len(content) /\ io[c].offset + k <= Len(content)
             /\ k = 0 => io[c].offset = Len(content)
      BY <1>0, <1>5, <3>1 DEF ReadAt
    <3> QED BY <1>1, <1>5, <2>1, <3>1, <3>2, ZenonT(30) DEF ReadAt
  <2> QED BY <1>0, <1>1, <1>5, <2>1, <2>2, FilesAct, Zenon
<1>6. ASSUME NEW k \in 1 .. DataLen - From(c), NEW off \in Nat, Executed(c, k, req[c].data),
             req[c].op = "write", off = WriteOffset(c),
             req[c].fd \in Descriptors, owner[req[c].fd] \in Calls,
             content' = Overwritten(content, off, Run(c, From(c), k)), writes' = writes + 1
      PROVE  ReadInv' /\ WriteInv'
  <2>1. /\ io[c].result = "waiting" /\ c \in WriteFiles \cup AppendFiles \cup Writers /\ c \notin ReadFiles
        /\ c \in Changing
    <3>1. io[c].result = "waiting" /\ "write" \in Ops(c)
      BY <1>0, <1>6, Zenon DEF Shape
    <3>2. c \in WriteFiles \cup AppendFiles \cup Writers
      BY <1>0, <3>1, KindFacts, Zenon
    <3>3. ASSUME c \in ReadFiles PROVE FALSE
      <4>1. Ops(c) = {"open", "read", "close"}
        BY <1>0, <3>3, KindFacts, Zenon
      <4> QED BY <3>1, <4>1, Zenon
    <3> QED BY <3>1, <3>2, <3>3, Zenon DEF Changing
  <2>2. ASSUME c \in WriteFiles PROVE WriteAt(c)'
    <3>1. WriteAt(c) /\ req[c].off = io[c].offset /\ io[c].offset \in Nat
      BY <1>0, <1>3, <1>6, <2>2, Zenon DEF WriteAt, Ios
    <3>2. From(c) = io[c].offset /\ From(c) \in 0 .. DataLen - 1
      BY <1>0, <1>6, <2>2, ZenonT(30) DEF From, Shape, ChainCalls
    <3>3. k \in Nat /\ io[c].offset + k <= DataLen /\ io[c].offset # -1
      BY <1>0, <1>6, <3>1, <3>2
    <3>4. ASSUME Alone(c) PROVE content' = Run(c, 0, io[c].offset + k)
      <4>1. owner[req[c].fd] \notin Appenders
        <5>1. owner[req[c].fd] # None /\ c \notin AppendFiles \cup Openers
          BY <1>0, <1>6, <2>2, DescriptorsAssumption, KindsDiffer, Zenon DEF ChainCalls
        <5>2. Made(owner[req[c].fd])
          BY <1>6, <5>1, Zenon DEF OwnerInv
        <5>3. Appenders \subseteq AppendFiles \cup Openers
          BY Zenon DEF Appenders, AppendFiles, Openers, Of
        <5> QED BY <3>4, <5>1, <5>2, <5>3, Zenon DEF Alone, Changing
      <4>2. off = io[c].offset
        BY <1>6, <3>1, <3>3, <4>1, Zenon DEF WriteOffset
      <4>3. content = Run(c, 0, io[c].offset)
        <5>1. content = Run(c, 0, io[c].offset + req[c].res) /\ req[c].res = 0
          BY <1>1, <1>6, <3>1, <3>4, Zenon DEF WriteAt
        <5>2. io[c].offset + 0 = io[c].offset
          BY <3>1
        <5> QED BY <5>1, <5>2, Zenon
      <4>4. content' = Overwritten(Run(c, 0, io[c].offset), io[c].offset, Run(c, io[c].offset, k))
        BY <1>6, <3>2, <4>2, <4>3, Zenon
      <4> QED BY <3>1, <3>3, <4>4, RunGrows, Zenon
    <3> QED BY <1>1, <1>6, <2>1, <3>1, <3>4, Zenon DEF WriteAt
  <2>3. writes' \in Nat /\ writes' > writes
    <3>1. writes' = writes + 1 /\ writes \in Nat
      BY <1>0, <1>6, Zenon
    <3> QED BY <3>1
  <2> QED BY <1>1, <1>6, <2>1, <2>2, <2>3, FilesAct, ZenonT(30)
<1>7. ASSUME NEW res \in {0, -1}, NEW data, Executed(c, res, data), req[c].op # "none",
             req[c].op = "close" \/ res = -1, UNCHANGED <<content, writes>>
      PROVE  ReadInv' /\ WriteInv'
  <2>1. io[c].result = "waiting"
    BY <1>0, <1>7, Zenon DEF Shape
  <2>2. res >= 0 => req[c].op = "close"
    <3>1. res >= 0 => res # -1
      OBVIOUS
    <3> QED BY <1>7, <3>1, Zenon
  <2>3. res < 0 \/ res >= 0
    OBVIOUS
  <2>4. c \in ReadFiles => ReadAt(c)'
    BY <1>1, <1>2, <1>7, <2>1, <2>2, ZenonT(30) DEF ReadAt
  <2>5. c \in WriteFiles => WriteAt(c)'
    BY <1>1, <1>3, <1>7, <2>1, <2>2, <2>3, ZenonT(30) DEF WriteAt
  <2> QED BY <1>0, <1>1, <1>7, <2>4, <2>5, FilesAct, ZenonT(30)
<1> QED BY <1>4, <1>5, <1>6, <1>7, PoolForms, Zenon

\* Every step of the program keeps what the chains have read and written.
LEMMA FilesStep ==
    ASSUME ShapeInv, OwnerInv, ReadInv, WriteInv, [Next]_vars
    PROVE  ReadInv' /\ WriteInv'
<1>1. ASSUME NEW c \in Calls, Fiber(c) PROVE ReadInv' /\ WriteInv'
  <2>1. Others(c) /\ Quiet /\ Made(c)' /\ c \notin ReadFiles \cup WriteFiles
    BY <1>1, FiberActs, Zenon DEF ChainCalls
  <2>2. kind' = kind /\ content' = content /\ writes' = writes /\ writes' \in Nat
    BY <2>1, Zenon DEF Quiet, ShapeInv, Types
  <2> QED BY <2>1, <2>2, FilesAct, Zenon
<1>2. CASE UNCHANGED <<kind, fsVars, io, file, track, stolen>>
  <2>1. /\ ReadFiles' = ReadFiles /\ WriteFiles' = WriteFiles /\ Changing' = Changing /\ Openers' = Openers
        /\ req' = req /\ io' = io /\ content' = content /\ writes' = writes
    BY <1>2, SameKinds, Zenon DEF fsVars
  <2> QED BY <2>1, ZenonT(30) DEF ReadInv, WriteInv, ReadAt, WriteAt, Alone, Made
<1> QED BY <1>1, <1>2, StepCases, ChainFiles, PoolFiles, Zenon

\* read_file() returns the file, and write_file() leaves its data in it, as long as nobody
\* else changes the file: in spite of short reads and writes, of other calls that read it,
\* and of ~EventLoop.
THEOREM FilesAreWhole == Spec => []WholeFile
<1>1. Init => ReadInv /\ WriteInv
  <2>1. ASSUME Init PROVE Types /\ \A c \in Calls : req[c].op = "none" /\ io[c].result = "new"
    BY <2>1, FileInit, Zenon DEF ShapeInv
  <2>2. ASSUME Types PROVE ReadFiles \subseteq Calls /\ WriteFiles \subseteq Calls
    BY Zenon DEF ReadFiles, WriteFiles, Of
  <2> QED BY <2>1, <2>2, Zenon DEF ReadInv, WriteInv, ReadAt, WriteAt
<1>2. ShapeInv /\ OwnerInv /\ ReadInv /\ WriteInv /\ [Next]_vars => ReadInv' /\ WriteInv'
  BY FilesStep, Zenon
<1>3. ShapeInv /\ ReadInv /\ WriteInv => WholeFile
  <2>1. ASSUME NEW c \in WriteFiles PROVE Data(c) = Run(c, 0, DataLen)
    BY DataFacts, Zenon DEF WriteFiles, Of
  <2> QED BY <2>1, Zenon DEF WholeFile, ReadInv, WriteInv, ReadAt, WriteAt, Alone
<1> QED BY <1>1, <1>2, <1>3, FileShapes, Owners, PTL DEF Spec
=============================================================================
