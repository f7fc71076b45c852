----------------------------- MODULE FileProofs -----------------------------
(***************************************************************************)
(* Proofs about File for any calls, descriptors, file and chunk: who owns  *)
(* a descriptor, and where the cursor of a File is.                        *)
(***************************************************************************)
EXTENDS FileIOProofs

-----------------------------------------------------------------------------
(* The invariants *)

\* the descriptor that a call has opened and not yet closed
Holds(c, d) ==
    \/ req[c].op = "open" /\ req[c].done /\ req[c].res = d
    \/ c \in ChainCalls /\ req[c].op \in {"read", "write"} /\ req[c].fd = d
    \/ req[c].op = "close" /\ ~req[c].done /\ req[c].fd = d

\* A descriptor that is open is held by the call that opened it, or by the File.
HeldAt(d) ==
    LET c == owner[d]
    IN  /\ c \in ChainCalls => Holds(c, d)
        /\ c \in Creates => Holds(c, d) \/ (~is_loop_alive /\ Done(c))
        /\ c \in Openers /\ is_loop_alive =>
              \/ Holds(c, d)
              \/ /\ file.exists /\ file.fd = d /\ ~file.closed
                 /\ \A e \in Closers : ~(req[e].op = "close" /\ req[e].done /\ req[e].res >= 0)
        /\ c # None => c \in ChainCalls \cup Creates \cup Openers

HeldInv == \A d \in Descriptors : HeldAt(d)

\* What a close() frees is the File's, once.
CloseInv ==
    /\ file.closed => file.exists
    /\ \A c \in Closers : req[c].op = "close" /\ is_loop_alive => file.closed \/ req[c].fd = file.fd

Has(c, d) == d \in Descriptors /\ owner[d] = c
Twice == \E c, e \in Closers : c # e /\ Made(c) /\ Made(e)

\* As long as close() is called once, nobody's descriptor is freed by another.
OnceInv ==
    ~Twice =>
        /\ ~stolen
        /\ \A c \in Calls \ Closers :
              /\ req[c].op = "open" /\ req[c].done /\ req[c].res >= 0 => Has(c, req[c].res)
              /\ c \in ChainCalls /\ req[c].op \in {"read", "write"} => Has(c, req[c].fd)
              /\ req[c].op = "close" /\ ~req[c].done => Has(c, req[c].fd)
        /\ file.exists /\ (\A c \in Closers : ~Made(c)) =>
              ~file.closed /\ file.fd \in Descriptors /\ owner[file.fd] \in Openers
        /\ \A c \in Closers : req[c].op = "close" /\ ~req[c].done =>
              req[c].fd \in Descriptors /\ owner[req[c].fd] \in Openers

OwnershipInv == HeldInv /\ CloseInv /\ OnceInv

\* how much of its data a write_some() that waits has written
Progress(c) == req[c].off - io[c].offset + IF req[c].done /\ req[c].res > 0 THEN req[c].res ELSE 0

\* The calls in the log are at an end, one after the other, and the cursor behind
\* them; a call that waits began at the cursor, and has it for itself.
TileInv ==
    ~track.overlapped =>
        /\ file.cursor = End(Len(track.log))
        /\ \A i \in DOMAIN track.log :
              LET c == track.log[i].call
              IN  /\ c \in Cursored /\ io[c].result = "ok" /\ io[c].offset = End(i - 1)
                  /\ End(i) <= file.cursor
                  /\ c \in Writers => track.log[i].len = DataLen
        /\ \A c \in Cursored : io[c].result = "waiting" =>
              /\ io[c].offset = file.cursor
              /\ \A e \in Cursored : io[e].result = "waiting" => e = c

\* the first m bytes of the data of c are in s, or in the file, behind position p
LiesIn(s, c, p, m) == \A j \in 1 .. m : p + j <= Len(s) /\ s[p + j] = Byte(c, j)
Lies(c, p, m) == LiesIn(content, c, p, m)
\* the position behind which a write_some() that waits writes its data
Start(c) == IF Appending THEN Len(content) - Progress(c) ELSE io[c].offset
WriteLog == {i \in DOMAIN track.log : track.log[i].call \in Writers}

\* a write that is in the log is where the log says
LaidAt(i) ==
    /\ track.log[i].at \in Nat /\ Lies(track.log[i].call, track.log[i].at, DataLen)
    /\ ~Appending => track.log[i].at = io[track.log[i].call].offset

\* a write_some() that waits writes behind those in the log
Laid(c) ==
    /\ Start(c) \in Nat /\ Lies(c, Start(c), Progress(c))
    /\ \A i \in WriteLog : track.log[i].at + DataLen <= Start(c)

\* What the calls of write_some() have written stays where it is, one behind the other.
KeptInv ==
    ~track.overlapped /\ OnlyCursor =>
        /\ \A i \in WriteLog : LaidAt(i)
        /\ \A i, j \in WriteLog : j < i => track.log[j].at + DataLen <= track.log[i].at
        /\ \A c \in Cursored \cap Writers : io[c].result = "waiting" => Laid(c)

-----------------------------------------------------------------------------
(* Who owns a descriptor *)

\* The owner of a descriptor.
LEMMA OwnerFacts ==
    ASSUME HeldInv, NEW d \in Descriptors, NEW c \in Calls, owner[d] = c
    PROVE  /\ c \in ChainCalls \cup Creates \cup Openers
           /\ c \in ChainCalls => Holds(c, d)
           /\ c \in Creates => Holds(c, d) \/ (~is_loop_alive /\ Done(c))
           /\ c \in Openers /\ is_loop_alive =>
                 \/ Holds(c, d)
                 \/ /\ file.exists /\ file.fd = d /\ ~file.closed
                    /\ \A e \in Closers : ~(req[e].op = "close" /\ req[e].done /\ req[e].res >= 0)
<1>1. HeldAt(d) /\ c # None
  BY DescriptorsAssumption, Zenon DEF HeldInv
<1> QED BY <1>1, Zenon DEF HeldAt

\* What an owner has stays so when the owner does nothing and the File stays as it is.
LEMMA HeldStays ==
    ASSUME Types, NEW d \in Descriptors, HeldAt(d), kind' = kind, loop' = loop, owner'[d] = owner[d],
           owner[d] \in Calls => io'[owner[d]] = io[owner[d]] /\ req'[owner[d]] = req[owner[d]],
           file'.exists = file.exists /\ file'.fd = file.fd /\ file'.closed = file.closed,
           \A e \in Closers : req'[e].op = "close" /\ req'[e].done /\ req'[e].res >= 0 =>
                              req[e].op = "close" /\ req[e].done /\ req[e].res >= 0
    PROVE  HeldAt(d)'
<1>1. ChainCalls' = ChainCalls /\ Creates' = Creates /\ Openers' = Openers /\ Closers' = Closers
  BY SameKinds, Zenon
<1>2. is_loop_alive' = is_loop_alive
  BY Zenon DEF is_loop_alive
<1>3. PICK c : c = owner[d]
  BY Zenon
<1>4. c \in Calls => (Holds(c, d)' <=> Holds(c, d)) /\ (Done(c)' <=> Done(c))
  BY <1>1, <1>3, Zenon DEF Holds, Done, Made
<1>5. c \in ChainCalls \cup Creates \cup Openers => c \in Calls
  BY KindsDiffer, Zenon
<1> QED BY <1>1, <1>2, <1>3, <1>4, <1>5, Zenon DEF HeldAt

\* A call takes a step that neither opens nor frees a descriptor.
LEMMA HeldActs ==
    ASSUME ShapeInv, HeldInv, NEW c \in Calls, Others(c), kind' = kind, loop' = loop, owner' = owner,
           file'.exists = file.exists /\ file'.fd = file.fd /\ file'.closed = file.closed,
           c \in Closers => ~(req'[c].op = "close" /\ req'[c].done /\ req'[c].res >= 0),
           \A d \in Descriptors : owner[d] = c =>
               \/ Holds(c, d)'
               \/ c \in Creates /\ ~is_loop_alive /\ Done(c)'
               \/ c \in Openers /\ ~is_loop_alive
    PROVE  HeldInv'
<1> SUFFICES ASSUME NEW d \in Descriptors PROVE HeldAt(d)'
  BY Zenon DEF HeldInv
<1>0. Types /\ HeldAt(d) /\ owner \in [Descriptors -> Calls \cup {None}]
  BY Zenon DEF ShapeInv, Types, HeldInv
<1>1. CASE owner[d] # c
  <2>1. owner[d] \in Calls => io'[owner[d]] = io[owner[d]] /\ req'[owner[d]] = req[owner[d]]
    BY <1>1, Zenon DEF Others
  <2>2. \A e \in Closers : req'[e].op = "close" /\ req'[e].done /\ req'[e].res >= 0 =>
                           req[e].op = "close" /\ req[e].done /\ req[e].res >= 0
    BY <1>0, KindsDiffer, Zenon DEF Others
  <2> QED BY <1>0, <2>1, <2>2, HeldStays, Zenon
<1>2. CASE owner[d] = c
  <2>1. ChainCalls' = ChainCalls /\ Creates' = Creates /\ Openers' = Openers /\ Closers' = Closers
    BY SameKinds, Zenon
  <2>2. is_loop_alive' = is_loop_alive
    BY Zenon DEF is_loop_alive
  <2>3. c \in ChainCalls \cup Creates \cup Openers
    BY <1>2, OwnerFacts, Zenon
  <2>4. c \in ChainCalls => c \notin Creates \cup Openers
    BY <1>0, KindsDiffer, Zenon
  <2>5. c \in Creates => c \notin Openers
    BY <1>0, KindsDiffer, Zenon
  <2> QED BY <1>2, <2>1, <2>2, <2>3, <2>4, <2>5, Zenon DEF HeldAt
<1> QED BY <1>1, <1>2, Zenon

\* A call without a request, or one that has been answered and leaves nothing behind,
\* holds no descriptor.
LEMMA HoldsFacts ==
    ASSUME ShapeInv, NEW c \in Calls, NEW d \in Descriptors
    PROVE  /\ Holds(c, d) => io[c].result = "waiting" /\ req[c].op # "none"
           /\ req[c].op = "open" /\ Holds(c, d) => req[c].done /\ req[c].res = d
           /\ req[c].op = "close" /\ Holds(c, d) => ~req[c].done /\ req[c].fd = d
           /\ req[c].op \in {"read", "write"} /\ Holds(c, d) => c \in ChainCalls /\ req[c].fd = d
           /\ c \in ChainCalls /\ req[c].op \in {"read", "write", "close"} => req[c].fd = io[c].fd
           /\ d \in Nat /\ d >= 0 /\ d # -1
<1>1. Shape(c) /\ req[c] \in Reqs
  BY Zenon DEF ShapeInv, Types
<1> QED BY <1>1, DescriptorsAssumption DEF Shape, Holds

\* The chains hold what they have opened until it is closed.
LEMMA ChainHeld ==
    ASSUME ShapeInv, HeldInv, NEW c \in Calls, UNCHANGED <<file, track, stolen>>,
           Chain(c) \/ (c \in ChainCalls /\ Begin(c))
    PROVE  HeldInv'
<1>0. Types
  BY Zenon DEF ShapeInv
<1>1. ASSUME NEW o, NEW fd, Chained(c, o, fd),
             \A d \in Descriptors : Holds(c, d) =>
                 \/ req'[c].op \in {"read", "write"} /\ req'[c].fd = d
                 \/ req'[c].op = "close" /\ req'[c].fd = d
      PROVE  HeldInv'
  <2>1. /\ c \in ChainCalls /\ Others(c) /\ kind' = kind /\ loop' = loop /\ owner' = owner /\ ~req'[c].done
    BY <1>1, Zenon DEF Chained, Quiet
  <2>2. ChainCalls' = ChainCalls
    BY <2>1, SameKinds, Zenon
  <2>3. c \notin Closers
    BY <1>0, <2>1, KindsDiffer, Zenon
  <2>4. ASSUME NEW d \in Descriptors, owner[d] = c PROVE Holds(c, d)'
    <3>1. Holds(c, d)
      BY <2>1, <2>4, OwnerFacts, Zenon
    <3> QED BY <1>1, <2>1, <2>2, <3>1, Zenon DEF Holds
  <2> QED BY <2>1, <2>3, <2>4, HeldActs, Zenon
<1>2. CASE c \in ChainCalls /\ Begin(c)
  <2>1. Chained(c, "waiting", io[c].fd) /\ io[c].result = "new"
    BY <1>2, BeginForms, Zenon
  <2> QED BY <1>1, <2>1, HoldsFacts, Zenon
<1>3. CASE OnOpen(c)
  <2>1. req[c].op = "open" /\ req[c] \in Reqs
    BY <1>0, <1>3, OnOpenForms, Zenon DEF Types
  <2>2. CASE req[c].res < 0 /\ Chained(c, "error", io[c].fd)
    <3>1. \A d \in Descriptors : ~Holds(c, d)
      BY <2>1, <2>2, HoldsFacts DEF Reqs
    <3> QED BY <1>1, <2>2, <3>1, Zenon
  <2>3. CASE /\ Chained(c, "waiting", req[c].res) /\ req'[c].fd = req[c].res
             /\ req'[c].op \in {"read", "write"}
    BY <1>1, <2>1, <2>3, HoldsFacts, Zenon
  <2> QED BY <1>3, <2>2, <2>3, OnOpenForms, Zenon
<1>4. CASE OnRead(c)
  <2>1. /\ req[c].op = "read" /\ Chained(c, "waiting", io[c].fd) /\ req'[c].fd = io[c].fd
        /\ req'[c].op \in {"read", "close"} /\ c \in ChainCalls
    BY <1>4, OnReadForms, Zenon DEF Chained
  <2> QED BY <1>1, <2>1, HoldsFacts, Zenon
<1>5. CASE OnWrite(c)
  <2>0. io[c] \in Ios /\ req[c] \in Reqs /\ DataLen \in Nat
    BY <1>0, LengthsAssumption, Zenon DEF Types
  <2>1. /\ req[c].op = "write" /\ Chained(c, "waiting", io[c].fd) /\ req'[c].fd = io[c].fd
        /\ req'[c].op \in {"write", "close"} /\ c \in ChainCalls
    <3>1. io[c].offset + req[c].res >= DataLen \/ io[c].offset + req[c].res < DataLen
      BY <2>0, SMTT(30) DEF Ios, Reqs
    <3> QED BY <1>5, <3>1, OnWriteForms, Zenon DEF Chained
  <2> QED BY <1>1, <2>1, HoldsFacts, Zenon
<1>6. CASE OnClose(c)
  <2>1. PICK o : req[c].op = "close" /\ req[c].done /\ Chained(c, o, io[c].fd)
    BY <1>6, OnCloseForms, Zenon
  <2> QED BY <1>1, <2>1, HoldsFacts, Zenon
<1> QED BY <1>2, <1>3, <1>4, <1>5, <1>6, Zenon DEF Chain

\* A descriptor that the pool opens belongs to the call, and one that it frees to nobody.
LEMMA PoolHeld ==
    ASSUME ShapeInv, HeldInv, CloseInv, NEW c \in Calls, Pool(c)
    PROVE  HeldInv'
<1>0. Types /\ Shape(c) /\ req[c] \in Reqs /\ owner \in [Descriptors -> Calls \cup {None}]
  BY Zenon DEF ShapeInv, Types
<1>1. ASSUME NEW d \in Descriptors, Executed(c, d, <<>>), req[c].op = "open", owner[d] = None,
             owner' = [owner EXCEPT ![d] = c]
      PROVE  HeldInv'
  <2>1. /\ Others(c) /\ kind' = kind /\ loop' = loop /\ file' = file /\ io' = io /\ ~req[c].done
        /\ req'[c].op = "open" /\ req'[c].done /\ req'[c].res = d
    BY <1>1, Zenon DEF Executed, Others
  <2>2. /\ c \in ChainCalls \cup Openers \cup Creates /\ io[c].result = "waiting"
        /\ (c \in Openers => ~file.exists)
    BY <1>0, <1>1, KindFacts, ZenonT(30) DEF Shape
  <2>3. ChainCalls' = ChainCalls /\ Creates' = Creates /\ Openers' = Openers /\ Closers' = Closers
    BY <2>1, SameKinds, Zenon
  <2>4. HeldAt(d)'
    <3>1. owner'[d] = c /\ Holds(c, d)'
      BY <1>0, <1>1, <2>1, Zenon DEF Holds
    <3> QED BY <2>2, <2>3, <3>1, Zenon DEF HeldAt
  <2>5. ASSUME NEW e \in Descriptors, e # d PROVE HeldAt(e)'
    <3>1. owner'[e] = owner[e] /\ HeldAt(e)
      BY <1>0, <1>1, <2>5, Zenon DEF HeldInv
    <3>2. CASE owner[e] # c
      <4>1. owner[e] \in Calls => io'[owner[e]] = io[owner[e]] /\ req'[owner[e]] = req[owner[e]]
        BY <2>1, <3>2, Zenon DEF Others
      <4>2. \A f \in Closers : req'[f].op = "close" /\ req'[f].done /\ req'[f].res >= 0 =>
                               req[f].op = "close" /\ req[f].done /\ req[f].res >= 0
        BY <1>0, <2>1, KindsDiffer, Zenon DEF Others
      <4> QED BY <1>0, <2>1, <3>1, <4>1, <4>2, HeldStays, Zenon
    <3>3. CASE owner[e] = c
      <4>1. ~Holds(c, e) /\ ~Done(c)
        BY <1>1, <2>1, <2>2, HoldsFacts, Zenon DEF Done
      <4>2. c \in Openers /\ ~is_loop_alive
        BY <2>2, <3>3, <4>1, OwnerFacts, Zenon
      <4>3. ~is_loop_alive' /\ c \notin ChainCalls \cup Creates
        BY <1>0, <2>1, <4>2, KindsDiffer, Zenon DEF is_loop_alive
      <4> QED BY <2>2, <2>3, <3>1, <3>3, <4>3, Zenon DEF HeldAt
    <3> QED BY <3>2, <3>3, Zenon
  <2> QED BY <2>4, <2>5, Zenon DEF HeldInv
<1>2. ASSUME NEW res, NEW data, Executed(c, res, data), owner' = owner, req[c].op \in {"read", "write"}
      PROVE  HeldInv'
  <2>1. /\ Others(c) /\ kind' = kind /\ loop' = loop /\ file' = file /\ io' = io
        /\ req'[c].op = req[c].op /\ req'[c].fd = req[c].fd
    BY <1>2, Zenon DEF Executed, Others
  <2>2. ChainCalls' = ChainCalls
    BY <2>1, SameKinds, Zenon
  <2>3. ASSUME NEW d \in Descriptors, owner[d] = c PROVE Holds(c, d)'
    <3>1. c \in ChainCalls
      BY <1>0, <1>2, <2>3, OwnerFacts, KindFacts, KindsDiffer, SMTT(30) DEF Shape
    <3>2. Holds(c, d)
      BY <2>3, <3>1, OwnerFacts, Zenon
    <3> QED BY <1>2, <2>1, <2>2, <3>2, ZenonT(30) DEF Holds
  <2> QED BY <1>2, <2>1, <2>3, HeldActs, Zenon
<1>3. ASSUME NEW res \in {0, -1}, Executed(c, res, <<>>), req[c].op = "close", req[c].fd \in Descriptors,
             owner' = [owner EXCEPT ![req[c].fd] = None]
      PROVE  HeldInv'
  <2>1. /\ Others(c) /\ kind' = kind /\ loop' = loop /\ file' = file /\ io' = io /\ ~req[c].done
    BY <1>3, Zenon DEF Executed, Others
  <2>2. /\ c \in ChainCalls \cup Creates \cup Closers /\ io[c].result = "waiting"
    BY <1>0, <1>3, KindFacts DEF Shape
  <2>3. ChainCalls' = ChainCalls /\ Creates' = Creates /\ Openers' = Openers /\ Closers' = Closers
    BY <2>1, SameKinds, Zenon
  <2>x. PICK x \in Descriptors : x = req[c].fd
    BY <1>3, Zenon
  <2>4. HeldAt(x)'
    <3>1. owner'[x] = None
      BY <1>0, <1>3, <2>x, Zenon
    <3>2. None \notin ChainCalls \cup Creates \cup Openers
      BY <1>0, KindsDiffer, DescriptorsAssumption, Zenon
    <3> QED BY <2>3, <3>1, <3>2, Zenon DEF HeldAt
  <2>5. ASSUME NEW e \in Descriptors, e # x PROVE HeldAt(e)'
    <3>1. owner'[e] = owner[e] /\ HeldAt(e)
      BY <1>0, <1>3, <2>x, <2>5, Zenon DEF HeldInv
    <3>2. owner[e] # c
      <4>1. SUFFICES ASSUME owner[e] = c PROVE FALSE
        BY Zenon
      <4>2. c \in ChainCalls \cup Creates
        BY <1>0, <2>2, <4>1, OwnerFacts, KindsDiffer, Zenon
      <4>3. Holds(c, e)
        BY <2>2, <4>1, <4>2, OwnerFacts, Zenon DEF Done
      <4> QED BY <1>3, <2>x, <2>5, <4>3, HoldsFacts, Zenon
    <3>3. owner[e] \in Calls => io'[owner[e]] = io[owner[e]] /\ req'[owner[e]] = req[owner[e]]
      BY <2>1, <3>2, Zenon DEF Others
    <3>4. CASE c \notin Closers
      <4>1. \A f \in Closers : req'[f].op = "close" /\ req'[f].done /\ req'[f].res >= 0 =>
                               req[f].op = "close" /\ req[f].done /\ req[f].res >= 0
        BY <1>0, <2>1, <3>4, KindsDiffer, Zenon DEF Others
      <4> QED BY <1>0, <2>1, <3>1, <3>3, <4>1, HeldStays, Zenon
    <3>5. CASE c \in Closers
      <4>1. PICK o : o = owner[e] /\ (o \in Calls => o # c)
        BY <3>2, Zenon
      <4>2. o \in Calls => (Holds(o, e)' <=> Holds(o, e)) /\ (Done(o)' <=> Done(o))
        BY <2>3, <3>3, <4>1, Zenon DEF Holds, Done, Made
      <4>3. o \in ChainCalls \cup Creates \cup Openers => o \in Calls
        BY <1>0, KindsDiffer, Zenon
      <4>4. is_loop_alive' = is_loop_alive
        BY <2>1, Zenon DEF is_loop_alive
      <4>5. o \in Openers /\ is_loop_alive => Holds(o, e)
        BY <1>3, <2>x, <2>5, <3>1, <3>5, <4>1, Zenon DEF HeldAt, CloseInv
      <4> QED BY <2>3, <3>1, <4>1, <4>2, <4>3, <4>4, <4>5, ZenonT(30) DEF HeldAt
    <3> QED BY <3>4, <3>5, Zenon
  <2> QED BY <2>4, <2>5, Zenon DEF HeldInv
<1>4. ASSUME Executed(c, -1, req[c].data), req[c].op # "none", owner' = owner,
             req[c].op = "close" => ~(req[c].fd \in Descriptors /\ owner[req[c].fd] # None)
      PROVE  HeldInv'
  <2>1. CASE req[c].op \in {"read", "write"}
    BY <1>2, <1>4, <2>1, Zenon
  <2>2. CASE req[c].op \in {"open", "close"}
    <3>1. /\ Others(c) /\ kind' = kind /\ loop' = loop /\ file' = file /\ ~req[c].done /\ req'[c].res = -1
      BY <1>4, Zenon DEF Executed, Others
    <3>2. /\ io[c].result = "waiting" /\ (c \in Openers => ~file.exists)
      BY <1>0, <1>4, Zenon DEF Shape
    <3>3. ~(req'[c].res >= 0)
      BY <3>1
    <3>4. ASSUME NEW d \in Descriptors, owner[d] = c PROVE c \in Openers /\ ~is_loop_alive
      <4>1. ~Holds(c, d)
        BY <1>4, <2>2, <3>1, <3>4, HoldsFacts, DescriptorsAssumption
      <4>2. ~Done(c)
        BY <3>2, Zenon DEF Done
      <4> QED BY <3>2, <3>4, <4>1, <4>2, OwnerFacts, Zenon
    <3> QED BY <1>4, <3>1, <3>3, <3>4, HeldActs, Zenon
  <2> QED BY <1>0, <1>4, <2>1, <2>2, Zenon DEF Reqs
<1> QED BY <1>1, <1>2, <1>3, <1>4, PoolForms, Zenon

\* A fiber that uses a File, or opens one and closes it.
LEMMA FiberHeld ==
    ASSUME ShapeInv, HeldInv, NEW c \in Calls, Others(c), Quiet,
           file'.exists = file.exists /\ file'.fd = file.fd /\ file'.closed = file.closed, ~req'[c].done,
           c \in ChainCalls \cup Creates \cup Openers =>
              \A d \in Descriptors : owner[d] = c =>
                  \/ Holds(c, d)'
                  \/ c \in Creates /\ ~is_loop_alive /\ Done(c)'
                  \/ c \in Openers /\ ~is_loop_alive
    PROVE  HeldInv'
<1>1. kind' = kind /\ loop' = loop /\ owner' = owner
  BY Zenon DEF Quiet
<1>2. ASSUME NEW d \in Descriptors, owner[d] = c PROVE c \in ChainCalls \cup Creates \cup Openers
  BY <1>2, OwnerFacts, Zenon
<1> QED BY <1>1, <1>2, HeldActs, Zenon

\* Every step keeps HeldInv.
LEMMA HeldStep ==
    ASSUME ShapeInv, HeldInv, CloseInv, [Next]_vars
    PROVE  HeldInv'
<1>0. Types /\ owner \in [Descriptors -> Calls \cup {None}]
  BY Zenon DEF ShapeInv, Types
<1>1. ASSUME NEW c \in Calls, Pool(c) PROVE HeldInv'
  BY <1>1, PoolHeld, Zenon
<1>2. ASSUME NEW c \in Calls, Chain(c) \/ (c \in ChainCalls /\ Begin(c)), UNCHANGED <<file, track, stolen>>
      PROVE  HeldInv'
  BY <1>2, ChainHeld, Zenon
<1>3. ASSUME NEW c \in Calls, OnFsWrite(c) PROVE HeldInv'
  <2>1. c \in Writers /\ Others(c) /\ Quiet /\ file' = file /\ ~req'[c].done
    BY <1>3, OnFsWriteForms, Zenon
  <2>2. c \notin ChainCalls \cup Creates \cup Openers
    BY <1>0, <2>1, KindsDiffer, Zenon
  <2> QED BY <2>1, <2>2, FiberHeld, Zenon
<1>4. ASSUME NEW c \in Calls, OpenFile(c) PROVE HeldInv'
  <2>1. /\ c \in Creates \cup Openers /\ is_loop_alive /\ io[c].result = "new" /\ file' = file
        /\ Waits(c, "open", req'[c].fd, 0)
    BY <1>4, OpenFileForms, Zenon
  <2>2. Others(c) /\ Quiet /\ ~req'[c].done
    BY <2>1, Zenon DEF Waits
  <2>3. c \in Openers => ~file.exists
    BY <2>1, Zenon DEF ShapeInv, Shape
  <2>4. ASSUME NEW d \in Descriptors, owner[d] = c PROVE FALSE
    <3>1. ~Holds(c, d) /\ ~Done(c)
      BY <2>1, HoldsFacts, Zenon DEF Done, Made
    <3> QED BY <2>1, <2>3, <2>4, <3>1, OwnerFacts, KindsDiffer, Zenon
  <2> QED BY <2>1, <2>2, <2>4, FiberHeld, Zenon
<1>5. ASSUME NEW c \in Calls, Opened(c) PROVE HeldInv'
  <2>1. /\ c \in Openers /\ req[c].op = "open" /\ req[c].done /\ ~file.exists
        /\ \/ req[c].res < 0 /\ Returned(c, "error") /\ file' = file
           \/ ~is_loop_alive /\ Returned(c, "undefined") /\ file' = file
           \/ /\ Returned(c, "ok") /\ file'.exists /\ file'.fd = req[c].res /\ file'.closed = file.closed
    BY <1>5, OpenedForms, Zenon
  <2>2. Others(c) /\ Quiet /\ ~req'[c].done
    BY <2>1, Zenon DEF Returned
  <2>3. ~file.closed /\ \A e \in Closers : req[e].op # "close"
    BY <1>0, <2>1, KindsDiffer, Zenon DEF CloseInv, ShapeInv, Shape, Made
  <2>4. ASSUME NEW d \in Descriptors, owner[d] = c, is_loop_alive PROVE req[c].res = d
    BY <2>1, <2>4, OwnerFacts, HoldsFacts, Zenon
  <2>5. CASE (req[c].res < 0 \/ ~is_loop_alive) /\ file' = file
    <3>1. ASSUME NEW d \in Descriptors, owner[d] = c PROVE ~is_loop_alive
      BY <2>4, <2>5, <3>1, HoldsFacts
    <3> QED BY <2>1, <2>2, <2>5, <3>1, FiberHeld, Zenon
  <2>6. CASE file'.exists /\ file'.fd = req[c].res /\ file'.closed = file.closed
    <3> SUFFICES ASSUME NEW d \in Descriptors PROVE HeldAt(d)'
      BY Zenon DEF HeldInv
    <3>1. kind' = kind /\ loop' = loop /\ owner' = owner /\ HeldAt(d)
      BY <2>2, Zenon DEF Quiet, HeldInv
    <3>2. /\ ChainCalls' = ChainCalls /\ Creates' = Creates /\ Openers' = Openers /\ Closers' = Closers
          /\ is_loop_alive' = is_loop_alive
      BY <3>1, SameKinds, Zenon DEF is_loop_alive
    <3>3. PICK o : o = owner[d]
      BY Zenon
    <3>4. CASE o = c
      <4>1. c \notin ChainCalls \cup Creates
        BY <1>0, <2>1, KindsDiffer, Zenon
      <4>2. \A e \in Closers : req'[e].op # "close"
        BY <1>0, <2>1, <2>2, <2>3, KindsDiffer, ZenonT(30) DEF Others
      <4> QED BY <2>1, <2>3, <2>4, <2>6, <3>1, <3>2, <3>3, <3>4, <4>1, <4>2, ZenonT(30) DEF HeldAt
    <3>5. CASE o # c
      <4>1. o \in Calls => (Holds(o, d)' <=> Holds(o, d)) /\ (Done(o)' <=> Done(o))
        BY <2>2, <3>2, <3>5, Zenon DEF Holds, Done, Made, Others
      <4>2. o \notin Openers /\ (o \in ChainCalls \cup Creates => o \in Calls)
        BY <1>0, <2>1, <3>5, KindsDiffer, Zenon
      <4> QED BY <3>1, <3>2, <3>3, <4>1, <4>2, Zenon DEF HeldAt
    <3> QED BY <3>4, <3>5, Zenon
  <2> QED BY <2>1, <2>5, <2>6, Zenon
<1>6. ASSUME NEW c \in Calls, Created(c) PROVE HeldInv'
  <2>1. /\ c \in Creates /\ req[c].op = "open" /\ req[c].done /\ file' = file
        /\ \/ req[c].res < 0 /\ Returned(c, "error")
           \/ Waits(c, "close", req[c].res, 0)
           \/ ~is_loop_alive /\ Returned(c, "undefined")
    BY <1>6, CreatedForms, Zenon
  <2>2. Others(c) /\ Quiet /\ ~req'[c].done
    BY <2>1, Zenon DEF Returned, Waits
  <2>3. io[c].result = "waiting" /\ req[c] \in Reqs
    BY <1>0, <2>1, Zenon DEF ShapeInv, Shape, Types
  <2>4. ASSUME NEW d \in Descriptors, owner[d] = c
        PROVE  Holds(c, d)' \/ (c \in Creates /\ ~is_loop_alive /\ Done(c)')
    <3>1. req[c].res = d /\ d >= 0
      BY <2>1, <2>3, <2>4, OwnerFacts, HoldsFacts, Zenon DEF Done
    <3>2. CASE req[c].res < 0
      BY <2>3, <3>1, <3>2, DescriptorsAssumption
    <3>3. CASE Waits(c, "close", req[c].res, 0)
      BY <2>2, <3>1, <3>3, Zenon DEF Holds, Waits
    <3>4. CASE ~is_loop_alive /\ Returned(c, "undefined")
      BY <2>1, <3>4, Zenon DEF Done, Made, Returned
    <3> QED BY <2>1, <3>2, <3>3, <3>4, Zenon
  <2> QED BY <2>1, <2>2, <2>4, FiberHeld, Zenon
<1>7. ASSUME NEW c \in Calls, CreatedClosed(c) PROVE HeldInv'
  <2>1. c \in Creates /\ req[c].op = "close" /\ req[c].done /\ file' = file
    BY <1>7, CreatedClosedForms, Zenon
  <2>2. Others(c) /\ Quiet /\ ~req'[c].done
    BY <1>7, CreatedClosedForms, Zenon DEF Returned
  <2>3. io[c].result = "waiting"
    BY <1>0, <2>1, Zenon DEF ShapeInv, Shape
  <2>4. ASSUME NEW d \in Descriptors, owner[d] = c PROVE FALSE
    BY <2>1, <2>3, <2>4, OwnerFacts, HoldsFacts, Zenon DEF Done
  <2> QED BY <2>1, <2>2, <2>4, FiberHeld, Zenon
<1>8. ASSUME NEW c \in Calls, c \in Readers \cup Writers \cup Seeks \cup Closers, Others(c), Quiet, ~req'[c].done,
             file'.exists = file.exists /\ file'.fd = file.fd /\ file'.closed = file.closed
      PROVE  HeldInv'
  <2>1. c \notin ChainCalls \cup Creates \cup Openers
    BY <1>0, <1>8, KindsDiffer, Zenon
  <2> QED BY <1>8, <2>1, FiberHeld, Zenon
<1>9. ASSUME NEW c \in Calls, Use(c) PROVE HeldInv'
  <2>1. c \in Readers \cup Writers /\ file' = file /\ Others(c) /\ Quiet /\ ~req'[c].done
    BY <1>9, UseForms, Zenon DEF Returned, Waits
  <2> QED BY <1>8, <2>1, Zenon
<1>10. ASSUME NEW c \in Calls, UsedRead(c) \/ UsedWrite(c) PROVE HeldInv'
  <2>1. /\ c \in Readers \cup Writers /\ Others(c) /\ Quiet /\ ~req'[c].done
        /\ file'.exists = file.exists /\ file'.fd = file.fd /\ file'.closed = file.closed
    BY <1>10, UsedReadForms, UsedWriteForms, Zenon DEF Returned, Counted
  <2> QED BY <1>8, <2>1, Zenon
<1>11. ASSUME NEW c \in Calls, Seek(c) PROVE HeldInv'
  <2>1. /\ c \in Seeks /\ Others(c) /\ Quiet /\ ~req'[c].done
        /\ file'.exists = file.exists /\ file'.fd = file.fd /\ file'.closed = file.closed
    BY <1>11, SeekForms, Zenon DEF Returned
  <2> QED BY <1>8, <2>1, Zenon
<1>12. ASSUME NEW c \in Closers, Others(c), Quiet, ~req'[c].done, Shut,
              ~is_loop_alive \/ (req[c].op = "close" /\ req[c].done /\ req[c].res >= 0)
       PROVE  HeldInv'
  <2> SUFFICES ASSUME NEW d \in Descriptors PROVE HeldAt(d)'
    BY Zenon DEF HeldInv
  <2>1. kind' = kind /\ loop' = loop /\ owner' = owner /\ HeldAt(d)
    BY <1>12, Zenon DEF Quiet, HeldInv
  <2>2. /\ ChainCalls' = ChainCalls /\ Creates' = Creates /\ Openers' = Openers /\ Closers' = Closers
        /\ is_loop_alive' = is_loop_alive
    BY <2>1, SameKinds, Zenon DEF is_loop_alive
  <2>3. PICK o : o = owner[d]
    BY Zenon
  <2>4. o \in ChainCalls \cup Creates \cup Openers => o \in Calls /\ o # c
    BY <1>0, <1>12, KindsDiffer
  <2>5. o \in Calls /\ o # c => (Holds(o, d)' <=> Holds(o, d)) /\ (Done(o)' <=> Done(o))
    BY <1>12, <2>2, Zenon DEF Holds, Done, Made, Others
  <2>6. o \in Openers /\ is_loop_alive => Holds(o, d)
    BY <1>12, <2>1, <2>3, Zenon DEF HeldAt
  <2> QED BY <2>1, <2>2, <2>3, <2>4, <2>5, <2>6, Zenon DEF HeldAt
<1>13. ASSUME NEW c \in Calls, CloseFile(c) PROVE HeldInv'
  <2>1. /\ c \in Closers
        /\ \/ Returned(c, "ok") /\ file' = file
           \/ ~is_loop_alive /\ Returned(c, "ok") /\ Shut
           \/ Waits(c, "close", file.fd, 0) /\ file' = file
    BY <1>13, CloseFileForms, Zenon
  <2>2. Others(c) /\ Quiet /\ ~req'[c].done
    BY <2>1, Zenon DEF Returned, Waits
  <2> QED BY <1>8, <1>12, <2>1, <2>2, Zenon
<1>14. ASSUME NEW c \in Calls, ClosedFile(c) PROVE HeldInv'
  <2>1. /\ c \in Closers /\ req[c].op = "close" /\ req[c].done
        /\ \/ Returned(c, "error") /\ file' = file
           \/ req[c].res >= 0 /\ Returned(c, "ok") /\ Shut
    BY <1>14, ClosedFileForms, Zenon
  <2>2. Others(c) /\ Quiet /\ ~req'[c].done
    BY <2>1, Zenon DEF Returned
  <2> QED BY <1>8, <1>12, <2>1, <2>2, Zenon
<1>15. ASSUME UNCHANGED <<kind, fsVars, io, file, track, stolen>>, loop' = loop \/ loop' # "running"
       PROVE  HeldInv'
  <2> SUFFICES ASSUME NEW d \in Descriptors PROVE HeldAt(d)'
    BY Zenon DEF HeldInv
  <2>1. /\ ChainCalls' = ChainCalls /\ Creates' = Creates /\ Openers' = Openers /\ Closers' = Closers
        /\ (is_loop_alive' => is_loop_alive) /\ HeldAt(d) /\ owner' = owner /\ file' = file /\ req' = req
    BY <1>15, SameKinds, Zenon DEF is_loop_alive, HeldInv, fsVars
  <2>2. PICK o : o = owner[d]
    BY Zenon
  <2>3. (Holds(o, d)' <=> Holds(o, d)) /\ (Done(o)' <=> Done(o))
    BY <1>15, <2>1, Zenon DEF Holds, Done, Made
  <2> QED BY <2>1, <2>2, <2>3, Zenon DEF HeldAt
<1>16. CASE LoopDies \/ LoopDead \/ UNCHANGED vars
  BY <1>15, <1>16, Zenon DEF LoopDies, LoopDead, vars
<1>17. ChainCalls \subseteq Calls /\ FileCalls \subseteq Calls
  BY <1>0, KindsDiffer, Zenon DEF FileCalls
<1> QED BY <1>1, <1>2, <1>3, <1>4, <1>5, <1>6, <1>7, <1>9, <1>10, <1>11, <1>13, <1>14, <1>16, <1>17, SMTT(30)
        DEF Next, Callback, Resume

\* What OnceInv says of a call that is not a close() of the File, and of one that is.
Owned(c) ==
    /\ req[c].op = "open" /\ req[c].done /\ req[c].res >= 0 => Has(c, req[c].res)
    /\ c \in ChainCalls /\ req[c].op \in {"read", "write"} => Has(c, req[c].fd)
    /\ req[c].op = "close" /\ ~req[c].done => Has(c, req[c].fd)

Frees(c) ==
    req[c].op = "close" /\ ~req[c].done => req[c].fd \in Descriptors /\ owner[req[c].fd] \in Openers

\* OnceInv in these terms.
LEMMA OnceFacts ==
    ASSUME OnceInv, ~Twice
    PROVE  /\ ~stolen /\ \A c \in Calls \ Closers : Owned(c)
           /\ file.exists /\ (\A c \in Closers : ~Made(c)) =>
                 ~file.closed /\ file.fd \in Descriptors /\ owner[file.fd] \in Openers
           /\ \A c \in Closers : Frees(c)
BY Zenon DEF OnceInv, Owned, Frees

\* A call once made stays made.
LEMMA TwiceStays ==
    ASSUME Types, kind' = kind, NEW c \in Calls, Others(c), Made(c) => Made(c)'
    PROVE  Twice => Twice'
<1>1. Closers' = Closers /\ Closers \subseteq Calls
  BY SameKinds, KindsDiffer, Zenon
<1>2. \A e \in Closers : Made(e) => Made(e)'
  BY <1>1, Zenon DEF Others, Made
<1> QED BY <1>1, <1>2, Zenon DEF Twice

\* A step of one call, which neither opens nor frees a descriptor.
LEMMA OnceActs ==
    ASSUME ShapeInv, CloseInv, OnceInv, NEW c \in Calls, Others(c), kind' = kind, loop' = loop,
           owner' = owner, stolen' = stolen, Made(c) => Made(c)',
           \/ file'.exists = file.exists /\ file'.fd = file.fd /\ file'.closed = file.closed
           \/ Shut /\ file.exists /\ c \in Closers /\ Made(c)',
           c \in Closers /\ req'[c].op = "close" => \/ req'[c].fd = file.fd
                                                    \/ req[c].op = "close" /\ req'[c].fd = req[c].fd,
           c \notin Closers /\ ~Twice => Owned(c)',
           c \in Closers /\ ~Twice' => Frees(c)'
    PROVE  CloseInv' /\ OnceInv'
<1>0. Types /\ Closers' = Closers /\ ChainCalls' = ChainCalls /\ Openers' = Openers /\ Closers \subseteq Calls
  BY SameKinds, KindsDiffer, Zenon DEF ShapeInv
<1>1. is_loop_alive' = is_loop_alive
  BY Zenon DEF is_loop_alive
<1>2. CloseInv'
  <2>1. file'.closed => file'.exists
    BY Zenon DEF CloseInv, Shut
  <2>2. ASSUME NEW e \in Closers, req'[e].op = "close", is_loop_alive
        PROVE  file'.closed \/ req'[e].fd = file'.fd
    BY <1>0, <2>2, Zenon DEF CloseInv, Shut, Others
  <2> QED BY <1>0, <1>1, <2>1, <2>2, Zenon DEF CloseInv
<1>3. OnceInv'
  <2>1. SUFFICES ASSUME ~Twice'
                 PROVE  /\ ~stolen' /\ \A e \in Calls \ Closers : Owned(e)'
                        /\ file'.exists /\ (\A e \in Closers : ~Made(e)') =>
                              ~file'.closed /\ file'.fd \in Descriptors /\ owner'[file'.fd] \in Openers
                        /\ \A e \in Closers : Frees(e)'
    BY <1>0, Zenon DEF OnceInv, Owned, Frees
  <2>2. ~Twice
    BY <1>0, <2>1, TwiceStays, Zenon
  <2>3. \A e \in Calls \ Closers : Owned(e)'
    <3>1. ASSUME NEW e \in Calls \ Closers, e # c PROVE Owned(e)'
      <4>1. Owned(e) /\ req'[e] = req[e]
        BY <2>2, <3>1, OnceFacts, Zenon DEF Others
      <4> QED BY <1>0, <4>1, Zenon DEF Owned, Has
    <3> QED BY <2>2, <3>1, Zenon
  <2>4. \A e \in Closers : Frees(e)'
    <3>1. ASSUME NEW e \in Closers, e # c PROVE Frees(e)'
      <4>1. Frees(e) /\ req'[e] = req[e]
        BY <1>0, <2>2, <3>1, OnceFacts, Zenon DEF Others
      <4> QED BY <1>0, <4>1, Zenon DEF Frees
    <3> QED BY <2>1, <3>1, Zenon
  <2>5. ASSUME file'.exists, \A e \in Closers : ~Made(e)'
        PROVE  ~file'.closed /\ file'.fd \in Descriptors /\ owner'[file'.fd] \in Openers
    <3>1. \A e \in Closers : ~Made(e)
      BY <1>0, <2>5, Zenon DEF Others, Made
    <3> QED BY <2>2, <2>5, <3>1, OnceFacts, Zenon
  <2> QED BY <2>2, <2>3, <2>4, <2>5, OnceFacts, Zenon
<1> QED BY <1>2, <1>3, Zenon

\* The chains use and free what they have opened.
LEMMA ChainOnce ==
    ASSUME ShapeInv, CloseInv, OnceInv, NEW c \in Calls, UNCHANGED <<file, track, stolen>>,
           Chain(c) \/ (c \in ChainCalls /\ Begin(c))
    PROVE  CloseInv' /\ OnceInv'
<1>0. Types /\ Shape(c) /\ req[c] \in Reqs /\ io[c] \in Ios /\ DataLen \in Nat
  BY LengthsAssumption, Zenon DEF ShapeInv, Types
<1>1. ASSUME NEW o \in {"waiting", "ok", "error"}, NEW fd, Chained(c, o, fd), req'[c].op \in {"none", "open"} \/ (
                ~Twice => Has(c, req'[c].fd))
      PROVE  CloseInv' /\ OnceInv'
  <2>1. /\ c \in ChainCalls /\ Others(c) /\ kind' = kind /\ loop' = loop /\ owner' = owner
        /\ ~req'[c].done /\ Made(c)'
    BY <1>1, Zenon DEF Chained, Quiet, Made
  <2>2. c \notin Closers
    BY <1>0, <2>1, KindsDiffer, Zenon
  <2>3. ~Twice => Owned(c)'
    BY <1>1, <2>1, Zenon DEF Owned, Has
  <2> QED BY <2>1, <2>2, <2>3, OnceActs, Zenon
<1>2. c \in ChainCalls => c \notin Closers
  BY <1>0, KindsDiffer, Zenon
<1>3. CASE c \in ChainCalls /\ Begin(c)
  <2>1. Chained(c, "waiting", io[c].fd) /\ req'[c].op = "open"
    BY <1>3, BeginForms, Zenon
  <2> QED BY <1>1, <2>1, Zenon
<1>4. CASE OnOpen(c)
  <2>1. c \in ChainCalls /\ req[c].op = "open" /\ req[c].done
    BY <1>4, OnOpenForms, Zenon
  <2>2. CASE Chained(c, "error", io[c].fd) /\ req'[c].op = "none"
    BY <1>1, <2>2, Zenon
  <2>3. CASE req[c].res \in Descriptors /\ Chained(c, "waiting", req[c].res) /\ req'[c].fd = req[c].res
    <3>1. req[c].res >= 0
      <4>1. req[c].res \in Nat
        BY <2>3, DescriptorsAssumption, Zenon
      <4> QED BY <4>1
    <3>2. ~Twice => Has(c, req[c].res)
      BY <1>2, <2>1, <3>1, OnceFacts, Zenon DEF Owned
    <3> QED BY <1>1, <2>3, <3>2, Zenon
  <2> QED BY <1>4, <2>2, <2>3, OnOpenForms, Zenon
<1>5. ASSUME c \in ChainCalls, req[c].op \in {"read", "write"}, Chained(c, "waiting", io[c].fd),
             req'[c].fd = io[c].fd
      PROVE  CloseInv' /\ OnceInv'
  <2>1. req[c].fd = io[c].fd
    BY <1>0, <1>5, Zenon DEF Shape
  <2>2. ~Twice => Has(c, req'[c].fd)
    BY <1>2, <1>5, <2>1, OnceFacts, Zenon DEF Owned
  <2> QED BY <1>1, <1>5, <2>2, Zenon
<1>6. CASE OnRead(c)
  <2>1. /\ req[c].op = "read" /\ Chained(c, "waiting", io[c].fd) /\ req'[c].fd = io[c].fd /\ c \in ChainCalls
    BY <1>6, OnReadForms, Zenon DEF Chained
  <2> QED BY <1>5, <2>1, Zenon
<1>7. CASE OnWrite(c)
  <2>1. /\ req[c].op = "write" /\ Chained(c, "waiting", io[c].fd) /\ req'[c].fd = io[c].fd /\ c \in ChainCalls
    BY <1>7, OnWriteForms, Zenon DEF Chained
  <2> QED BY <1>5, <2>1, Zenon
<1>8. CASE OnClose(c)
  <2>1. PICK o \in {"ok", "error"} : req'[c].op = "none" /\ Chained(c, o, io[c].fd)
    BY <1>8, OnCloseForms, Zenon
  <2> QED BY <1>1, <2>1, Zenon
<1> QED BY <1>3, <1>4, <1>6, <1>7, <1>8, ZenonT(30) DEF Chain

\* The pool frees no descriptor but the one that it is asked to.
LEMMA PoolOnce ==
    ASSUME ShapeInv, CloseInv, OnceInv, NEW c \in Calls, Pool(c)
    PROVE  CloseInv' /\ OnceInv'
<1>0. Types /\ Shape(c) /\ req[c] \in Reqs /\ owner \in [Descriptors -> Calls \cup {None}] /\ None \notin Calls
  BY DescriptorsAssumption, Zenon DEF ShapeInv, Types
<1>1. ASSUME NEW res \in Int, NEW data, Executed(c, res, data), req[c].op # "none",
             req[c].op \in {"read", "write"} \/ (res = -1)
      PROVE  owner' = owner /\ stolen' = stolen => CloseInv' /\ OnceInv'
  <2>0. SUFFICES ASSUME owner' = owner, stolen' = stolen PROVE CloseInv' /\ OnceInv'
    BY Zenon
  <2>1. /\ Others(c) /\ kind' = kind /\ loop' = loop /\ file' = file /\ io' = io /\ (Made(c) => Made(c)')
        /\ req'[c].op = req[c].op /\ req'[c].fd = req[c].fd /\ req'[c].done /\ req'[c].res = res
    BY <1>1, Zenon DEF Executed, Others, Made
  <2>2. ChainCalls' = ChainCalls
    BY <2>1, SameKinds, Zenon
  <2>3. ASSUME c \notin Closers, ~Twice PROVE Owned(c)'
    <3>1. Owned(c)
      BY <2>3, OnceFacts, Zenon
    <3> QED BY <1>1, <2>0, <2>1, <2>2, <3>1 DEF Owned, Has
  <2>4. Frees(c)'
    BY <2>1, Zenon DEF Frees
  <2> QED BY <2>0, <2>1, <2>3, <2>4, OnceActs, Zenon
<1>2. ASSUME NEW x, Others(c), kind' = kind, loop' = loop, file' = file, io' = io,
             req'[c].op = req[c].op, req'[c].fd = req[c].fd, req'[c].done,
             x \in Descriptors, \A d \in Descriptors \ {x} : owner'[d] = owner[d],
             ~Twice => /\ ~stolen' /\ (c \notin Closers => Owned(c)')
                       /\ \A e \in Calls \ (Closers \cup {c}) : Owned(e) /\ req[e].op # "none" => ~Has(e, x)
                       /\ (\A e \in Closers : ~Made(e)) => owner[x] \notin Openers
                       /\ (\E e \in Closers : e # c /\ req[e].op = "close" /\ ~req[e].done) =>
                             owner[x] \notin Openers
      PROVE  CloseInv' /\ OnceInv'
  <2>0. Closers' = Closers /\ ChainCalls' = ChainCalls /\ Openers' = Openers /\ Closers \subseteq Calls
    BY <1>0, <1>2, SameKinds, KindsDiffer, Zenon
  <2>1. CloseInv'
    <3>1. is_loop_alive' = is_loop_alive
      BY <1>2, Zenon DEF is_loop_alive
    <3>2. ASSUME NEW e \in Closers, req'[e].op = "close", is_loop_alive
          PROVE  file'.closed \/ req'[e].fd = file'.fd
      BY <1>2, <2>0, <3>2, ZenonT(30) DEF CloseInv, Others
    <3> QED BY <1>2, <2>0, <3>1, <3>2, Zenon DEF CloseInv
  <2>2. SUFFICES ASSUME ~Twice'
                 PROVE  /\ ~stolen' /\ \A e \in Calls \ Closers : Owned(e)'
                        /\ file'.exists /\ (\A e \in Closers : ~Made(e)') =>
                              ~file'.closed /\ file'.fd \in Descriptors /\ owner'[file'.fd] \in Openers
                        /\ \A e \in Closers : Frees(e)'
    BY <2>0, <2>1, Zenon DEF OnceInv, Owned, Frees
  <2>3. ~Twice /\ \A e \in Calls : Made(e)' <=> Made(e)
    BY <1>2, <2>0, <2>2, Zenon DEF Twice, Made
  <2>4. ASSUME NEW e \in Calls \ Closers PROVE Owned(e)'
    <3>1. CASE e = c
      BY <1>2, <2>3, <3>1, ZenonT(30)
    <3>2. CASE e # c
      <4>1. Owned(e) /\ req'[e] = req[e] /\ (req[e].op # "none" => ~Has(e, x))
        BY <1>2, <2>3, <3>2, OnceFacts, Zenon DEF Others
      <4> QED BY <1>2, <2>0, <4>1 DEF Owned, Has
    <3> QED BY <3>1, <3>2, Zenon
  <2>5. ASSUME NEW e \in Closers PROVE Frees(e)'
    <3>1. CASE e = c
      BY <1>2, <3>1, Zenon DEF Frees
    <3>2. CASE e # c
      <4>1. Frees(e) /\ req'[e] = req[e]
        BY <1>2, <2>0, <2>3, <3>2, OnceFacts, Zenon DEF Others
      <4>2. req[e].op = "close" /\ ~req[e].done => owner[x] \notin Openers
        BY <1>2, <2>3, <3>2, Zenon
      <4> QED BY <1>2, <2>0, <4>1, <4>2, Zenon DEF Frees
    <3> QED BY <3>1, <3>2, Zenon
  <2>6. ASSUME file'.exists, \A e \in Closers : ~Made(e)'
        PROVE  ~file'.closed /\ file'.fd \in Descriptors /\ owner'[file'.fd] \in Openers
    <3>1. \A e \in Closers : ~Made(e)
      BY <2>0, <2>3, <2>6, Zenon
    <3>2. ~file.closed /\ file.fd \in Descriptors /\ owner[file.fd] \in Openers /\ owner[x] \notin Openers
      BY <1>2, <2>3, <2>6, <3>1, OnceFacts, Zenon
    <3> QED BY <1>2, <3>2, Zenon
  <2> QED BY <1>2, <2>3, <2>4, <2>5, <2>6, ZenonT(30)
<1>3. ASSUME NEW d \in Descriptors, Executed(c, d, <<>>), req[c].op = "open", owner[d] = None,
             owner' = [owner EXCEPT ![d] = c], stolen' = stolen
      PROVE  CloseInv' /\ OnceInv'
  <2>1. /\ Others(c) /\ kind' = kind /\ loop' = loop /\ file' = file /\ io' = io
        /\ req'[c].op = req[c].op /\ req'[c].fd = req[c].fd /\ req'[c].done /\ req'[c].res = d
    BY <1>3, Zenon DEF Executed, Others
  <2>2. owner'[d] = c /\ \A e \in Descriptors \ {d} : owner'[e] = owner[e]
    BY <1>0, <1>3, Zenon
  <2>3. Owned(c)'
    BY <1>3, <2>1, <2>2, Zenon DEF Owned, Has
  <2>4. owner[d] \notin Openers /\ \A e \in Calls : ~Has(e, d)
    BY <1>0, <1>3, KindsDiffer, Zenon DEF Has
  <2> QED BY <1>2, <1>3, <2>1, <2>2, <2>3, <2>4, OnceFacts, Zenon
<1>4. ASSUME NEW res \in {0, -1}, Executed(c, res, <<>>), req[c].op = "close", req[c].fd \in Descriptors,
             owner' = [owner EXCEPT ![req[c].fd] = None],
             stolen' <=> stolen \/ (c \in Closers /\ owner[req[c].fd] \notin Openers)
      PROVE  CloseInv' /\ OnceInv'
  <2>1. /\ Others(c) /\ kind' = kind /\ loop' = loop /\ file' = file /\ io' = io /\ ~req[c].done
        /\ req'[c].op = req[c].op /\ req'[c].fd = req[c].fd /\ req'[c].done
    BY <1>4, Zenon DEF Executed, Others
  <2>2. PICK x \in Descriptors : x = req[c].fd
    BY <1>4, Zenon
  <2>3. \A e \in Descriptors \ {x} : owner'[e] = owner[e]
    BY <1>0, <1>4, <2>2, Zenon
  <2>4. Owned(c)'
    BY <1>4, <2>1, Zenon DEF Owned
  <2>5. /\ io[c].result = "waiting" /\ c \in ChainCalls \cup Creates \cup Closers
        /\ c \notin Openers /\ Made(c) /\ (c \in Closers => file.exists)
    <3>1. io[c].result = "waiting" /\ Made(c) /\ "close" \in Ops(c)
      BY <1>0, <1>4, Zenon DEF Shape, Made
    <3>2. c \in ChainCalls \cup Creates \cup Closers
      BY <1>0, <3>1, KindFacts, Zenon
    <3>3. c \notin Openers /\ (c \in Closers => c \notin ChainCalls \cup Creates \cup Openers)
      BY <1>0, <3>2, KindsDiffer, Zenon
    <3> QED BY <1>0, <3>1, <3>2, <3>3, Zenon DEF Shape
  <2>6. ASSUME ~Twice, c \notin Closers PROVE owner[x] = c
    BY <1>4, <2>1, <2>2, <2>6, OnceFacts, Zenon DEF Owned, Has
  <2>7. ASSUME ~Twice, c \in Closers PROVE owner[x] \in Openers
    BY <1>4, <2>1, <2>2, <2>7, OnceFacts, Zenon DEF Frees
  <2>8. ASSUME ~Twice PROVE ~stolen'
    BY <1>4, <2>2, <2>7, <2>8, OnceFacts, Zenon
  <2>9. ASSUME ~Twice, NEW e \in Calls \ (Closers \cup {c}), Has(e, x), req[e].op # "none" PROVE FALSE
    <3>1. c \in Closers /\ e \in Openers
      BY <2>6, <2>7, <2>9, Zenon DEF Has
    <3>2. io[e].result = "waiting" /\ ~file.exists
      BY <2>9, <3>1, Zenon DEF ShapeInv, Shape
    <3> QED BY <2>5, <3>1, <3>2, Zenon
  <2>10. ASSUME ~Twice, (\A e \in Closers : ~Made(e)) \/ (\E e \in Closers : e # c /\ req[e].op = "close" /\ ~req[e].done)
         PROVE  owner[x] \notin Openers
    <3>1. \A e \in Closers : req[e].op = "close" => Made(e)
      BY <1>0, KindsDiffer, Zenon DEF ShapeInv, Shape, Made
    <3>2. c \notin Closers
      BY <2>5, <2>10, <3>1, Zenon DEF Twice
    <3> QED BY <2>5, <2>6, <2>10, <3>2, Zenon
  <2> QED BY <1>2, <2>1, <2>3, <2>4, <2>8, <2>9, <2>10, ZenonT(30)
<1>5. Nat \subseteq Int /\ 1 .. DataLen - From(c) \subseteq Int /\ -1 \in Int
  OBVIOUS
<1>6. ASSUME NEW k \in Nat, NEW data, Executed(c, k, data), req[c].op = "read", owner' = owner, stolen' = stolen
      PROVE  CloseInv' /\ OnceInv'
  BY <1>1, <1>5, <1>6, Zenon
<1>7. ASSUME NEW k \in 1 .. DataLen - From(c), NEW data, Executed(c, k, data), req[c].op = "write",
             owner' = owner, stolen' = stolen
      PROVE  CloseInv' /\ OnceInv'
  BY <1>1, <1>5, <1>7, Zenon
<1>8. ASSUME NEW data, Executed(c, -1, data), req[c].op # "none", owner' = owner, stolen' = stolen
      PROVE  CloseInv' /\ OnceInv'
  BY <1>1, <1>5, <1>8, ZenonT(30)
<1> QED BY <1>3, <1>4, <1>6, <1>7, <1>8, PoolForms, Zenon

\* Every step keeps CloseInv and OnceInv.
LEMMA OnceStep ==
    ASSUME ShapeInv, CloseInv, OnceInv, [Next]_vars
    PROVE  CloseInv' /\ OnceInv'
<1>0. Types
  BY Zenon DEF ShapeInv
<1>1. ASSUME NEW c \in Calls, Pool(c) PROVE CloseInv' /\ OnceInv'
  BY <1>1, PoolOnce, Zenon
<1>2. ASSUME NEW c \in Calls, Chain(c) \/ (c \in ChainCalls /\ Begin(c)), UNCHANGED <<file, track, stolen>>
      PROVE  CloseInv' /\ OnceInv'
  BY <1>2, ChainOnce, Zenon
<1>3. ASSUME NEW c \in Calls, Others(c), Quiet, stolen' = stolen, io'[c].result # "new",
             file'.exists = file.exists /\ file'.fd = file.fd /\ file'.closed = file.closed, ~req'[c].done,
             c \notin Closers \cup ChainCalls, req'[c].op = "close" => (~Twice => Has(c, req'[c].fd))
      PROVE  CloseInv' /\ OnceInv'
  <2>1. kind' = kind /\ loop' = loop /\ owner' = owner /\ Made(c)'
    BY <1>3, Zenon DEF Quiet, Made
  <2>2. ~Twice => Owned(c)'
    BY <1>3, <2>1, SameKinds, Zenon DEF Owned, Has
  <2> QED BY <1>3, <2>1, <2>2, OnceActs, Zenon
<1>4. ASSUME NEW c \in Calls, OnFsWrite(c) PROVE CloseInv' /\ OnceInv'
  <2>1. /\ c \in Writers /\ Others(c) /\ Quiet /\ file' = file /\ stolen' = stolen /\ ~req'[c].done
        /\ io'[c] = io[c] /\ req'[c].op = "write" /\ req[c].op = "write"
    BY <1>4, OnFsWriteForms, Zenon
  <2>2. c \notin ChainCalls \cup Closers
    BY <1>0, <2>1, KindsDiffer, Zenon
  <2>3. io[c].result = "waiting"
    BY <2>1, Zenon DEF ShapeInv, Shape
  <2> QED BY <1>3, <2>1, <2>2, <2>3, Zenon
<1>5. ASSUME NEW c \in Calls, OpenFile(c) PROVE CloseInv' /\ OnceInv'
  <2>1. /\ c \in Creates \cup Openers /\ file' = file /\ stolen' = stolen /\ Waits(c, "open", req'[c].fd, 0)
    BY <1>5, OpenFileForms, Zenon
  <2>2. c \notin ChainCalls \cup Closers
    BY <1>0, <2>1, KindsDiffer, Zenon
  <2>3. Others(c) /\ Quiet /\ ~req'[c].done /\ io'[c].result # "new" /\ req'[c].op = "open"
    BY <2>1, Zenon DEF Waits
  <2> QED BY <1>3, <2>1, <2>2, <2>3, Zenon
<1>6. ASSUME NEW c \in Calls, Opened(c) PROVE CloseInv' /\ OnceInv'
  <2>1. /\ c \in Openers /\ req[c].op = "open" /\ req[c].done /\ ~file.exists /\ stolen' = stolen
        /\ \/ (Returned(c, "error") \/ Returned(c, "undefined")) /\ file' = file
           \/ /\ req[c].res \in Descriptors /\ Returned(c, "ok")
              /\ file'.exists /\ file'.fd = req[c].res /\ file'.closed = file.closed
    BY <1>6, OpenedForms, Zenon
  <2>2. c \notin ChainCalls \cup Closers
    BY <1>0, <2>1, KindsDiffer, Zenon
  <2>3. Others(c) /\ Quiet /\ ~req'[c].done /\ io'[c].result # "new" /\ req'[c].op = "none"
    BY <2>1, Zenon DEF Returned
  <2>4. CASE file' = file
    BY <1>3, <2>1, <2>2, <2>3, <2>4, Zenon
  <2>5. CASE req[c].res \in Descriptors /\ file'.exists /\ file'.fd = req[c].res /\ file'.closed = file.closed
    <3>0. /\ Closers' = Closers /\ ChainCalls' = ChainCalls /\ Openers' = Openers /\ Closers \subseteq Calls
          /\ owner' = owner /\ kind' = kind
      BY <1>0, <2>3, SameKinds, KindsDiffer, Zenon DEF Quiet
    <3>1. ~file.closed /\ \A e \in Closers : ~Made(e) /\ req[e].op # "close"
      BY <1>0, <2>1, KindsDiffer, Zenon DEF CloseInv, ShapeInv, Shape, Made
    <3>2. \A e \in Closers : ~Made(e)' /\ req'[e].op # "close"
      BY <2>2, <2>3, <3>0, <3>1, Zenon DEF Others, Made
    <3>3. CloseInv'
      BY <2>5, <3>0, <3>1, <3>2, Zenon DEF CloseInv
    <3>4. req[c].res >= 0
      <4>1. req[c].res \in Nat
        BY <2>5, DescriptorsAssumption, Zenon
      <4> QED BY <4>1
    <3>5. ~Twice
      BY <3>1, Zenon DEF Twice
    <3>6. Has(c, req[c].res)
      BY <2>1, <2>2, <3>4, <3>5, OnceFacts, Zenon DEF Owned
    <3>7. ASSUME NEW e \in Calls \ Closers PROVE Owned(e)'
      <4>1. CASE e = c
        BY <2>3, <4>1, Zenon DEF Owned
      <4>2. CASE e # c
        <5>1. Owned(e) /\ req'[e] = req[e]
          BY <2>3, <3>5, <4>2, OnceFacts, ZenonT(30) DEF Others
        <5> QED BY <3>0, <5>1, Zenon DEF Owned, Has
      <4> QED BY <4>1, <4>2, Zenon
    <3>8. OnceInv'
      BY <2>1, <2>5, <3>0, <3>1, <3>2, <3>5, <3>6, <3>7, OnceFacts, SMTT(30) DEF OnceInv, Owned, Has
    <3> QED BY <3>3, <3>8, Zenon
  <2> QED BY <2>1, <2>4, <2>5, Zenon
<1>7. ASSUME NEW c \in Calls, Created(c) PROVE CloseInv' /\ OnceInv'
  <2>1. /\ c \in Creates /\ req[c].op = "open" /\ req[c].done /\ file' = file /\ stolen' = stolen
        /\ \/ Returned(c, "error")
           \/ req[c].res \in Descriptors /\ Waits(c, "close", req[c].res, 0)
           \/ Returned(c, "undefined")
    BY <1>7, CreatedForms, Zenon
  <2>2. c \notin ChainCalls \cup Closers
    BY <1>0, <2>1, KindsDiffer, Zenon
  <2>3. Others(c) /\ Quiet /\ ~req'[c].done /\ io'[c].result # "new"
    BY <2>1, Zenon DEF Returned, Waits
  <2>4. req'[c].op = "close" => req[c].res \in Descriptors /\ req'[c].fd = req[c].res
    BY <2>1, Zenon DEF Returned, Waits
  <2>5. ASSUME req'[c].op = "close", ~Twice PROVE Has(c, req'[c].fd)
    <3>1. req[c].res \in Nat
      BY <2>4, <2>5, DescriptorsAssumption, Zenon
    <3>2. req[c].res >= 0
      BY <3>1
    <3> QED BY <2>1, <2>2, <2>4, <2>5, <3>2, OnceFacts, Zenon DEF Owned
  <2> QED BY <1>3, <2>1, <2>2, <2>3, <2>5, Zenon
<1>8. ASSUME NEW c \in Calls, CreatedClosed(c) PROVE CloseInv' /\ OnceInv'
  <2>1. c \in Creates /\ file' = file /\ stolen' = stolen
    BY <1>8, CreatedClosedForms, Zenon
  <2>2. c \notin ChainCalls \cup Closers
    BY <1>0, <2>1, KindsDiffer, Zenon
  <2>3. Others(c) /\ Quiet /\ ~req'[c].done /\ io'[c].result # "new" /\ req'[c].op = "none"
    BY <1>8, CreatedClosedForms, Zenon DEF Returned
  <2> QED BY <1>3, <2>1, <2>2, <2>3, Zenon
<1>9. ASSUME NEW c \in Calls, Use(c) PROVE CloseInv' /\ OnceInv'
  <2>1. /\ c \in Readers \cup Writers /\ file' = file /\ stolen' = stolen /\ Others(c) /\ Quiet
        /\ ~req'[c].done /\ io'[c].result # "new" /\ req'[c].op # "close"
    BY <1>9, UseForms, Zenon DEF Returned, Waits
  <2>2. c \notin ChainCalls \cup Closers
    BY <1>0, <2>1, KindsDiffer, Zenon
  <2> QED BY <1>3, <2>1, <2>2, Zenon
<1>10. ASSUME NEW c \in Calls, UsedRead(c) \/ UsedWrite(c) PROVE CloseInv' /\ OnceInv'
  <2>1. /\ c \in Readers \cup Writers /\ Others(c) /\ Quiet /\ stolen' = stolen /\ ~req'[c].done
        /\ io'[c].result # "new" /\ req'[c].op # "close"
        /\ file'.exists = file.exists /\ file'.fd = file.fd /\ file'.closed = file.closed
    BY <1>10, UsedReadForms, UsedWriteForms, Zenon DEF Returned, Counted
  <2>2. c \notin ChainCalls \cup Closers
    BY <1>0, <2>1, KindsDiffer, Zenon
  <2> QED BY <1>3, <2>1, <2>2, Zenon
<1>11. ASSUME NEW c \in Calls, Seek(c) PROVE CloseInv' /\ OnceInv'
  <2>1. /\ c \in Seeks /\ Others(c) /\ Quiet /\ stolen' = stolen /\ ~req'[c].done
        /\ io'[c].result # "new" /\ req'[c].op # "close"
        /\ file'.exists = file.exists /\ file'.fd = file.fd /\ file'.closed = file.closed
    BY <1>11, SeekForms, Zenon DEF Returned
  <2>2. c \notin ChainCalls \cup Closers
    BY <1>0, <2>1, KindsDiffer, Zenon
  <2> QED BY <1>3, <2>1, <2>2, Zenon
<1>12. ASSUME NEW c \in Calls, NEW o \in {"ok", "error"}, c \in Closers, file.exists, Returned(c, o), stolen' = stolen,
              file' = file \/ Shut
       PROVE  CloseInv' /\ OnceInv'
  <2>1. /\ Others(c) /\ kind' = kind /\ loop' = loop /\ owner' = owner /\ req'[c].op = "none" /\ Made(c)'
    BY <1>12, Zenon DEF Returned, Quiet, Made
  <2>2. Frees(c)'
    BY <2>1, Zenon DEF Frees
  <2> QED BY <1>12, <2>1, <2>2, OnceActs, ZenonT(30)
<1>13. ASSUME NEW c \in Calls, CloseFile(c) PROVE CloseInv' /\ OnceInv'
  <2>1. /\ c \in Closers /\ file.exists /\ io[c].result = "new" /\ stolen' = stolen
        /\ \/ Returned(c, "ok") /\ file' = file
           \/ Returned(c, "ok") /\ Shut
           \/ Waits(c, "close", file.fd, 0) /\ file' = file
    BY <1>13, CloseFileForms, Zenon
  <2>2. CASE Waits(c, "close", file.fd, 0) /\ file' = file
    <3>1. /\ Others(c) /\ kind' = kind /\ loop' = loop /\ owner' = owner /\ Made(c)'
          /\ req'[c].op = "close" /\ req'[c].fd = file.fd
      BY <2>2, Zenon DEF Waits, Quiet, Made
    <3>2. Closers' = Closers /\ Openers' = Openers /\ Closers \subseteq Calls
      BY <1>0, <3>1, SameKinds, KindsDiffer, Zenon
    <3>3. ASSUME ~Twice' PROVE Frees(c)'
      <4>1. ~Twice
        BY <1>0, <3>1, <3>3, TwiceStays, Zenon
      <4>2. ASSUME NEW e \in Closers PROVE ~Made(e)
        <5>1. CASE e = c
          BY <2>1, <5>1, Zenon DEF Made
        <5>2. CASE e # c
          <6>1. ~Made(e)'
            BY <2>1, <3>1, <3>2, <3>3, <5>2, ZenonT(30) DEF Twice
          <6> QED BY <3>1, <3>2, <5>2, <6>1, Zenon DEF Others, Made
        <5> QED BY <5>1, <5>2, Zenon
      <4>3. file.fd \in Descriptors /\ owner[file.fd] \in Openers
        BY <2>1, <4>1, <4>2, OnceFacts, Zenon
      <4> QED BY <3>1, <3>2, <4>3, Zenon DEF Frees
    <3> QED BY <2>1, <2>2, <3>1, <3>3, OnceActs, Zenon
  <2> QED BY <1>12, <2>1, <2>2, Zenon
<1>14. ASSUME NEW c \in Calls, ClosedFile(c) PROVE CloseInv' /\ OnceInv'
  <2>1. /\ c \in Closers /\ file.exists /\ stolen' = stolen
        /\ \/ Returned(c, "error") /\ file' = file
           \/ Returned(c, "ok") /\ Shut
    BY <1>14, ClosedFileForms, Zenon
  <2> QED BY <1>12, <2>1, Zenon
<1>15. ASSUME UNCHANGED <<kind, fsVars, io, file, track, stolen>>, loop' = loop \/ loop' # "running"
       PROVE  CloseInv' /\ OnceInv'
  <2>1. /\ Closers' = Closers /\ ChainCalls' = ChainCalls /\ Openers' = Openers
        /\ (is_loop_alive' => is_loop_alive) /\ owner' = owner /\ file' = file /\ req' = req /\ io' = io
        /\ stolen' = stolen
    BY <1>15, SameKinds, Zenon DEF is_loop_alive, fsVars
  <2>2. CloseInv'
    BY <2>1, Zenon DEF CloseInv
  <2>3. OnceInv'
    BY <2>1, Zenon DEF OnceInv, Twice, Made, Has
  <2> QED BY <2>2, <2>3, Zenon
<1>16. CASE LoopDies \/ LoopDead \/ UNCHANGED vars
  BY <1>15, <1>16, Zenon DEF LoopDies, LoopDead, vars
<1>17. ChainCalls \subseteq Calls /\ FileCalls \subseteq Calls
  BY <1>0, KindsDiffer, Zenon DEF FileCalls
<1> QED BY <1>1, <1>2, <1>4, <1>5, <1>6, <1>7, <1>8, <1>9, <1>10, <1>11, <1>13, <1>14, <1>16, <1>17, SMTT(30)
        DEF Next, Callback, Resume

\* Who owns the descriptors, and what a close() frees.
THEOREM Ownership == Spec => []OwnershipInv
<1>1. Init => OwnershipInv
  <2>1. ASSUME Init PROVE HeldInv /\ CloseInv /\ OnceInv
    <3>1. /\ Types /\ owner = [d \in Descriptors |-> None] /\ ~file.exists /\ ~file.closed /\ stolen = FALSE
          /\ \A c \in Calls : req[c].op = "none"
      BY <2>1, FileInit, Zenon DEF ShapeInv
    <3>2. /\ Closers \subseteq Calls
          /\ ChainCalls \subseteq Calls /\ Creates \subseteq Calls /\ Openers \subseteq Calls
      BY <3>1, KindsDiffer, Zenon
    <3>3. None \notin Calls
      BY DescriptorsAssumption, Zenon
    <3>4. HeldInv
      BY <3>1, <3>2, <3>3, Zenon DEF HeldInv, HeldAt
    <3>5. CloseInv
      BY <3>1, <3>2, Zenon DEF CloseInv
    <3>6. OnceInv
      BY <3>1, <3>2, Zenon DEF OnceInv
    <3> QED BY <3>4, <3>5, <3>6, Zenon
  <2> QED BY <2>1, Zenon DEF OwnershipInv
<1>2. ShapeInv /\ OwnershipInv /\ [Next]_vars => OwnershipInv'
  BY HeldStep, OnceStep, Zenon DEF OwnershipInv
<1> QED BY <1>1, <1>2, FileShapes, PTL DEF Spec

\* No descriptor is lost while the loop lives, read_file() and write_file() do not lose
\* theirs inside ~EventLoop either, and a close() of a File frees the descriptor of
\* somebody else only when close() was called twice.
THEOREM DescriptorsAreOwned == Spec => []DescriptorsOwned
<1>1. ShapeInv /\ OwnershipInv => DescriptorsOwned
  <2> SUFFICES ASSUME ShapeInv, OwnershipInv PROVE DescriptorsOwned
    BY Zenon
  <2>0. Types /\ HeldInv /\ CloseInv /\ OnceInv
    BY Zenon DEF ShapeInv, OwnershipInv
  <2>1. ChainCalls \subseteq Calls /\ Creates \subseteq Calls /\ Openers \subseteq Calls
    BY <2>0, KindsDiffer, Zenon
  <2>2. ASSUME NEW d \in Descriptors, owner[d] \in ChainCalls PROVE ~Done(owner[d])
    BY <2>0, <2>1, <2>2, OwnerFacts, HoldsFacts, ZenonT(30) DEF Done
  <2>3. ASSUME NEW d \in Descriptors, is_loop_alive, owner[d] \in Creates PROVE ~Done(owner[d])
    BY <2>0, <2>1, <2>3, OwnerFacts, HoldsFacts DEF Done
  <2>4. ASSUME NEW d \in Descriptors, is_loop_alive, owner[d] \in Openers PROVE ~file.closed
    <3>1. CASE Holds(owner[d], d)
      <4>1. io[owner[d]].result = "waiting"
        BY <2>1, <2>4, <3>1, HoldsFacts, Zenon
      <4> QED BY <2>0, <2>1, <2>4, <4>1, ZenonT(30) DEF CloseInv, ShapeInv, Shape
    <3>2. CASE ~Holds(owner[d], d)
      BY <2>0, <2>1, <2>4, <3>2, OwnerFacts, Zenon
    <3> QED BY <3>1, <3>2, Zenon
  <2>5. stolen => Twice
    BY <2>0, OnceFacts, Zenon
  <2> QED BY <2>2, <2>3, <2>4, <2>5, Zenon DEF DescriptorsOwned, Twice
<1> QED BY <1>1, FileShapes, Ownership, PTL

-----------------------------------------------------------------------------
(* The pieces that read_some() and write_some() use *)

\* A step that leaves the log and the cursor alone: a call that it lets wait has the
\* cursor for itself.
LEMMA TilesStay ==
    ASSUME ShapeInv, TileInv, NEW c \in Calls, Others(c), kind' = kind,
           ~track'.overlapped => ~track.overlapped,
           file'.cursor = file.cursor, track'.base = track.base, track'.log = track.log,
           c \in Cursored => io[c].result # "ok",
           c \in Cursored /\ io'[c].result = "waiting" /\ ~track'.overlapped =>
              io'[c].offset = file.cursor /\ \A e \in Cursored \ {c} : io[e].result # "waiting"
    PROVE  TileInv'
<1> SUFFICES ASSUME ~track'.overlapped PROVE TileInv'
  BY Zenon DEF TileInv
<1>0. ~track.overlapped /\ Cursored' = Cursored /\ Writers' = Writers /\ Cursored \subseteq Calls
      /\ track.log \in Seq(Entries)
  BY SameKinds, KindsDiffer, ZenonT(30) DEF Cursored, ShapeInv, Types
<1>1. ASSUME NEW i \in DOMAIN track.log
      PROVE  /\ track.log[i].call \in Calls \ {c} /\ io'[track.log[i].call] = io[track.log[i].call]
             /\ i # 0 /\ i \in Nat
  <2>1. PICK e : e = track.log[i].call
    BY Zenon
  <2>2. e \in Cursored /\ io[e].result = "ok"
    BY <1>0, <2>1, Zenon DEF TileInv
  <2>3. e \in Calls \ {c}
    BY <1>0, <2>2, Zenon
  <2> QED BY <1>0, <2>1, <2>3 DEF Others
<1>2. ASSUME NEW i \in 0 .. Len(track.log) PROVE End(i)' = End(i)
  <2>1. CASE i = 0
    BY <2>1, Zenon DEF End
  <2>2. CASE i # 0
    <3>1. i \in DOMAIN track.log
      BY <1>0, <2>2
    <3> QED BY <1>1, <2>2, <3>1, Zenon DEF End
  <2> QED BY <2>1, <2>2, Zenon
<1>3. (file.cursor = End(Len(track.log)))'
  <2>1. Len(track.log) \in 0 .. Len(track.log)
    BY <1>0
  <2> QED BY <1>0, <1>2, <2>1, Zenon DEF TileInv
<1>4. ASSUME NEW i \in DOMAIN track.log, NEW e, e = track.log[i].call
      PROVE  /\ e \in Cursored' /\ io'[e].result = "ok" /\ io'[e].offset = End(i - 1)'
             /\ End(i)' <= file'.cursor /\ (e \in Writers' => track'.log[i].len = DataLen)
  <2>1. i \in 0 .. Len(track.log) /\ i - 1 \in 0 .. Len(track.log)
    BY <1>0
  <2>2. End(i)' = End(i) /\ End(i - 1)' = End(i - 1) /\ io'[e] = io[e]
    BY <1>1, <1>2, <1>4, <2>1, ZenonT(30)
  <2>3. /\ e \in Cursored /\ io[e].result = "ok" /\ io[e].offset = End(i - 1)
        /\ End(i) <= file.cursor /\ (e \in Writers => track.log[i].len = DataLen)
    BY <1>0, <1>4, Zenon DEF TileInv
  <2> QED BY <1>0, <2>2, <2>3, Zenon
<1>5. ASSUME NEW e \in Cursored, io'[e].result = "waiting"
      PROVE  io'[e].offset = file.cursor /\ \A f \in Cursored : io'[f].result = "waiting" => f = e
  <2>1. CASE e = c
    BY <1>0, <1>5, <2>1, Zenon DEF Others
  <2>2. CASE e # c
    <3>1. io[e].result = "waiting" /\ io'[e] = io[e]
      BY <1>0, <1>5, <2>2, Zenon DEF Others
    <3>2. io[e].offset = file.cursor /\ \A f \in Cursored : io[f].result = "waiting" => f = e
      BY <1>0, <3>1, Zenon DEF TileInv
    <3> QED BY <1>0, <1>5, <2>2, <3>1, <3>2, ZenonT(30) DEF Others
  <2> QED BY <2>1, <2>2, Zenon
<1> QED BY <1>0, <1>3, <1>4, <1>5, Zenon DEF TileInv

\* A call of read_some() or write_some() returns, and its piece is the last one.
LEMMA TilesGrow ==
    ASSUME ShapeInv, TileInv, NEW c \in Cursored, NEW k \in Nat, Returned(c, "ok"), Counted(c, k),
           io[c].result = "waiting", c \in Writers => k = DataLen
    PROVE  TileInv'
<1> SUFFICES ASSUME ~track'.overlapped PROVE TileInv'
  BY Zenon DEF TileInv
<1>0. /\ Others(c) /\ kind' = kind /\ io'[c].result = "ok" /\ io'[c].offset = io[c].offset
      /\ file'.cursor = file.cursor + k /\ track'.base = track.base /\ ~track.overlapped
      /\ track'.log = Append(track.log, Entry(c, k))
  BY Zenon DEF Returned, Counted, Quiet
<1>a. /\ Cursored' = Cursored /\ Writers' = Writers /\ Cursored \subseteq Calls /\ c \in Calls
      /\ track.log \in Seq(Entries) /\ file.cursor \in Nat /\ io[c].offset \in Nat
  BY <1>0, SameKinds, KindsDiffer, ZenonT(30) DEF Cursored, ShapeInv, Types, Files, Ios
<1>1. PICK n \in Nat : n = Len(track.log)
  BY <1>a
<1>b. /\ Len(track'.log) = n + 1 /\ track'.log[n + 1].call = c /\ track'.log[n + 1].len = k
      /\ \A i \in 1 .. n : track'.log[i] = track.log[i]
      /\ DOMAIN track.log = 1 .. n /\ DOMAIN track'.log = 1 .. n + 1
  <2>1. PICK x : x = Entry(c, k)
    BY Zenon
  <2>2. x.call = c /\ x.len = k
    BY <2>1, Zenon DEF Entry
  <2> QED BY <1>0, <1>1, <1>a, <2>1, <2>2, SMTT(30)
<1>2. ASSUME NEW i \in 1 .. n
      PROVE  /\ track.log[i].call \in Calls \ {c} /\ io'[track.log[i].call] = io[track.log[i].call]
  <2>1. PICK e : e = track.log[i].call
    BY Zenon
  <2>2. e \in Cursored /\ io[e].result = "ok"
    BY <1>0, <1>b, <2>1, Zenon DEF TileInv
  <2>3. e \in Calls \ {c}
    BY <1>a, <2>2, Zenon
  <2> QED BY <1>0, <2>1, <2>3, Zenon DEF Others
<1>3. ASSUME NEW i \in 0 .. n PROVE End(i)' = End(i)
  <2>1. CASE i = 0
    BY <1>0, <2>1, Zenon DEF End
  <2>2. CASE i # 0
    <3>1. i \in 1 .. n
      BY <2>2
    <3> QED BY <1>2, <1>b, <2>2, <3>1, ZenonT(30) DEF End
  <2> QED BY <2>1, <2>2, Zenon
<1>4. io[c].offset = file.cursor /\ file.cursor = End(n) /\ \A e \in Cursored : io[e].result = "waiting" => e = c
  BY <1>0, <1>1, ZenonT(30) DEF TileInv
<1>5. End(n + 1)' = file.cursor + k
  BY <1>0, <1>b, <1>4 DEF End
<1>6. (file.cursor = End(Len(track.log)))'
  BY <1>0, <1>5, <1>b, ZenonT(30)
<1>7. ASSUME NEW i \in 1 .. n + 1, NEW e, e = track'.log[i].call
      PROVE  /\ e \in Cursored' /\ io'[e].result = "ok" /\ io'[e].offset = End(i - 1)'
             /\ End(i)' <= file'.cursor /\ (e \in Writers' => track'.log[i].len = DataLen)
  <2>1. CASE i = n + 1
    <3>1. i - 1 = n /\ n \in 0 .. n /\ e = c
      BY <1>7, <1>b, <2>1
    <3>2. End(i - 1)' = file.cursor
      BY <1>3, <1>4, <3>1, Zenon
    <3> QED BY <1>0, <1>4, <1>5, <1>a, <1>b, <2>1, <3>1, <3>2, SMTT(30)
  <2>2. CASE i \in 1 .. n
    <3>1. i \in 0 .. n /\ i - 1 \in 0 .. n /\ e = track.log[i].call
      BY <1>7, <1>b, <2>2
    <3>2. End(i)' = End(i) /\ End(i - 1)' = End(i - 1) /\ io'[e] = io[e]
      BY <1>2, <1>3, <2>2, <3>1, Zenon
    <3>3. /\ e \in Cursored /\ io[e].result = "ok" /\ io[e].offset = End(i - 1)
          /\ End(i) <= file.cursor /\ (e \in Writers => track.log[i].len = DataLen)
      BY <1>0, <1>b, <2>2, <3>1, ZenonT(30) DEF TileInv
    <3>4. io[e].offset \in Nat /\ track.log[i].len \in Nat /\ i # 0
      <4>1. track.log[i] \in Entries /\ io[e] \in Ios
        BY <1>a, <1>b, <2>2, <3>3, SMTT(30) DEF ShapeInv, Types
      <4> QED BY <2>2, <4>1, SMTT(30) DEF Ios, Entries
    <3>5. End(i) \in Nat
      BY <3>1, <3>4 DEF End
    <3>6. End(i) <= file.cursor + k
      BY <1>a, <3>3, <3>5
    <3> QED BY <1>0, <1>a, <1>b, <2>2, <3>2, <3>3, <3>6, ZenonT(30)
  <2> QED BY <2>1, <2>2
<1>8. ASSUME NEW e \in Cursored, io'[e].result = "waiting" PROVE FALSE
  <2>1. e # c
    BY <1>0, <1>8, Zenon
  <2> QED BY <1>0, <1>4, <1>8, <1>a, <2>1, ZenonT(30) DEF Others
<1> QED BY <1>6, <1>7, <1>8, <1>a, <1>b, ZenonT(30) DEF TileInv

\* Which pieces a step of the program leaves, and whose step it is.
LEMMA TileStep ==
    ASSUME ShapeInv, TileInv, [Next]_vars
    PROVE  TileInv'
<1>0. Types /\ Cursored \subseteq Readers \cup Writers /\ Readers \cup Writers \subseteq Calls
  BY KindsDiffer, Zenon DEF ShapeInv, Cursored
<1>a. Cursored \cap (ChainCalls \cup Openers \cup Creates \cup Closers \cup Seeks) = {}
  BY <1>0, KindsDiffer, Zenon
<1>b. file \in Files
  BY <1>0, Zenon DEF Types
<1>1. ASSUME NEW c \in Calls, Others(c), kind' = kind, UNCHANGED track, file'.cursor = file.cursor,
             c \notin Cursored
      PROVE  TileInv'
  BY <1>1, TilesStay, Zenon
<1>2. ASSUME NEW c \in Cursored, Others(c), kind' = kind, UNCHANGED track, file'.cursor = file.cursor,
             io[c].result = "waiting", io'[c].result = "waiting" => io'[c].offset = io[c].offset
      PROVE  TileInv'
  <2>1. /\ ~track.overlapped =>
              io[c].offset = file.cursor /\ \A e \in Cursored : io[e].result = "waiting" => e = c
    BY <1>2, Zenon DEF TileInv
  <2>2. ~track'.overlapped /\ io'[c].result = "waiting" =>
              io'[c].offset = file.cursor /\ \A e \in Cursored \ {c} : io[e].result # "waiting"
    BY <1>2, <2>1, Zenon
  <2>3. c \in Calls /\ track'.base = track.base /\ track'.log = track.log
        /\ (~track'.overlapped => ~track.overlapped) /\ io[c].result # "ok"
    BY <1>0, <1>2, Zenon
  <2> QED BY <1>2, <2>2, <2>3, TilesStay, Zenon
<1>3. ASSUME NEW c \in Calls, Pool(c) PROVE TileInv'
  <2>1. PICK res, data : Executed(c, res, data)
    BY <1>3, PoolForms, Zenon
  <2>2. Others(c) /\ kind' = kind /\ UNCHANGED track /\ file'.cursor = file.cursor /\ io'[c] = io[c]
    BY <2>1, Zenon DEF Executed, Others
  <2>3. ASSUME c \in Cursored PROVE io[c].result = "waiting"
    <3>1. req[c].op # "none"
      BY <1>3, Zenon DEF Pool, Exec, ExecOpen, ExecRead, ExecWrite, ExecClose, ExecFails, Pending
    <3> QED BY <3>1, Zenon DEF ShapeInv, Shape
  <2> QED BY <1>1, <1>2, <2>2, <2>3, ZenonT(30)
<1>4. ASSUME NEW c \in Calls, Chain(c) \/ (c \in ChainCalls /\ Begin(c)), UNCHANGED <<file, track, stolen>>
      PROVE  TileInv'
  <2>1. c \in ChainCalls /\ \E o, fd : Chained(c, o, fd)
    BY <1>4, BeginForms, OnOpenForms, OnReadForms, OnWriteForms, OnCloseForms, ZenonT(30) DEF Chain, Chained
  <2>2. Others(c) /\ kind' = kind
    BY <2>1, Zenon DEF Chained, Quiet
  <2> QED BY <1>1, <1>4, <1>a, <2>1, <2>2, ZenonT(30)
<1>5. ASSUME NEW c \in Calls, Fiber(c) PROVE TileInv'
  <2>0. Others(c) /\ Quiet /\ kind' = kind
    BY <1>5, FiberActs, Zenon DEF Quiet
  <2>w. req[c].op # "none" => io[c].result = "waiting"
    BY Zenon DEF ShapeInv, Shape
  <2>1. CASE OnFsWrite(c)
    <3>1. io'[c] = io[c] /\ UNCHANGED <<file, track>> /\ req[c].op = "write"
      BY <2>1, OnFsWriteForms, Zenon
    <3> QED BY <1>1, <1>2, <2>0, <2>w, <3>1, ZenonT(30)
  <2>2. CASE OpenFile(c) \/ Created(c) \/ CreatedClosed(c)
    <3>1. c \in Creates \cup Openers /\ UNCHANGED <<file, track>>
      BY <2>2, OpenFileForms, CreatedForms, CreatedClosedForms, Zenon
    <3> QED BY <1>1, <1>a, <2>0, <3>1, Zenon
  <2>3. CASE Opened(c)
    <3>1. c \in Openers /\ UNCHANGED track /\ file'.cursor = file.cursor
      BY <2>3, OpenedForms, Zenon
    <3> QED BY <1>1, <1>a, <2>0, <3>1, Zenon
  <2>4. CASE CloseFile(c) \/ ClosedFile(c)
    <3>1. c \in Closers /\ UNCHANGED track /\ file'.cursor = file.cursor
      BY <2>4, CloseFileForms, ClosedFileForms, Zenon DEF Shut
    <3> QED BY <1>1, <1>a, <2>0, <3>1, Zenon
  <2>5. CASE Use(c)
    <3>1. /\ io[c].result = "new" /\ file' = file /\ track'.base = track.base /\ track'.log = track.log
          /\ (track'.overlapped <=> track.overlapped \/ (c \in Cursored /\ Overlaps))
      BY <2>5, UseForms, Zenon
    <3>2. c \in Cursored /\ io'[c].result = "waiting" => io'[c].offset = file.cursor
      <4>1. Returned(c, "error") \/ Waits(c, "read", file.fd, Offset(c)) \/ Waits(c, "write", file.fd, Offset(c))
        BY <2>5, UseForms, Zenon
      <4>2. c \in Cursored => Offset(c) = file.cursor
        BY Zenon DEF Offset, Cursored
      <4> QED BY <4>1, <4>2, Zenon DEF Returned, Waits
    <3>3. c \in Cursored /\ ~track'.overlapped => \A e \in Cursored \ {c} : io[e].result # "waiting"
      BY <3>1, Zenon DEF Overlaps
    <3> QED BY <2>0, <3>1, <3>2, <3>3, TilesStay, Zenon
  <2>6. CASE UsedRead(c)
    <3>1. c \in Readers /\ io[c].result = "waiting" /\ c \notin Writers
      BY <1>0, <2>6, <2>w, UsedReadForms, KindsDiffer, Zenon
    <3>2. CASE UNCHANGED <<file, track>> /\ Returned(c, "error")
      BY <1>1, <1>2, <2>0, <3>1, <3>2, Zenon DEF Returned
    <3>3. CASE req[c].res \in Nat /\ Returned(c, "ok") /\ Counted(c, req[c].res)
      <4>1. CASE c \in Cursored
        BY <3>1, <3>3, <4>1, TilesGrow, Zenon
      <4>2. CASE c \notin Cursored
        BY <1>1, <2>0, <3>3, <4>2, Zenon DEF Counted
      <4> QED BY <4>1, <4>2, Zenon
    <3> QED BY <2>6, <3>2, <3>3, UsedReadForms, Zenon
  <2>7. CASE UsedWrite(c)
    <3>1. io[c].result = "waiting" /\ DataLen \in Nat
      BY <2>7, <2>w, UsedWriteForms, LengthsAssumption, Zenon
    <3>2. CASE UNCHANGED <<file, track>> /\ Returned(c, "error")
      BY <1>1, <1>2, <2>0, <3>1, <3>2, ZenonT(30) DEF Returned
    <3>3. CASE Returned(c, "ok") /\ Counted(c, DataLen)
      <4>1. CASE c \in Cursored
        BY <3>1, <3>3, <4>1, TilesGrow, Zenon
      <4>2. CASE c \notin Cursored
        BY <1>1, <2>0, <3>3, <4>2, Zenon DEF Counted
      <4> QED BY <4>1, <4>2, Zenon
    <3> QED BY <2>7, <3>2, <3>3, UsedWriteForms, Zenon
  <2>8. CASE Seek(c)
    <3>1. c \in Seeks /\ c \notin Cursored
      BY <1>a, <2>8, SeekForms, Zenon
    <3>2. CASE UNCHANGED <<file, track>>
      BY <1>1, <2>0, <3>1, <3>2, Zenon
    <3>3. CASE /\ file'.cursor = 1 /\ track'.base = 1 /\ track'.log = <<>>
               /\ (track'.overlapped <=> track.overlapped \/ Overlaps)
      <4>1. Len(track'.log) = 0 /\ DOMAIN track'.log = {}
        BY <3>3
      <4>2. End(0)' = 1
        BY <3>3, Zenon DEF End
      <4>3. ~track'.overlapped => \A e \in Cursored' : io'[e].result # "waiting"
        BY <1>0, <2>0, <3>1, <3>3, SameKinds DEF Overlaps, Others
      <4> QED BY <3>3, <4>1, <4>2, <4>3, Zenon DEF TileInv
    <3> QED BY <2>8, <3>2, <3>3, SeekForms, Zenon
  <2> QED BY <1>5, <2>1, <2>2, <2>3, <2>4, <2>5, <2>6, <2>7, <2>8, Zenon DEF Fiber
<1>6. CASE UNCHANGED <<kind, fsVars, io, file, track, stolen>>
  <2>1. Cursored' = Cursored /\ Writers' = Writers
    BY <1>6, SameKinds, Zenon
  <2> QED BY <1>6, <2>1, Zenon DEF TileInv, End
<1> QED BY <1>3, <1>4, <1>5, <1>6, StepCases, Zenon

\* A step that leaves the content alone, and adds no write to the log, keeps what was
\* written.
LEMMA KeptStays ==
    ASSUME ShapeInv, TileInv, KeptInv, NEW c \in Calls, Others(c), kind' = kind, Made(c)',
           content' = content, ~track'.overlapped => ~track.overlapped,
           WriteLog' \subseteq WriteLog, \A i \in WriteLog' : track'.log[i] = track.log[i],
           c \in Cursored \cap Writers => io[c].result # "ok",
           c \in Cursored \cap Writers /\ ~track'.overlapped /\ OnlyCursor /\ io'[c].result = "waiting"
              => Laid(c)'
    PROVE  KeptInv'
<1> SUFFICES ASSUME ~track'.overlapped, OnlyCursor' PROVE KeptInv'
  BY Zenon DEF KeptInv
<1>0. /\ Changing' = Changing /\ Cursored' = Cursored /\ Writers' = Writers /\ Appending' = Appending
      /\ Changing \subseteq Calls /\ Cursored \subseteq Calls /\ ~track.overlapped
  BY SameKinds, KindsDiffer, Zenon DEF ShapeInv, Changing, Cursored, ChainCalls
<1>1. OnlyCursor
  BY <1>0, Zenon DEF OnlyCursor, Made, Others
<1>2. ASSUME NEW i \in WriteLog' PROVE LaidAt(i)'
  <2>1. i \in WriteLog /\ track'.log[i] = track.log[i]
    BY <1>2, Zenon
  <2>2. PICK e : e = track.log[i].call
    BY Zenon
  <2>3. e \in Cursored \cap Writers /\ io[e].result = "ok"
    BY <1>0, <2>1, <2>2, Zenon DEF TileInv, WriteLog
  <2>4. io'[e] = io[e]
    BY <1>0, <2>3, Zenon DEF Others
  <2>5. LaidAt(i)
    BY <1>0, <1>1, <2>1, Zenon DEF KeptInv
  <2> QED BY <1>0, <2>1, <2>2, <2>4, <2>5, Zenon DEF LaidAt, Lies
<1>3. ASSUME NEW i \in WriteLog', NEW j \in WriteLog', j < i
      PROVE  track'.log[j].at + DataLen <= track'.log[i].at
  BY <1>0, <1>1, <1>3, Zenon DEF KeptInv
<1>4. ASSUME NEW e \in Cursored \cap Writers, io'[e].result = "waiting" PROVE Laid(e)'
  <2>1. CASE e = c
    BY <1>1, <1>4, <2>1, Zenon
  <2>2. CASE e # c
    <3>1. io'[e] = io[e] /\ req'[e] = req[e]
      BY <1>0, <1>4, <2>2, Zenon DEF Others
    <3>2. Progress(e)' = Progress(e)
      BY <3>1, Zenon DEF Progress
    <3>3. Start(e)' = Start(e)
      BY <1>0, <3>1, <3>2, Zenon DEF Start
    <3>4. Laid(e)
      BY <1>0, <1>1, <1>4, <3>1, Zenon DEF KeptInv
    <3> QED BY <3>2, <3>3, <3>4, Zenon DEF Laid, Lies
  <2> QED BY <2>1, <2>2, Zenon
<1> QED BY <1>0, <1>2, <1>3, <1>4, Zenon DEF KeptInv

\* How far a write_some() is.
LEMMA ProgressFacts ==
    ASSUME ShapeInv, NEW c \in Writers, io[c].result = "waiting"
    PROVE  /\ req[c].op = "write" /\ req[c].off \in Nat /\ io[c].offset \in Nat /\ req[c].res \in Int
           /\ From(c) = req[c].off - io[c].offset /\ From(c) \in 0 .. DataLen - 1 /\ From(c) \in Nat
           /\ ~req[c].done => Progress(c) = From(c)
           /\ req[c].done /\ req[c].res > 0 => Progress(c) = From(c) + req[c].res
           /\ req[c].done /\ req[c].res <= 0 => Progress(c) = From(c)
<1>0. Types /\ c \in Calls /\ Shape(c) /\ Ops(c) = {"write"} /\ c \notin ChainCalls /\ DataLen \in Nat
  BY KindFacts, KindsDiffer, LengthsAssumption, Zenon DEF ShapeInv
<1>1. req[c].op = "write" /\ req[c] \in Reqs /\ io[c] \in Ios
  BY <1>0, Zenon DEF Shape, Types
<1>2. req[c].off \in Nat /\ io[c].offset \in Nat /\ req[c].res \in Int
  BY <1>0, <1>1, Zenon DEF Shape, Reqs, Ios
<1>3. From(c) = req[c].off - io[c].offset /\ From(c) \in 0 .. DataLen - 1
  BY <1>0, <1>1, Zenon DEF From, Shape
<1>4. Progress(c) = IF req[c].done /\ req[c].res > 0 THEN From(c) + req[c].res ELSE From(c)
  BY <1>0, <1>2, <1>3 DEF Progress
<1> QED BY <1>0, <1>1, <1>2, <1>3, <1>4

\* What a log becomes when a call is added to it.
LEMMA LogGrows ==
    ASSUME ShapeInv, NEW c \in Cursored, NEW k \in Nat, Counted(c, k)
    PROVE  \E n \in Nat :
              /\ DOMAIN track.log = 1 .. n /\ DOMAIN track'.log = 1 .. n + 1
              /\ \A i \in 1 .. n : track'.log[i] = track.log[i]
              /\ track'.log[n + 1].call = c /\ track'.log[n + 1].len = k
              /\ track'.log[n + 1].at = IF c \in Writers /\ Appending THEN Len(content) - k ELSE io[c].offset
              /\ track'.overlapped = track.overlapped
<1>1. track.log \in Seq(Entries) /\ track'.overlapped = track.overlapped
  BY Zenon DEF Counted, ShapeInv, Types
<1>2. PICK x : x = Entry(c, k)
  BY Zenon
<1>3. /\ x.call = c /\ x.len = k
      /\ x.at = IF c \in Writers /\ Appending THEN Len(content) - k ELSE io[c].offset
  BY <1>2, Zenon DEF Entry
<1>4. track'.log = Append(track.log, x)
  BY <1>2, Zenon DEF Counted
<1>5. PICK n \in Nat : n = Len(track.log) /\ DOMAIN track.log = 1 .. n
  BY <1>1
<1>6. DOMAIN track'.log = 1 .. n + 1 /\ track'.log[n + 1] = x /\ \A i \in 1 .. n : track'.log[i] = track.log[i]
  BY <1>1, <1>4, <1>5
<1> QED BY <1>1, <1>3, <1>5, <1>6, Zenon

\* A write_some() returns, and what it wrote is behind what the others wrote.
LEMMA KeptGrows ==
    ASSUME ShapeInv, TileInv, KeptInv, NEW c \in Cursored \cap Writers, Returned(c, "ok"), Made(c)',
           Counted(c, DataLen), io[c].result = "waiting", Progress(c) = DataLen
    PROVE  KeptInv'
<1> SUFFICES ASSUME ~track'.overlapped, OnlyCursor' PROVE KeptInv'
  BY Zenon DEF KeptInv
<1>0. /\ Others(c) /\ kind' = kind /\ content' = content /\ io'[c].result = "ok"
      /\ io'[c].offset = io[c].offset /\ DataLen \in Nat
  BY LengthsAssumption, Zenon DEF Returned, Quiet
<1>a. /\ Changing' = Changing /\ Cursored' = Cursored /\ Writers' = Writers /\ Appending' = Appending
      /\ Changing \subseteq Calls /\ Cursored \subseteq Calls
  BY <1>0, SameKinds, KindsDiffer, Zenon DEF ShapeInv, Changing, Cursored, ChainCalls
<1>1. OnlyCursor
  BY <1>0, <1>a, Zenon DEF OnlyCursor, Made, Others
<1>2. PICK n \in Nat :
         /\ DOMAIN track.log = 1 .. n /\ DOMAIN track'.log = 1 .. n + 1
         /\ \A i \in 1 .. n : track'.log[i] = track.log[i]
         /\ track'.log[n + 1].call = c /\ track'.log[n + 1].len = DataLen
         /\ track'.log[n + 1].at =
               IF c \in Writers /\ Appending THEN Len(content) - DataLen ELSE io[c].offset
         /\ track'.overlapped = track.overlapped
  BY <1>0, LogGrows, ZenonT(30)
<1>3. Laid(c) /\ track'.log[n + 1].at = Start(c)
  BY <1>1, <1>2, Zenon DEF KeptInv, Start
<1>4. ASSUME NEW i \in WriteLog'
      PROVE  (i \in 1 .. n /\ i \in WriteLog /\ track'.log[i] = track.log[i]) \/ i = n + 1
  <2>1. i \in 1 .. n + 1 /\ track'.log[i].call \in Writers
    BY <1>2, <1>4, <1>a, Zenon DEF WriteLog
  <2>2. i \in 1 .. n \/ i = n + 1
    BY <2>1
  <2> QED BY <1>2, <2>1, <2>2, Zenon DEF WriteLog
<1>5. ASSUME NEW i \in WriteLog' PROVE LaidAt(i)'
  <2>1. CASE i \in WriteLog /\ track'.log[i] = track.log[i]
    <3>1. PICK e : e = track.log[i].call
      BY Zenon
    <3>2. e \in Cursored /\ io[e].result = "ok"
      BY <1>2, <2>1, <3>1, Zenon DEF TileInv, WriteLog
    <3>3. io'[e] = io[e]
      BY <1>0, <1>a, <3>2, Zenon DEF Others
    <3>4. LaidAt(i)
      BY <1>1, <1>2, <2>1, Zenon DEF KeptInv
    <3> QED BY <1>0, <1>a, <2>1, <3>1, <3>3, <3>4, ZenonT(30) DEF LaidAt, Lies
  <2>2. CASE i = n + 1
    <3>1. ~Appending => Start(c) = io'[c].offset
      BY <1>0, Zenon DEF Start
    <3> QED BY <1>0, <1>2, <1>3, <1>a, <2>2, <3>1, ZenonT(30) DEF LaidAt, Laid, Lies
  <2> QED BY <1>4, <1>5, <2>1, <2>2, Zenon
<1>6. ASSUME NEW i \in WriteLog', NEW j \in WriteLog', j < i
      PROVE  track'.log[j].at + DataLen <= track'.log[i].at
  <2>1. CASE i \in WriteLog /\ i \in 1 .. n /\ track'.log[i] = track.log[i]
    <3>1. j # n + 1
      BY <1>6, <2>1
    <3>2. j \in WriteLog /\ track'.log[j] = track.log[j]
      BY <1>4, <1>6, <3>1, Zenon
    <3> QED BY <1>1, <1>2, <1>6, <2>1, <3>2, ZenonT(30) DEF KeptInv
  <2>2. CASE i = n + 1
    <3>1. j # n + 1
      BY <1>6, <2>2, SMTT(30)
    <3>2. j \in WriteLog /\ track'.log[j] = track.log[j]
      BY <1>4, <1>6, <3>1, Zenon
    <3> QED BY <1>3, <2>2, <3>2, Zenon DEF Laid
  <2> QED BY <1>4, <1>6, <2>1, <2>2, Zenon
<1>7. ASSUME NEW e \in Cursored, io'[e].result = "waiting" PROVE FALSE
  <2>1. e # c /\ e \in Calls
    BY <1>0, <1>7, <1>a, Zenon
  <2> QED BY <1>0, <1>2, <1>7, <2>1, ZenonT(30) DEF Others, TileInv
<1> QED BY <1>5, <1>6, <1>7, <1>a, Zenon DEF KeptInv

\* A write_some() begins behind what the others wrote.
LEMMA KeptBegins ==
    ASSUME ShapeInv, TileInv, KeptInv, NEW c \in Cursored \cap Writers, Quiet, track'.log = track.log,
           ~track.overlapped, OnlyCursor, io'[c].offset = file.cursor, Progress(c)' = 0
    PROVE  Laid(c)'
<1>0. /\ kind' = kind /\ content' = content /\ content \in Seq(Bytes) /\ file.cursor \in Nat
      /\ DataLen \in Nat \ {0} /\ track.log \in Seq(Entries) /\ io \in [Calls -> Ios]
  BY LengthsAssumption, Zenon DEF Quiet, ShapeInv, Types, Files
<1>1. Appending' = Appending /\ Writers' = Writers
  BY <1>0, SameKinds, Zenon
<1>2. Start(c)' = IF Appending THEN Len(content) ELSE file.cursor
  BY <1>0, <1>1 DEF Start
<1>3. Start(c)' \in Nat
  BY <1>0, <1>2
<1>4. Lies(c, Start(c), Progress(c))'
  <2>1. 1 .. Progress(c)' = {}
    OBVIOUS
  <2> QED BY <2>1, Zenon DEF Lies, LiesIn
<1>5. ASSUME NEW i \in WriteLog PROVE track.log[i].at + DataLen <= Start(c)'
  <2>1. LaidAt(i)
    BY Zenon DEF KeptInv
  <2>2. CASE Appending
    <3>1. DataLen \in 1 .. DataLen
      BY <1>0
    <3>2. track.log[i].at + DataLen <= Len(content)
      BY <2>1, <3>1, Zenon DEF LaidAt, Lies, LiesIn
    <3> QED BY <1>2, <2>2, <3>2, Zenon
  <2>3. CASE ~Appending
    <3>1. i \in DOMAIN track.log /\ i # 0
      BY <1>0 DEF WriteLog
    <3>2. End(i) = track.log[i].at + DataLen
      BY <2>1, <2>3, <3>1, Zenon DEF LaidAt, End, TileInv, WriteLog
    <3>3. End(i) <= file.cursor
      BY <3>1, Zenon DEF TileInv
    <3> QED BY <1>2, <2>3, <3>2, <3>3, ZenonT(30)
  <2> QED BY <2>2, <2>3, Zenon
<1>6. WriteLog' = WriteLog
  BY <1>1, Zenon DEF WriteLog
<1> QED BY <1>3, <1>4, <1>5, <1>6, Zenon DEF Laid

\* The fibers of the File.
LEMMA FiberKept ==
    ASSUME ShapeInv, ShapeInv', TileInv, KeptInv, NEW c \in Calls, Fiber(c)
    PROVE  KeptInv'
<1>0. Others(c) /\ Quiet /\ kind' = kind /\ content' = content /\ Made(c)' /\ ~req'[c].done
  BY FiberActs, Zenon DEF Quiet
<1>a. /\ Types /\ Cursored \subseteq Readers \cup Writers /\ Writers' = Writers /\ Cursored' = Cursored
      /\ Appending' = Appending
  BY <1>0, SameKinds, Zenon DEF ShapeInv, Cursored
<1>b. Cursored \cap (ChainCalls \cup Openers \cup Creates \cup Closers \cup Seeks) = {}
      /\ Readers \cap Writers = {}
  BY <1>a, KindsDiffer, ZenonT(30)
<1>c. req[c].op # "none" => io[c].result = "waiting"
  BY Zenon DEF ShapeInv, Shape
<1>1. ASSUME c \notin Cursored \cap Writers, ~track'.overlapped => ~track.overlapped,
             WriteLog' \subseteq WriteLog, \A i \in WriteLog' : track'.log[i] = track.log[i]
      PROVE  KeptInv'
  BY <1>0, <1>1, KeptStays, ZenonT(30)
<1>2. ASSUME track'.log = track.log PROVE WriteLog' = WriteLog
  BY <1>2, <1>a, Zenon DEF WriteLog
<1>4. ASSUME NEW k \in Nat, Counted(c, k), c \notin Cursored \cap Writers PROVE KeptInv'
  <2>1. CASE c \in Cursored
    <3>1. PICK n \in Nat :
             /\ DOMAIN track.log = 1 .. n /\ DOMAIN track'.log = 1 .. n + 1
             /\ \A i \in 1 .. n : track'.log[i] = track.log[i]
             /\ track'.log[n + 1].call = c /\ track'.log[n + 1].len = k
             /\ track'.log[n + 1].at = IF c \in Writers /\ Appending THEN Len(content) - k ELSE io[c].offset
             /\ track'.overlapped = track.overlapped
      BY <1>4, <2>1, LogGrows, ZenonT(30)
    <3>2. ASSUME NEW i \in WriteLog' PROVE i \in WriteLog /\ track'.log[i] = track.log[i]
      <4>1. i \in 1 .. n + 1 /\ track'.log[i].call \in Writers /\ i # n + 1
        BY <1>4, <1>a, <2>1, <3>1, <3>2, Zenon DEF WriteLog
      <4>2. i \in 1 .. n
        BY <4>1
      <4> QED BY <3>1, <4>1, <4>2, Zenon DEF WriteLog
    <3> QED BY <1>1, <1>4, <3>1, <3>2, Zenon
  <2>2. CASE c \notin Cursored
    BY <1>1, <1>2, <1>4, <2>2, Zenon DEF Counted
  <2> QED BY <2>1, <2>2, Zenon
<1>5. CASE OnFsWrite(c)
  <2>1. /\ c \in Writers /\ io'[c] = io[c] /\ UNCHANGED track /\ req[c].op = "write" /\ req[c].done
        /\ req[c].res > 0
    BY <1>5, OnFsWriteForms, Zenon
  <2>2. PICK w \in 1 .. DataLen - 1 :
           w = From(c) + req[c].res /\ req'[c].off = io[c].offset + w /\ ~req'[c].done
    BY <1>5, OnFsWriteForms, Zenon
  <2>3. io[c].result = "waiting" /\ io[c].offset \in Nat /\ Progress(c) = w
    BY <1>c, <2>1, <2>2, ProgressFacts, ZenonT(30)
  <2>4. Progress(c)' = w
    BY <2>1, <2>2, <2>3 DEF Progress
  <2>5. Start(c)' = Start(c) /\ WriteLog' = WriteLog
    BY <1>0, <1>2, <1>a, <2>1, <2>3, <2>4, ZenonT(30) DEF Start
  <2>6. ASSUME c \in Cursored, ~track.overlapped, OnlyCursor PROVE Laid(c)'
    <3>1. Laid(c)
      BY <2>1, <2>3, <2>6, Zenon DEF KeptInv
    <3> QED BY <1>0, <2>1, <2>3, <2>4, <2>5, <3>1, ZenonT(30) DEF Laid, Lies
  <2> QED BY <1>0, <2>1, <2>3, <2>5, <2>6, KeptStays, Zenon
<1>6. CASE OpenFile(c) \/ Created(c) \/ CreatedClosed(c) \/ Opened(c) \/ CloseFile(c) \/ ClosedFile(c)
  <2>1. c \in Creates \cup Openers \cup Closers /\ UNCHANGED track
    BY <1>6, OpenFileForms, CreatedForms, CreatedClosedForms, OpenedForms, CloseFileForms, ClosedFileForms, SMTT(30)
  <2> QED BY <1>1, <1>2, <1>b, <2>1, ZenonT(30)
<1>7. CASE Use(c)
  <2>1. io[c].result = "new" /\ track'.log = track.log /\ (track.overlapped => track'.overlapped)
    BY <1>7, UseForms, Zenon
  <2>2. io'[c].result = "waiting" => req'[c].off = Offset(c) /\ io'[c].offset = Offset(c)
    <3>1. Returned(c, "error") \/ Waits(c, "read", file.fd, Offset(c)) \/ Waits(c, "write", file.fd, Offset(c))
      BY <1>7, UseForms, Zenon
    <3> QED BY <3>1, Zenon DEF Returned, Waits
  <2>3. ASSUME c \in Cursored \cap Writers, io'[c].result = "waiting", ~track.overlapped, OnlyCursor
        PROVE  Laid(c)'
    <3>1. Offset(c) = file.cursor /\ file.cursor \in Nat
      BY <1>a, <2>3, ZenonT(30) DEF Offset, Cursored, Types, Files
    <3>2. Progress(c)' = 0
      BY <1>0, <2>2, <2>3, <3>1, SMTT(30) DEF Progress
    <3> QED BY <1>0, <2>1, <2>2, <2>3, <3>1, <3>2, KeptBegins, ZenonT(30)
  <2> QED BY <1>0, <1>2, <2>1, <2>3, KeptStays, ZenonT(30)
<1>8. CASE UsedRead(c)
  <2>1. c \in Readers
    BY <1>8, UsedReadForms, Zenon
  <2>2. CASE UNCHANGED track
    BY <1>1, <1>2, <1>b, <2>1, <2>2, ZenonT(30)
  <2>3. CASE req[c].res \in Nat /\ Counted(c, req[c].res)
    BY <1>4, <1>b, <2>1, <2>3, Zenon
  <2> QED BY <1>8, <2>2, <2>3, UsedReadForms, Zenon
<1>9. CASE UsedWrite(c)
  <2>1. c \in Writers /\ req[c].op = "write" /\ req[c].done /\ io[c].result = "waiting" /\ DataLen \in Nat
    BY <1>9, <1>c, UsedWriteForms, LengthsAssumption, Zenon
  <2>2. CASE UNCHANGED track /\ Returned(c, "error")
    <3>1. io'[c].result # "waiting"
      BY <2>2, Zenon DEF Returned
    <3> QED BY <1>0, <1>2, <2>1, <2>2, <3>1, KeptStays, ZenonT(30)
  <2>3. CASE /\ Returned(c, "ok") /\ Counted(c, DataLen) /\ req[c].res > 0
             /\ req[c].off - io[c].offset + req[c].res = DataLen
    <3>1. CASE c \in Cursored
      <4>1. Progress(c) = DataLen
        BY <2>1, <2>3, ProgressFacts, ZenonT(30)
      <4> QED BY <1>0, <2>1, <2>3, <3>1, <4>1, KeptGrows, ZenonT(30)
    <3>2. CASE c \notin Cursored
      BY <1>4, <2>1, <2>3, <3>2, ZenonT(30)
    <3> QED BY <3>1, <3>2, Zenon
  <2> QED BY <1>9, <2>2, <2>3, UsedWriteForms, Zenon
<1>10. CASE Seek(c)
  <2>1. c \in Seeks
    BY <1>10, SeekForms, Zenon
  <2>2. CASE UNCHANGED <<file, track>>
    BY <1>1, <1>2, <1>b, <2>1, <2>2, ZenonT(30)
  <2>3. CASE track'.log = <<>> /\ (track'.overlapped <=> track.overlapped \/ Overlaps)
    <3>1. WriteLog' = {}
      BY <2>3 DEF WriteLog
    <3> QED BY <1>1, <1>b, <2>1, <2>3, <3>1, ZenonT(30)
  <2> QED BY <1>10, <2>2, <2>3, SeekForms, ZenonT(30)
<1> QED BY <1>5, <1>6, <1>7, <1>8, <1>9, <1>10, ZenonT(30) DEF Fiber

\* Where a write of write_some() lands when only the cursor is used: behind what the call
\* has written so far, in a File opened for append as well.
LEMMA WritePlace ==
    ASSUME ShapeInv, OwnerInv, OnlyCursor, NEW c \in Writers, io[c].result = "waiting", ~req[c].done,
           req[c].fd \in Descriptors, owner[req[c].fd] \in Calls \ ReadFiles
    PROVE  /\ WriteOffset(c) = Start(c) + From(c)
           /\ Appending => WriteOffset(c) = Len(content)
<1>0. Types /\ content \in Seq(Bytes)
  BY Zenon DEF ShapeInv, Types
<1>1. PICK o : o = owner[req[c].fd]
  BY Zenon
<1>2. o \in Openers
  <2>1. o \in ChainCalls \cup Openers \cup Creates /\ Made(o) /\ o \notin ReadFiles
    BY <1>1, DescriptorsAssumption, Zenon DEF OwnerInv
  <2>2. o \notin Changing \ Cursored
    BY <2>1, Zenon DEF OnlyCursor
  <2>3. CASE o \in ChainCalls
    <3>1. o \in WriteFiles \cup AppendFiles /\ o \notin Readers \cup Writers
      BY <1>0, <2>1, <2>3, KindsDiffer, ZenonT(30) DEF ChainCalls
    <3> QED BY <2>2, <3>1, Zenon DEF Changing, Cursored
  <2>4. CASE o \in Creates
    <3>1. o \notin Readers \cup Writers
      BY <1>0, <2>4, KindsDiffer, ZenonT(30)
    <3> QED BY <2>2, <2>4, <3>1, ZenonT(30) DEF Changing, Cursored
  <2> QED BY <2>1, <2>3, <2>4, ZenonT(30)
<1>3. o \in Appenders <=> Appending
  BY <1>0, <1>2, KindsDiffer, ZenonT(30) DEF Appending
<1>4. /\ req[c].off \in Nat /\ io[c].offset \in Nat /\ From(c) = req[c].off - io[c].offset
      /\ From(c) \in Nat /\ Progress(c) = From(c)
  BY ProgressFacts, ZenonT(30)
<1>5. req[c].off # -1
  BY <1>4, SMTT(30)
<1>6. CASE Appending
  <2>1. WriteOffset(c) = Len(content) /\ Start(c) = Len(content) - From(c)
    BY <1>1, <1>3, <1>4, <1>6, ZenonT(30) DEF WriteOffset, Start
  <2> QED BY <1>0, <1>4, <2>1, SMTT(30)
<1>7. CASE ~Appending
  <2>1. WriteOffset(c) = req[c].off /\ Start(c) = io[c].offset
    BY <1>1, <1>3, <1>5, <1>7, ZenonT(30) DEF WriteOffset, Start
  <2> QED BY <1>4, <1>7, <2>1, SMTT(30)
<1> QED BY <1>6, <1>7, ZenonT(30)

\* o has the content up to off
Prolongs(o, off) ==
    /\ o \in Seq(Bytes) /\ Len(o) >= Len(content)
    /\ \A i \in 1 .. Len(content) : i <= off => o[i] = content[i]

\* A write leaves what is before it.
LEMMA LiesStays ==
    ASSUME content \in Seq(Bytes), NEW o, NEW off \in Nat, Prolongs(o, off),
           NEW e, NEW p \in Nat, NEW m \in Nat, Lies(e, p, m), p + m <= off
    PROVE  LiesIn(o, e, p, m)
<1> SUFFICES ASSUME NEW j \in 1 .. m PROVE p + j <= Len(o) /\ o[p + j] = Byte(e, j)
  BY Zenon DEF LiesIn
<1>1. PICK i \in Nat : i = p + j
  OBVIOUS
<1>2. i <= Len(content) /\ content[i] = Byte(e, j)
  BY <1>1, Zenon DEF Lies, LiesIn
<1>3. i \in 1 .. Len(content) /\ i <= off
  BY <1>1, <1>2
<1>4. o[i] = content[i] /\ Len(o) >= Len(content) /\ o \in Seq(Bytes)
  BY <1>3, Zenon DEF Prolongs
<1>5. i <= Len(o)
  BY <1>2, <1>4
<1> QED BY <1>1, <1>2, <1>4, <1>5, ZenonT(30)

\* A write of write_some() adds to what it has written.
LEMMA KeptWrites ==
    ASSUME ShapeInv, OwnerInv, TileInv, KeptInv, NEW c \in Cursored \cap Writers,
           Others(c), kind' = kind, io' = io, track' = track, OnlyCursor, ~track.overlapped,
           io[c].result = "waiting", ~req[c].done, req[c].fd \in Descriptors,
           owner[req[c].fd] \in Calls \ ReadFiles,
           NEW k \in 1 .. DataLen - From(c), NEW off \in Nat, off = WriteOffset(c),
           content' = Overwritten(content, off, Run(c, From(c), k)), Progress(c)' = From(c) + k
    PROVE  KeptInv'
<1>0. /\ content \in Seq(Bytes) /\ c \in Calls /\ DataLen \in Nat /\ io \in [Calls -> Ios]
      /\ Cursored' = Cursored /\ Writers' = Writers /\ Appending' = Appending /\ Cursored \subseteq Calls
  BY SameKinds, KindsDiffer, LengthsAssumption, ZenonT(30) DEF ShapeInv, Types, Cursored
<1>1. PICK w \in Nat : w = From(c) /\ Progress(c) = w
  BY ProgressFacts, Zenon
<1>2. k \in Nat /\ k > 0 /\ w + k <= DataLen
  BY <1>0, <1>1
<1>3. PICK o : o = content' /\ Overwrote(o, content, off, c, w, k)
  BY <1>0, <1>1, <1>2, OverwrittenFacts, ZenonT(30)
<1>p. Prolongs(o, off)
  BY <1>3, Zenon DEF Overwrote, Prolongs
<1>4. PICK p \in Nat : p = Start(c) /\ Laid(c)
  BY Zenon DEF KeptInv, Laid
<1>5. off = p + w /\ (Appending => off = Len(content))
  BY <1>1, <1>4, WritePlace, Zenon
<1>6. Start(c)' = p
  <2>1. CASE Appending
    <3>1. Start(c)' = Len(o) - (w + k)
      BY <1>0, <1>1, <1>3, <2>1, ZenonT(30) DEF Start
    <3>2. Len(o) = off + k
      <4>1. Len(o) >= off + k /\ Len(o) \in {Len(content), off + k} /\ off = Len(content)
        BY <1>3, <1>5, <2>1, ZenonT(30) DEF Overwrote
      <4> QED BY <1>2, <4>1
    <3> QED BY <1>2, <1>5, <3>1, <3>2, SMTT(30)
  <2>2. CASE ~Appending
    BY <1>0, <1>4, <2>2, ZenonT(30) DEF Start
  <2> QED BY <2>1, <2>2, ZenonT(30)
<1>7. WriteLog' = WriteLog /\ track'.log = track.log
  BY <1>0, Zenon DEF WriteLog
<1>8. ASSUME NEW i \in WriteLog PROVE LaidAt(i)'
  <2>1. LaidAt(i) /\ track.log[i].at + DataLen <= p
    BY <1>4, Zenon DEF KeptInv, Laid
  <2>2. PICK a \in Nat : a = track.log[i].at
    BY <2>1, Zenon DEF LaidAt
  <2>e. PICK e : e = track.log[i].call
    BY Zenon
  <2>3. a + DataLen <= off /\ Lies(e, a, DataLen)
    <3>1. a + DataLen <= p /\ Lies(e, a, DataLen)
      BY <2>1, <2>2, <2>e, Zenon DEF LaidAt
    <3> QED BY <1>0, <1>1, <1>5, <3>1, SMTT(30)
  <2>4. LiesIn(o, e, a, DataLen)
    BY <1>0, <1>p, <2>3, LiesStays, ZenonT(30)
  <2>5. Lies(e, a, DataLen)'
    BY <1>3, <2>4, ZenonT(30) DEF Lies
  <2> QED BY <1>0, <1>7, <2>1, <2>2, <2>5, <2>e, ZenonT(30) DEF LaidAt
<1>9. ASSUME NEW j \in 1 .. w + k PROVE p + j <= Len(o) /\ o[p + j] = Byte(c, j)
  <2>1. CASE j <= w
    <3>1. LiesIn(o, c, p, w)
      <4>1. Lies(c, p, w) /\ p + w <= off
        <5>1. Lies(c, p, w)
          BY <1>1, <1>4, ZenonT(30) DEF Laid
        <5>2. p + w <= off
          BY <1>5
        <5> QED BY <5>1, <5>2, Zenon
      <4> QED BY <1>0, <1>p, <4>1, LiesStays, ZenonT(30)
    <3>2. j \in 1 .. w
      BY <2>1
    <3> QED BY <3>1, <3>2, Zenon DEF LiesIn
  <2>2. CASE j > w
    <3>1. PICK l \in 1 .. k : j = w + l /\ p + j = off + l
      <4>1. j - w \in 1 .. k /\ j = w + (j - w) /\ p + j = off + (j - w)
        BY <1>2, <1>5, <2>2
      <4> QED BY <4>1, Zenon
    <3>2. o[p + j] = Byte(c, j) /\ Len(o) >= off + k /\ o \in Seq(Bytes)
      BY <1>3, <3>1, Zenon DEF Overwrote
    <3>3. p + j <= Len(o)
      BY <1>2, <3>1, <3>2
    <3> QED BY <3>2, <3>3, Zenon
  <2> QED BY <2>1, <2>2
<1>10. Laid(c)'
  <2>1. Lies(c, p, w + k)'
    BY <1>3, <1>9, Zenon DEF Lies, LiesIn
  <2> QED BY <1>1, <1>4, <1>6, <1>7, <2>1, Zenon DEF Laid
<1>11. ASSUME NEW e \in Cursored, io'[e].result = "waiting" PROVE e = c
  BY <1>11, Zenon DEF TileInv
<1>12. ASSUME NEW i \in WriteLog, NEW j \in WriteLog, j < i PROVE track.log[j].at + DataLen <= track.log[i].at
  BY <1>12, Zenon DEF KeptInv
<1> QED BY <1>0, <1>7, <1>8, <1>10, <1>11, <1>12, ZenonT(30) DEF KeptInv

\* The pool changes the file behind the pieces that are written, or under a call that
\* does not use the cursor.
LEMMA PoolKept ==
    ASSUME ShapeInv, OwnerInv, ReadInv, TileInv, TileInv', KeptInv, NEW c \in Calls, Pool(c)
    PROVE  KeptInv'
<1>0. /\ Types /\ Shape(c) /\ Cursored \subseteq Readers \cup Writers /\ Cursored \subseteq Calls
  BY KindsDiffer, Zenon DEF ShapeInv, Cursored
<1>1. PICK res, data : Executed(c, res, data) /\ res \in Int
  <2>1. Descriptors \subseteq Int /\ Nat \subseteq Int /\ {0, -1} \subseteq Int /\ -1 \in Int
    BY DescriptorsAssumption
  <2>2. \A k \in 1 .. DataLen - From(c) : k \in Int
    OBVIOUS
  <2> QED BY <2>1, <2>2, PoolForms, ZenonT(30)
<1>2. /\ Others(c) /\ kind' = kind /\ io' = io /\ track' = track /\ file' = file
      /\ req'[c].op = req[c].op /\ req'[c].off = req[c].off /\ req'[c].done /\ ~req[c].done
      /\ req'[c].res = res
  BY <1>1, Zenon DEF Executed, Others
<1>a. Cursored' = Cursored /\ Writers' = Writers /\ Changing' = Changing /\ Appending' = Appending
      /\ WriteLog' = WriteLog
  BY <1>2, SameKinds, Zenon DEF WriteLog
<1>3. req[c].op # "none" /\ io[c].result = "waiting" /\ Made(c)' /\ Made(c)
  <2>1. req[c].op # "none"
    BY Zenon DEF Pool, Exec, ExecOpen, ExecRead, ExecWrite, ExecClose, ExecFails, Pending
  <2> QED BY <1>0, <1>2, <2>1, ZenonT(30) DEF Shape, Made
<1>5. ASSUME c \in Writers
      PROVE  /\ req[c].op = "write" /\ From(c) \in Nat /\ From(c) = Progress(c)
             /\ Progress(c)' = IF res > 0 THEN From(c) + res ELSE From(c)
  <2>1. /\ req[c].op = "write" /\ req[c].off \in Nat /\ io[c].offset \in Nat /\ From(c) \in Nat
        /\ From(c) = req[c].off - io[c].offset /\ Progress(c) = From(c)
    BY <1>2, <1>3, <1>5, ProgressFacts, ZenonT(30)
  <2>2. Progress(c)' = IF res > 0 THEN From(c) + res ELSE From(c)
    BY <1>1, <1>2, <2>1, SMTT(30) DEF Progress
  <2> QED BY <2>1, <2>2
<1>6. ASSUME content' = content, c \in Writers => res <= 0 PROVE KeptInv'
  <2>1. ASSUME c \in Cursored \cap Writers, ~track.overlapped, OnlyCursor PROVE Laid(c)'
    <3>1. Progress(c)' = Progress(c)
      BY <1>1, <1>5, <1>6, <2>1, SMTT(30)
    <3>2. Start(c)' = Start(c)
      BY <1>2, <1>6, <1>a, <3>1, ZenonT(30) DEF Start
    <3>3. Laid(c)
      BY <1>3, <2>1, Zenon DEF KeptInv
    <3> QED BY <1>2, <1>6, <1>a, <3>1, <3>2, <3>3, ZenonT(30) DEF Laid, Lies
  <2> QED BY <1>2, <1>3, <1>6, <1>a, <2>1, KeptStays, ZenonT(30)
<1>7. ASSUME c \in Changing \ Cursored PROVE KeptInv'
  <2>1. ~OnlyCursor'
    BY <1>3, <1>7, <1>a, ZenonT(30) DEF OnlyCursor
  <2> QED BY <2>1, Zenon DEF KeptInv
<1>8. ASSUME req[c].op = "open", content' = IF req[c].n = 0 THEN <<>> ELSE content PROVE KeptInv'
  <2>1. c \in ReadFiles \cup WriteFiles \cup AppendFiles \cup Openers \cup Creates
    BY <1>0, <1>8, KindFacts, ZenonT(30) DEF Shape, ChainCalls
  <2>2. c \notin Writers /\ c \notin Cursored
    BY <1>0, <2>1, KindsDiffer, ZenonT(30) DEF ChainCalls
  <2>3. CASE c \in Openers
    <3>1. ~file.exists
      BY <1>0, <1>3, <2>3, ZenonT(30) DEF Shape
    <3>2. ASSUME NEW e \in Cursored PROVE io[e].result = "new"
      <4>1. Shape(e) /\ e \notin ChainCalls \cup Creates \cup Openers
        BY <1>0, <3>2, KindsDiffer, ZenonT(30) DEF ShapeInv
      <4> QED BY <3>1, <4>1, ZenonT(30) DEF Shape, Made
    <3>3. ~track'.overlapped => WriteLog' = {}
      BY <1>2, <1>a, <3>2, ZenonT(30) DEF TileInv, WriteLog
    <3> QED BY <1>2, <1>a, <3>2, <3>3, ZenonT(30) DEF KeptInv
  <2>4. CASE c \in ReadFiles
    <3>1. content' = content
      BY <1>8, <2>4, ZenonT(30) DEF ReadInv, ReadAt
    <3> QED BY <1>6, <2>2, <3>1, ZenonT(30)
  <2>5. CASE c \in WriteFiles \cup AppendFiles \cup Creates
    BY <1>7, <2>2, <2>5, ZenonT(30) DEF Changing
  <2> QED BY <2>1, <2>3, <2>4, <2>5, ZenonT(30)
<1>9. ASSUME NEW k \in 1 .. DataLen - From(c), NEW off \in Nat, res = k, req[c].op = "write",
             req[c].fd \in Descriptors, owner[req[c].fd] \in Calls \ ReadFiles, off = WriteOffset(c),
             content' = Overwritten(content, off, Run(c, From(c), k))
      PROVE  KeptInv'
  <2>1. c \in WriteFiles \cup AppendFiles \cup Writers
    BY <1>0, <1>9, KindFacts, SMTT(30) DEF Shape
  <2>2. CASE c \notin Cursored
    BY <1>7, <2>1, <2>2, ZenonT(30) DEF Changing
  <2>3. CASE c \in Cursored
    <3> SUFFICES ASSUME ~track'.overlapped, OnlyCursor' PROVE KeptInv'
      BY Zenon DEF KeptInv
    <3>1. c \in Writers
      BY <1>0, <2>1, <2>3, KindsDiffer, ZenonT(30) DEF ChainCalls
    <3>2. ~track.overlapped /\ OnlyCursor
      BY <1>2, <1>a, ZenonT(30) DEF OnlyCursor, Made
    <3>3. res > 0
      BY <1>9
    <3>4. Progress(c)' = From(c) + k
      BY <1>5, <1>9, <3>1, <3>3, ZenonT(30)
    <3> QED BY <1>2, <1>3, <1>9, <2>3, <3>1, <3>2, <3>4, KeptWrites, ZenonT(30)
  <2> QED BY <2>2, <2>3, ZenonT(30)
<1>10. CASE content' = content /\ res \in {0, -1}
  BY <1>6, <1>10
<1>11. CASE content' = content /\ req[c].op = "read"
  BY <1>5, <1>6, <1>11, ZenonT(30)
<1>12. ASSUME NEW r, NEW x, Executed(c, r, x) PROVE r = res
  BY <1>2, <1>12, ZenonT(30) DEF Executed
<1> QED BY <1>8, <1>9, <1>10, <1>11, <1>12, PoolForms, ZenonT(30)

\* What was written stays in every step of the program.
LEMMA KeptStep ==
    ASSUME ShapeInv, ShapeInv', OwnerInv, ReadInv, TileInv, TileInv', KeptInv, [Next]_vars
    PROVE  KeptInv'
<1>1. ASSUME NEW c \in Calls, Chain(c) \/ (c \in ChainCalls /\ Begin(c)), UNCHANGED <<file, track, stolen>>
      PROVE  KeptInv'
  <2>1. c \in ChainCalls /\ \E o \in {"waiting", "ok", "error"} : \E fd : Chained(c, o, fd)
    BY <1>1, BeginForms, OnOpenForms, OnReadForms, OnWriteForms, OnCloseForms, ZenonT(30) DEF Chain, Chained
  <2>2. Others(c) /\ kind' = kind /\ content' = content /\ Made(c)'
    BY <2>1, Zenon DEF Chained, Quiet, Made
  <2>3. c \notin Writers /\ WriteLog' = WriteLog
    BY <1>1, <2>1, <2>2, SameKinds, KindsDiffer, Zenon DEF WriteLog, ShapeInv
  <2> QED BY <1>1, <2>2, <2>3, KeptStays, ZenonT(30)
<1>2. CASE UNCHANGED <<kind, fsVars, io, file, track, stolen>>
  <2>1. Cursored' = Cursored /\ Writers' = Writers /\ Changing' = Changing /\ Appending' = Appending
    BY <1>2, SameKinds, ZenonT(30)
  <2>2. req' = req /\ content' = content /\ io' = io /\ track' = track /\ WriteLog' = WriteLog
    BY <1>2, <2>1, Zenon DEF fsVars, WriteLog
  <2>3. OnlyCursor' <=> OnlyCursor
    BY <2>1, <2>2, Zenon DEF OnlyCursor, Made
  <2>4. \A i : LaidAt(i)' <=> LaidAt(i)
    BY <2>1, <2>2, Zenon DEF LaidAt, Lies
  <2>5. \A c : Progress(c)' = Progress(c) /\ Start(c)' = Start(c)
    BY <2>1, <2>2, Zenon DEF Start, Progress
  <2>6. \A c : Laid(c)' <=> Laid(c)
    BY <2>2, <2>5, Zenon DEF Laid, Lies
  <2> QED BY <2>1, <2>2, <2>3, <2>4, <2>6, ZenonT(30) DEF KeptInv
<1> QED BY <1>1, <1>2, StepCases, FiberKept, PoolKept, ZenonT(30)

\* Calls of read_some() and write_some() that do not overlap each other or a seek() use up
\* the file piece by piece, and the cursor is behind the last piece. As long as nobody
\* writes in another way, what each write_some() wrote stays in one piece behind the pieces
\* written before it, at the cursor the call began with or, in a File opened for append, at
\* what was the end of the file.
THEOREM CursorTilesTheFile == Spec => []CursorTiles
<1>1. Init => ReadInv /\ WriteInv /\ TileInv /\ KeptInv
  <2> SUFFICES ASSUME Init PROVE ReadInv /\ WriteInv /\ TileInv /\ KeptInv
    BY Zenon
  <2>1. Types /\ \A c \in Calls : req[c].op = "none" /\ io[c].result = "new"
    BY FileInit, Zenon DEF ShapeInv
  <2>2. /\ ReadFiles \subseteq Calls /\ WriteFiles \subseteq Calls /\ Cursored \subseteq Calls
        /\ track.log = <<>> /\ track.base = 0 /\ file.cursor = 0
    BY Zenon DEF ReadFiles, WriteFiles, Of, Init, Cursored, Readers, Writers
  <2>3. DOMAIN track.log = {} /\ Len(track.log) = 0
    BY <2>2
  <2>4. ReadInv /\ WriteInv
    BY <2>1, <2>2, ZenonT(30) DEF ReadInv, WriteInv, ReadAt, WriteAt
  <2>5. TileInv
    BY <2>1, <2>2, <2>3, Zenon DEF TileInv, End
  <2>6. KeptInv
    BY <2>1, <2>2, <2>3, Zenon DEF KeptInv, WriteLog
  <2> QED BY <2>4, <2>5, <2>6, Zenon
<1>2. ShapeInv /\ ShapeInv' /\ OwnerInv /\ ReadInv /\ WriteInv /\ TileInv /\ KeptInv /\ [Next]_vars
         => ReadInv' /\ WriteInv' /\ TileInv' /\ KeptInv'
  BY FilesStep, TileStep, KeptStep, Zenon
<1>3. ShapeInv /\ TileInv /\ KeptInv => CursorTiles
  <2> SUFFICES ASSUME ShapeInv, TileInv, KeptInv, ~track.overlapped PROVE CursorTiles
    BY Zenon DEF CursorTiles
  <2>0. track.log \in Seq(Entries) /\ content \in Seq(Bytes) /\ DataLen \in Nat
    BY LengthsAssumption, Zenon DEF ShapeInv, Types
  <2>1. ASSUME NEW i \in DOMAIN track.log, NEW e, e = track.log[i], e.call \in Writers, OnlyCursor
        PROVE  SubSeq(content, e.at + 1, e.at + e.len) = Data(e.call)
    <3>1. i \in WriteLog /\ e.len = DataLen /\ LaidAt(i)
      BY <2>1, Zenon DEF WriteLog, TileInv, KeptInv
    <3>2. PICK c : c = e.call
      BY Zenon
    <3>3. PICK f \in Nat : f = e.at /\ Lies(c, f, DataLen)
      BY <2>1, <3>1, <3>2, Zenon DEF LaidAt
    <3>4. \A j \in 1 .. DataLen : f + j <= Len(content) /\ content[f + j] = Byte(c, j)
      BY <3>3, Zenon DEF Lies, LiesIn
    <3>5. SubSeq(content, f + 1, f + DataLen) = [j \in 1 .. DataLen |-> content[f + j]]
      BY <2>0, <3>4
    <3>6. [j \in 1 .. DataLen |-> content[f + j]] = [j \in 1 .. DataLen |-> Byte(c, j)]
      BY <3>4, Zenon
    <3> QED BY <3>1, <3>2, <3>3, <3>5, <3>6, ZenonT(30) DEF Data
  <2>2. ASSUME NEW i \in DOMAIN track.log, track.log[i].call \in Writers, OnlyCursor,
               NEW j \in 1 .. i - 1, track.log[j].call \in Writers
        PROVE  track.log[j].at + track.log[j].len <= track.log[i].at
    <3>1. j \in DOMAIN track.log /\ j < i
      BY <2>0
    <3>2. i \in WriteLog /\ j \in WriteLog /\ track.log[j].len = DataLen
      BY <2>2, <3>1, Zenon DEF WriteLog, TileInv
    <3> QED BY <2>2, <3>1, <3>2, ZenonT(30) DEF KeptInv
  <2>3. file.cursor = End(Len(track.log)) /\ \A i \in DOMAIN track.log : io[track.log[i].call].offset = End(i - 1)
    BY Zenon DEF TileInv
  <2> QED BY <2>1, <2>2, <2>3, Zenon DEF CursorTiles
<1> QED BY <1>1, <1>2, <1>3, FileShapes, Owners, PTL DEF Spec
=============================================================================
