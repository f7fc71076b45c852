------------------------------- MODULE Mailbox -------------------------------
(***************************************************************************)
(* What the receiving side of a TcpConnection and of a UdpSocket promises  *)
(* to its callers: the items the peer sent (`Stream') are handed out in    *)
(* order, each to exactly one call; at most one call waits; an end of      *)
(* stream is reported only when every item has been handed out; a timeout  *)
(* consumes nothing; and nothing is received while the mailbox is closed.  *)
(***************************************************************************)
EXTENDS Naturals, Sequences

CONSTANTS
    Calls,      \* receive calls
    Timed,      \* the calls that may time out
    Stream,     \* the items that reach this end, in order
    Lossy       \* an item may be lost, with an error for the call that waits

VARIABLES
    open,
    taken,      \* how many items have been handed out or lost
    outcome     \* what each call returned

vars == <<open, taken, outcome>>

Unanswered(c) == outcome[c] \in {"new", "waiting"}
Answer(c, o) == outcome' = [outcome EXCEPT ![c] = o]

Init == open \in BOOLEAN /\ taken = 0 /\ outcome = [c \in Calls |-> "new"]

Open == ~open /\ open' = TRUE /\ UNCHANGED <<taken, outcome>>

\* closing may answer the call that waits in the same step
Close ==
    /\ open /\ open' = FALSE /\ UNCHANGED taken
    /\ \/ UNCHANGED outcome
       \/ \E c \in Calls : outcome[c] = "waiting" /\ Answer(c, "error")

Wait(c) ==
    /\ open /\ outcome[c] = "new" /\ \A d \in Calls : outcome[d] # "waiting"
    /\ Answer(c, "waiting") /\ UNCHANGED <<open, taken>>

Receive(c) ==
    /\ open /\ Unanswered(c) /\ taken < Len(Stream)
    /\ taken' = taken + 1
    /\ Answer(c, Stream[taken + 1]) /\ UNCHANGED open

Lose(c) ==
    /\ Lossy /\ open /\ outcome[c] = "waiting" /\ taken < Len(Stream)
    /\ taken' = taken + 1
    /\ Answer(c, "error") /\ UNCHANGED open

End(c) ==
    /\ ~Lossy /\ Unanswered(c) /\ taken = Len(Stream)
    /\ Answer(c, "eof") /\ UNCHANGED <<open, taken>>

Timeout(c) ==
    /\ c \in Timed /\ outcome[c] = "waiting"
    /\ Answer(c, "timeout") /\ UNCHANGED <<open, taken>>

Fail(c) ==
    /\ Unanswered(c)
    /\ Answer(c, "error") /\ UNCHANGED <<open, taken>>

Next ==
    \/ Open \/ Close
    \/ \E c \in Calls : Wait(c) \/ Receive(c) \/ Lose(c) \/ End(c) \/ Timeout(c) \/ Fail(c)

Spec == Init /\ [][Next]_vars
=============================================================================
