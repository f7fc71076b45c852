------------------------------ MODULE Waiters ------------------------------
(***************************************************************************)
(* The lists of promises that waiting calls leave behind: fiber_waiters_   *)
(* of MessageQueue and accept_waiters of TcpServer.  A timed call that     *)
(* gives up looks for its own promise and erases it.                       *)
(*                                                                         *)
(* Erase is RemoveAt of SequencesExt.  It is restated here because the     *)
(* proofs about both lists carry every module their specification extends  *)
(* into each of their obligations, and that one is most of the weight.     *)
(***************************************************************************)
EXTENDS Naturals, Sequences, Functions

\* erase(it), it pointing at position i
Erase(s, i) == [k \in 1 .. Len(s) - 1 |-> IF k < i THEN s[k] ELSE s[k + 1]]

\* erase(std::find(begin(), end(), e)), if find found one
Erased(s, e) ==
    IF e \notin Range(s) THEN s
    ELSE Erase(s, CHOOSE i \in DOMAIN s : s[i] = e /\ \A j \in 1 .. i - 1 : s[j] # e)
=============================================================================
