-------------------------------- MODULE FdWait --------------------------------
(***************************************************************************)
(* io::wait_fd, io::wait_fd_for (src/io_unified.cpp) and sleep_for         *)
(* (src/event_loop.cpp): a call owns one or two libuv handles, returns     *)
(* when the first of them has something to say, and leaves the structure   *)
(* that holds them to their close callbacks.                               *)
(***************************************************************************)
EXTENDS UvLoop, Naturals, FiniteSets

CONSTANT Waits

VARIABLE wait       \* per call: its kind, its result, the structure and its handles

Kinds == {"wait_fd", "wait_fd_for", "sleep_for"}

\* exists: the structure is not deleted; handles: the state of each handle;
\* pending_close: close callbacks that are still to come
NoWait == [kind |-> "none", result |-> "new", exists |-> FALSE, cb |-> FALSE, pending_close |-> 0,
           handles |-> [h \in {"poll", "timer"} |-> "gone"]]

WaitInit == wait = [w \in Waits |-> NoWait]

HandlesOf(kind) ==
    CASE kind = "wait_fd" -> {"poll"} [] kind = "sleep_for" -> {"timer"} [] OTHER -> {"poll", "timer"}

\* Faulty: the first close callback deletes the structure.
CloseHandlesOnce(s, r) ==
    [s EXCEPT !.result = r, !.cb = TRUE, !.pending_close = 1,
              !.handles = [h \in DOMAIN @ |-> IF @[h] = "open" THEN "closing" ELSE @[h]]]

\* set the promise or throw, and close_poll_wait_for_handles or uv_close
CloseHandles(s, r) ==
    [s EXCEPT !.result = r, !.cb = TRUE,
              !.pending_close = Cardinality({h \in DOMAIN s.handles : s.handles[h] = "open"}),
              !.handles = [h \in DOMAIN @ |-> IF @[h] = "open" THEN "closing" ELSE @[h]]]

\* the call up to future.get(); o: "init" or "start" of a handle fails, or neither
WaitBegin(w, kind, o) ==
    /\ is_loop_alive /\ wait[w].result = "new"
    /\ LET s == [NoWait EXCEPT !.kind = kind, !.result = "waiting", !.exists = TRUE,
                   !.handles = [h \in DOMAIN @ |-> IF h \in HandlesOf(kind) THEN "open" ELSE "gone"]]
       IN  wait' = [wait EXCEPT ![w] = CASE o = "init" -> [NoWait EXCEPT !.result = "error"]
                                         [] o = "start" -> CloseHandles(s, "error")
                                         [] o = "ok" -> s]
    /\ UNCHANGED loop

\* Faulty: a poll that reports an error is not told to the call.
OnPollSilent(w, r) ==
    /\ CallbacksRun /\ wait[w].handles["poll"] = "open"
    /\ wait' = [wait EXCEPT ![w] = CloseHandles(@, IF r = "error" THEN @.result ELSE r)]
    /\ UNCHANGED loop

\* on_poll_event, on_poll_event_for
OnPoll(w, r) ==
    /\ CallbacksRun /\ wait[w].handles["poll"] = "open"
    /\ wait' = [wait EXCEPT ![w] = CloseHandles(@, r)]
    /\ UNCHANGED loop

\* on_sleep_timer, on_poll_timeout_for
OnTimer(w) ==
    /\ CallbacksRun /\ wait[w].handles["timer"] = "open"
    /\ wait' = [wait EXCEPT ![w] = CloseHandles(@, IF @.kind = "sleep_for" THEN "ok" ELSE "timeout")]
    /\ UNCHANGED loop

\* on_poll_closed, on_poll_wait_for_closed, on_sleep_timer_closed; a handle the
\* walk closed has no callback, and its structure is never deleted
OnWaitClosed(w, h) ==
    /\ CallbacksRun /\ wait[w].handles[h] = "closing"
    /\ wait' = [wait EXCEPT ![w] =
         LET s == [@ EXCEPT !.handles[h] = "gone"]
         IN  IF s.cb THEN [s EXCEPT !.pending_close = @ - 1, !.exists = (s.pending_close # 1)] ELSE s]
    /\ UNCHANGED loop

WaitWalk ==
    wait' = [w \in Waits |-> [wait[w] EXCEPT
        !.handles = [h \in DOMAIN @ |-> IF @[h] = "open" THEN "closing" ELSE @[h]]]]
=============================================================================
