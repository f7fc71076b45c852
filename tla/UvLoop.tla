------------------------------- MODULE UvLoop -------------------------------
(***************************************************************************)
(* The life of an EventLoop as the I/O objects on it see it.  Fibers and   *)
(* libuv callbacks share the loop thread: a call runs up to the point      *)
(* where it waits without interruption, and so does a callback.            *)
(*                                                                         *)
(*   "running"  is_loop_alive holds                                        *)
(*   "dying"    inside ~EventLoop: uv_run calls the callbacks that are     *)
(*              left, and no fiber of the thread runs                      *)
(*   "dead"     the loop is destroyed; fibers may still run                *)
(***************************************************************************)
VARIABLE loop

FibersRun == loop # "dying"
CallbacksRun == loop # "dead"
is_loop_alive == loop = "running"
=============================================================================
