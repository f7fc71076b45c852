# A verification development for Fiberuv

Fiberuv is a C++20 library that puts Boost fibers on a libuv event loop. This
directory holds TLA+ models of the library, TLC configurations that check them on
small instances, and TLAPS proofs of the main safety properties for every instance.
Names and line numbers refer to `include/fiberuv/fiberuv.hpp` ("hpp") and `src/*.cpp`.

## 1. Inventory

| component | state | operations | hard part |
|---|---|---|---|
| `EventLoop` | `stopping_`, `lifetime_flag_`, `active_fibers_`, `pending_blocking_`, `loop_tasks_`, `blocking_jobs_`, worker threads | `dispatch`, `spawn`, `go`, `run_blocking`, `run`, `stop`, exception hook, destructor | loop thread and workers meet in two queues, two counters and one condition variable; teardown with work in flight |
| `MessageQueue` | `queue_`, `fiber_waiters_`, `closed_`, `recv_cv_` | `send`, `emplace`, `recv`, `recv_for`, `recv_blocking(_for)`, `try_recv`, `close` | messages take two paths; senders finish outside the lock; timeouts race hand-offs |
| `TaskScope` | `active`, `cancel_requested`, `first_exception`, two condition variables | `spawn`, `go`, `request_cancel`, `join`, `join_for`, destructor | joiners on fibers and on threads; the notifier holds no mutex; the loop may die |
| `PeriodicTask` | `active`, `stopping`, `initialized`, a timer, a self reference | `every`, `stop`, destructor, tick | stop from another thread; interval 0 |
| `sleep_for` | a timer and a promise | one call | handle freed only by its close callback |
| `TcpConnection` | `pending_read`, buffered reads, `eof`, `closing`, `closed`, close waiters | `read`, `read_for`, `write`, `close` | completion, timeout and close compete for one pending read |
| `TcpClient` | one `ConnectRequestState` per call | `connect`, `connect_for`, `request` | who frees the request after a timeout |
| `TcpServer` | listening handle, accepted connections, waiters | `listen`, `accept`, `accept_for`, `close` | failed listen, close while accepting |
| `UdpSocket` | `pending_recv`, buffered packets, closing flags | `bind`, `send_to`, `recv_from(_for)`, `close` | as `TcpConnection`, and a dead loop |
| `read_file`, `write_file` | one request chain per call | open, read or write, close | every error path closes and answers once |
| `io::Socket` | the TCP or UDP object it currently wraps | bind, listen, accept, connect, send, recv, close | state read before a suspension, used after it |
| `io::File` | descriptor, cursor, `closed` | open, read, write, seek, close | cursor across suspensions, concurrent close |
| `io::wait_fd(_for)` | a poll handle, a timer | one call | event and timeout race, two handles to close |
| `invoke_on_loop` | a `std::promise` | one call | runs on the main fiber, which must not suspend |
| `ipc::ProcessChannel` | two descriptors | `pair`, `send_blob`, `recv_blob`, `close` | frames of concurrent senders |

Interaction: a fiber or thread hands work to the loop thread with `dispatch`
(`loop_tasks_`), the loop thread hands work to the pool with `run_blocking`
(`blocking_jobs_`), and every suspended fiber waits for a promise that a closure
or a libuv callback sets on the loop thread. `TaskScope` counts fibers of
`EventLoop::spawn`; `PeriodicTask` spawns one fiber per tick; the I/O classes own
libuv handles whose close callbacks run on the loop thread.

What makes each part correct is listed as properties below; `PROJECT.json` lists the
hazards with their lines, and maps each definition to the lines it translates.

## 2. Modules

| module | models | checked by |
|---|---|---|
| `Waiters` | the lists of waiters of a queue and of a server, and erasing from them | through `MessageQueue`, `TcpServer`, `Socket` |
| `MessageQueue` | `MessageQueue<T>` | `MCMessageQueue`, `MessageQueueProofs` |
| `EventLoop` | `EventLoop` as `fiberuv::run` uses it | `MCEventLoop`, `EventLoopProofs` |
| `TaskScope` | one `TaskScope` | `MCTaskScope`, `TaskScopeProofs` |
| `UvLoop` | the life of a loop as the I/O objects see it | extended by all below |
| `Mailbox` | abstract: what a receiving side promises | refinement target |
| `TcpConnection` | one connection | through `TcpClient` |
| `TcpClient` | `connect`, `connect_for` and the connection they return | `MCTcpClient`, `TcpClientProofs` |
| `TcpServer` | a listening server | through `Socket` |
| `UdpSocket` | a UDP socket | through `Socket` |
| `Socket` | `io::Socket` over the two above | `MCSocket`, `SocketProofs` |
| `PeriodicTask` | `PeriodicTask`, `every` | through `LoopHandles` |
| `FdWait` | `sleep_for`, `io::wait_fd`, `io::wait_fd_for` | through `LoopHandles` |
| `LoopHandles` | both on one loop that may be destroyed | `MCLoopHandles`, `LoopHandlesProofs` |
| `FsPool` | external: `uv_fs_*` requests, descriptors, one file | through `File` |
| `FileIO` | `read_file`, `write_file` | through `File`, `FileIOProofs` |
| `File` | `io::File`, `create_file`, beside whole-file calls | `MCFile`, `FileIOProofs`, `FileProofs` |
| `ProcessChannel` | one direction of an `ipc::ProcessChannel` pair | `MCProcessChannel` |

Definitions whose comment starts with "Faulty:" are variants of a definition with a
plausible bug. No specification uses them; `PROJECT.json` ("mutants") names the
definition each replaces and the property that then fails.

### MessageQueue

Each call is one atomic step per critical section of `mutex_` and one per step
taken after the lock is released. A message is the send call that carries it; a
receive call is the promise it waits on. `spc` and `rpc` say where each call is,
`promise` what its promise holds, `result` what it returned. `sent` and `taken`
are history variables in lock order. `SendToWaiter` and `SetValue` are the two
halves of `send_payload`'s hand-off; `RecvTimeout`, `RecvExpire` and `RecvLate` are
the three stages of `recv_for` after its first wait; `Close`, `CloseNotify` and
`CloseResolve` are the stages of `close`, with one `CloseResolve` per waiter.
`try_recv` never waits, so any call may be one. The destructor is `close`.

### EventLoop

The loop thread is one process. `current` is the fiber it executes and `ready` the
round-robin queue, so fibers switch only where the code suspends or yields, while
workers interleave anywhere between mutex operations. `main` follows the main fiber
through `run()` and `~EventLoop`. `loop_tasks_` holds three kinds of closure: spawn
a fiber, set the promise of a blocking call, or throw. A blocking job may itself
call `run_blocking` (`WorkerNest`), and so may a foreign thread (`ForeignSubmit`).

libuv is external. `uv_async_send` only wakes a blocked poll, and `run()` polls with
`UV_RUN_NOWAIT`, so it has no effect on the order of steps. `Submit` counts a job and
queues it in one step, although `pending_blocking_` goes up before the lock is taken
(hpp:338): only `run()` reads the counter, and it goes up early, never late. Calls of
`dispatch` and `run_blocking` are made on a living loop, which is what the code asks of
its callers: neither tests it. `uv_loop_alive` is true
while the referenced `async_` handle is open. `run()` reads its four idle conditions
one after another; the first is false as long as the loop exists, so the model
evaluates them in one step. The model starts as `fiberuv::run` does, with the root
fiber dispatched, and ends with the destructor. `spawn` on a foreign thread is not in
this module; `TaskScope` models where such a fiber lives.

### TaskScope

A task lives on the scheduler of the thread that spawned it (`home`). `slice` records
what each thread is in the middle of: fibers of one thread never preempt each other,
and a foreign thread that joins blocks with all its fibers. The last task's
`fetch_sub`, `cv.notify_all` and `std_cv.notify_all` are three steps; a joiner tests
its predicate and enters the wait set in two. `LoopDies` is `~EventLoop`. Each join is a
`join()` or a `join_for()` (`timed`). The result "dead" stands for an early return
because the loop is gone, of `join()` or with false; a `join_for()` that finds the loop
gone and nothing running returns true ("ok", and the call is in `late`).

### The I/O objects: UvLoop

Fibers and libuv callbacks share the loop thread, so a call up to its wait, a callback,
and what a fiber does after it resumes are one step each. `loop` is "running", "dying"
inside `~EventLoop` (its walk closes every open handle with no callback, and `uv_run`
then runs the callbacks that are left while no fiber runs), or "dead". A call's result
is the value of its promise: `wait_for` looks at the promise again after a timeout, so
a call times out only while its promise is unset. `keepalive` is the self reference
with which a structure outlives its owner until its close callback.

### TcpConnection, TcpClient

`conn` is the `ConnectionState`, `uv` its handle with the requests in flight, `arrived`
the number of chunks of the peer's `Stream` that libuv has delivered. `Read`, `Write`
and `Close` are the calls, `OnData`, `OnEof`, `OnWriteDone` and `OnConnectionClosed`
what libuv does. `TcpClient` adds the `ConnectRequestState` (`req`): resolution,
attempt, timeout, and who deletes it on each path. `request()` is a sequence of these
calls.

### TcpServer, UdpSocket, Socket

`TcpServer` pairs incoming `Peers` with `Accepts` through `accepted` and `waiters`.
`ending` counts handles on their way out, with and without the structure they lie in,
because a `listen` that failed leaves one without. `UdpSocket` is shaped like
`TcpConnection`, but its operations test only `closed`, so a call in the closing window
still reaches libuv, which may refuse it or not. `Socket` composes both with the
connections of `connect`; a connection is its state, its reader and the slot that
holds it. `stray` records what was stored past a close or pushed out of the slot: the
properties name these cases instead of hiding them.

### PeriodicTask, FdWait, LoopHandles

`task` is the `Impl` with its timer, `posted` the closures other threads dispatched,
`ticks` the tick fibers spawned and not run, `parity` flips with each tick so that
"ticks again" can be said with finite state. `Milliseconds` is the truncation of
`duration_cast`, and 0 for a negative interval. `wait` is the structure of a `wait_fd`, `wait_fd_for` or `sleep_for`
with its one or two handles and `pending_close`. `LoopHandles` puts both on one loop.

### FsPool, FileIO, File

`FsPool` executes a request at any time after it was submitted, in any order, with
short or failing results, and reuses descriptor numbers, lowest first. A descriptor
knows the flags it was opened with: with `O_APPEND` a write goes to the end of the file
whatever offset was asked for, as `pwrite` does on Linux (`WriteOffset`). `FileIO` is the
two chains, in which each callback submits the next request, so they go on inside
`~EventLoop`. The bytes that a call writes are all different (`Byte`), so a write that
resumes at the wrong place is seen. `File` adds the object with its cursor, opened with or
without `append`; its fibers resume one request at a time, and not inside `~EventLoop`.
A `File::open` that resumes on a dead loop asks it for its lifetime token, which is
undefined (io_unified.cpp:769): the call ends as "undefined". `track` and `stolen` are
history variables; `track` also has the place of each write in the file.

### ProcessChannel

A frame is a header and a payload written and read by separate requests with short
results over a bounded pipe. The pipe blocks, so a request without data or room holds a
thread of the pool (`queue`, `PoolSize`). A request on a descriptor that `close` has
freed fails. In the code its number may be in use again by then, for another file
(ipc.cpp:173, 195); this module has no other files, so it does not show that.

## 3. Runs, bounds and results

| run | instance | result |
|---|---|---|
| `message_queue` | 2 sends, `recv`, `recv_for`, `recv_blocking`, `recv_blocking_for`, any may be `try_recv` | holds, 35,692 states |
| `message_queue_loss` | same | violated: finding 1 |
| `event_loop` | 2 fibers, 2 blocking calls, 2 workers, 1 throwing closure | holds, 181,703 states |
| `event_loop_foreign` | 1 fiber and 1 foreign thread, 2 blocking calls, 2 workers | holds, 43,103 states |
| `task_scope` | 2 tasks, 1 joining fiber, 1 foreign thread, each in `join` or `join_for` | holds, 179,494 states |
| `task_scope_stranded` | 2 tasks, 1 foreign thread in `join` | violated: finding 2 |
| `tcp_client` | 1 connect, 3 reads (1 timed), 1 write, 2 closes, 2 chunks | holds, 9,174 states |
| `socket` | 4 workloads of up to 6 calls: UDP, server, client, both; 2 peers, 2 packets | holds, 82,467 states |
| `loop_handles` | 1 periodic task, 1 wait of any kind, intervals of -1000, 500 and 2000 µs | holds, 4,500 states |
| `every_short` | same, intervals of 500 and 2000 µs | violated: finding 3 |
| `files` | 9 workloads of up to 4 calls, 2 descriptors, a 2-byte file, `Chunk` 2, `DataLen` 2 | holds, 62,526 states |
| `channel` | 4 workloads of up to 4 calls, blobs of 0, 1 and 2 bytes, `HeaderLen` 2, `Capacity` 2, `PoolSize` 3 | holds, 389,128 states |

Every call, fiber, job and task happens at most once, so the state spaces are finite
without a cap; the exceptions are the ticks of a periodic task, bounded by `MaxTicks`
spawned and not yet run. `Workloads` bounds which calls meet in one behaviour of a
`Socket`, a `File` or a channel. Two messages, chunks or packets are enough for a
reordering or a double delivery, two sleepers for a signal given to the wrong one, two
workers and two jobs for a nested call that succeeds and one that is joined by the
destructor, two tasks for a first and a later failure, two descriptors for a number
that is reused, two bytes for a short read or write, two closes for one that arrives
while the first is under way. A capacity of 2 is less than a frame, so writers block in
the middle of one. Symmetry is not used because the runs check liveness. Deadlock is
not checked, because each system may really stop: all calls have returned, the loop is
destroyed or terminated, or a call waits for a peer that stays silent.

Properties:

- `MessageQueue`: `FifoOrder` (both paths together keep the order of acceptance),
  `WaitersSound`, `DeliveredOnce`, `LostOnlyToTimeout` (the one way an accepted
  message is lost), `NoLostSignal`, `ReceiveReturns`; `TypeOK`.
- `EventLoop`: `JobOnce`, `NoLostWakeup`, `CountersExact`, `IdleMeansQuiet`,
  `FibersAccounted`, `DestroyedIsQuiet`, `ReturnsOnStop` (the idle exit of `run()` is
  never taken), `BlockingReturns` (with its three exceptions), `StopEndsRun`.
- `TaskScope`: `JoinWaitsForAll`, `FailureReaches`, `JoinReturns`.
- `TcpClient`: `CallbacksSafe` (no callback into freed state), `AbandonedIsClosed`,
  `CloseReturns`, and the refinement `ReadsAreMailbox`.
- `Socket`: `AcceptExact`, `EndingServerOwned`, `ClosedReleases`, `RecvOwned`,
  `CloseReturns`, and the refinement `DatagramsAreMailbox` (at these bounds: it
  needs a condition beyond them, see the end of section 5).
- `LoopHandles`: `HandlesOwned`, `StopIsFinal`, `KeepsTicking`, `WaitsReturn`.
- `File`: `DescriptorsOwned`, `WholeFile`, `CursorTiles`, `CallsAnswered`.
- `ProcessChannel`: `FramesIntact`, `StreamEnds`.

Refinement. `Mailbox` says what callers of a receiving side rely on: items in order,
each to one call, at most one call waiting, end of stream last, a timeout consumes
nothing. The reads of a `TcpConnection` implement it, and the receives of a UDP
`Socket` implement its lossy form. In both mappings `taken` is what libuv delivered
minus what is buffered.

Findings:

1. An accepted message can be lost. `send` pops a waiter, `recv_for` times out, finds
   its waiter gone, polls a future that is not ready and returns `nullopt`; then
   `set_value` runs and `send` returns true (hpp:165-169, 252-264).
2. A foreign `join()` can sleep for ever. It evaluates its predicate, the last task
   decrements and notifies without `std_mutex`, then the joiner starts to wait
   (hpp:459-462, 608-612).
3. `every()` with less than a millisecond is not periodic. The interval is truncated
   to 0, libuv takes a repeat of 0 for a one-shot timer, and the task ticks once and
   stays active.

`BlockingReturns` names two hangs as exceptions rather than hiding them: `Starved`
(every worker is inside a nested `run_blocking`) and `JoinStuck` (`~EventLoop` joins
a worker that waits for the loop). The third exception is an exception leaving
`~EventLoop`.

Exceptions the other properties name, or that follow from a guard of the models:

- `~EventLoop` with I/O in progress. The walk closes handles without a callback, so a
  read, accept or untimed fd wait that is waiting never returns. A connect in flight
  frees its `ConnectionState` while the handle is still closing, hence `is_loop_alive`
  in `CallbacksSafe` (tcp.cpp:80). `File::close` on a dead loop drops the descriptor;
  `create_file` then leaks it.
- `TaskScope`. A `join_for()` called after the loop is gone returns true when nothing runs
  any more and never looks at `first_exception` (hpp:494-496), and `join()` returns at
  once: `FailureReaches` speaks of calls made while the loop lives, also those under
  which it dies. An untimed join may never return when the loop dies under a foreign
  joiner, which nothing notifies, or when a thread joins the scope it has spawned into.
- `io::Socket`. A second `connect` pushes the first connection out of the slot, open
  and perhaps with a `recv_for` that refers to it (io_unified.cpp:527). `listen` or
  `send_to` on a closed socket brings it back to life. After a failed `listen` the
  server's structure does not keep itself until its close callback (tcp.cpp:663).
- `PeriodicTask::stop` from another thread returns before it takes effect, and ticks
  already spawned run after any stop.
- `io::File`. Two overlapping `close` calls may free a number that was reused;
  `close` does not wait for requests in flight; overlapping `read_some` or
  `write_some` calls use the same offset; a write that fails after a short one leaves
  the cursor where it was.
- `ProcessChannel`. Overlapping sends interleave their frames, and so do receives. As
  many blocked requests as pool threads keep everything else out, closes included.

## 4. Fairness

- `MessageQueue`: a call that has started runs to its next wait (weak). Timeouts are
  strongly fair, because a deadline is absolute and spurious wakeups do not move it.
  Nobody is obliged to send, receive or close.
- `EventLoop`: the loop thread and each worker keep running (weak); this includes that
  a blocking task ends. Nobody is obliged to dispatch, stop or nest.
- `TaskScope`: strong for tasks, loop fibers and timeouts, since the round-robin
  scheduler and the clock reach each of them although others run in between; weak for
  a foreign thread.
- `TcpClient`, `Socket`: the callbacks that libuv owes (of closed handles, of finished
  or cancelled requests) come, because `run()` calls `uv_run` again and again, and a
  fiber whose promise is set resumes (weak). A peer is not obliged to send or connect.
- `LoopHandles`: timers that are due fire, closed handles are reported, closures are
  drained, ready fibers run (weak, per task and per wait). A poll may never report.
- A loop that is being destroyed still runs its callbacks. Tick fibers spawned before
  that are given their turn, so `StopIsFinal` assumes that the thread goes on.
- `File`, `ProcessChannel`: the pool executes a request that can be executed, and the
  loop resumes its call (weak, per call), after the loop is dead only if the calls'
  fibers get a turn, which is not assumed.

## 5. Proofs

The theorems hold for every value of the constants that satisfies the named
assumptions: any number of calls, messages, fibers, workers, peers, packets and
descriptors, any stream, file, chunk and data length. All have the same shape: an
inductive invariant, one lemma per group of actions, and a last temporal step. Every
invariant and refinement that a passing run checks is proved, one of them under a
condition and one not at all (see the end of this section).

| module | theorems | assumptions |
|---|---|---|
| `MessageQueueProofs` | `TypeCorrect`, `Fifo`, `SignalNotLost`, `ListedWaitersAreSound`, `MessageReturnedOnce`, `OnlyTimeoutLoses` | `CallsAssumption` (fiber and thread calls disjoint, finitely many thread calls), `ValuesAssumption` (nullopt, "unset" and messages differ) |
| `EventLoopProofs` | `JobsRunOnce`, `WakeupNotLost`, `RunReturnsOnStop`, `DestructionIsQuiet`, `FibersAreAccounted`, `CountersAreExact`, `IdleIsQuiet` | `FibersAssumption`, `WorkersAssumption` (finite, at least one worker), `DisjointAssumption` |
| `TaskScopeProofs` | `JoinIsComplete`, `NoFailureIsLost` | those of `TaskScope`, `ResultsAssumption` (tasks are not result words) |
| `TcpClientProofs` | `ReadsImplementMailbox`, `CallbacksAreSafe`, `AbandonedAreClosed` | `CallsAssumption`, `StreamAssumption` (a chunk is not a call state) |
| `SocketProofs` | `AcceptsAreExact`, `EndingServersAreOwned`, `CloseReleases`, `ReceivesAreOwned`, `DatagramsImplementMailbox` | `AcceptsAssumption`, `UdpCallsAssumption` (calls of different kinds are disjoint), `PeersAssumption` (a connection comes in once), `PacketsAssumption`, `ConnectsAssumption` |
| `LoopHandlesProofs` | `HandlesAreOwned` | `IntervalsAssumption` |
| `FileIOProofs` | `FileShapes`, `FilesAreWhole` | `DescriptorsAssumption` (natural numbers), `InitialAssumption` (the file is a sequence), `LengthsAssumption` (`Chunk` and `DataLen` positive), `WorkloadsAssumption` (each call is of one kind) |
| `FileProofs` | `Ownership`, `DescriptorsAreOwned`, `CursorTilesTheFile` | the same |

- `MessageQueueProofs`. `Fifo` is not inductive alone: a hand-off would overtake queued
  messages. `ListedWhenEmpty` (a waiter is listed only while `queue_` is empty) closes
  the gap. `SignalNotLost` counts awake threads with the cardinality theorems, hence
  the finiteness assumption. The other three rest on `HoldInv`, which follows each
  message and each call: a listed waiter is waiting with an unset promise that no sender
  targets (`CallInv`); a message that was handed off is in the promise of its target, or
  its sender is between the lock and `set_value`, and no other message has that target
  (`SendInv`). A call whose waiter was popped can leave without the message
  only as `recv_for` after its deadline, which is `OnlyTimeoutLoses`.
- `EventLoopProofs`. `JobInv` adds to `JobOnce` which worker states hold a job and that
  a posted job's promise is set or its closure queued. `WakeInv` is `NoLostWakeup` with
  its three sets named; each notifier either leaves nobody waiting or turns one coming
  notification into one awake worker. `PhaseInv` ties `main`, `alive`,
  `workers_stopping_` and the exited workers together: the last worker to exit leaves no
  job, and from then on none can be submitted. `SchedInv` is about the scheduler: a
  fiber that can run is the current one or in `ready` once, the main fiber is in `ready`
  while another one runs, and a fiber is inside `run_blocking` exactly while it awaits
  one job. `ActiveExact` and `PendingExact` write `active_fibers_` and
  `pending_blocking_` as cardinalities; `IdleIsQuiet` follows from both.
- `TaskScopeProofs`: `active` is the cardinality of the set of running tasks; a failed
  task has set `first_exception` before it is subtracted. A join returns "ok" only if
  every task from before it has ended; `NoFailureIsLost` then needs that it was begun on
  a living loop.
- `TcpClientProofs`: the handle reads only while a read waits. So nothing is ever put
  in `buffered_reads`, and the mapping's `taken` is `arrived`. This is a refinement
  proof: initial states map to initial states, each step to a step or a stutter.
  `CallbacksAreSafe` needs that an initialized, unclosed state holds its keepalive and
  that a request is owned until its last callback. `AbandonedAreClosed` needs
  `HandleInv`: an open handle belongs to the caller, or to a request in flight whose
  callback closes it when the caller has gone.
- `SocketProofs`. `WaitInv` and `PeerInv`: who waits in `accept` is listed once and only
  while no connection is queued, and a connection is still to come, queued once, or given
  to one call. `OwnInv`: only a server that listens owns itself. `KindInv`: a socket of
  one type never touches the objects of the other. `SlotInv` and `LeftInv`: an open
  connection is in the slot or recorded as stray, and so is what is open past a close.
  `PendingInv`, for the refinement: a receive on a UDP socket waits exactly while it is
  `pending_recv`, and none is pending once the socket is closed.
- `LoopHandlesProofs`: a closing timer of an initialized task is a stopping one, a
  posted start is the only closure of its task, and the handles of a wait close
  together with `pending_close` counting them.
- `FileIOProofs`. `ShapeInv` says which request a call of each kind may have in flight,
  with which offset, data and results. On top of it `ReadInv` (what `read_file` has so
  far is a prefix of a file that nobody changed since it began) and `WriteInv` (a file
  that nobody else changes holds what `write_file` has written so far) give
  `FilesAreWhole`.
- `FileProofs`. `HeldInv`: the owner of a descriptor has it in its request, or in the
  open `File`. `CloseInv` and `OnceInv`: as long as `close` is called once, it frees
  the descriptor of the `File` and nobody else's. `TileInv`: calls that used the cursor
  and did not overlap lie one behind the other, and the one that waits began at the
  cursor. `KeptInv`: what such writes wrote is still there, one behind the other, and the
  one that waits has written its bytes behind them. It holds for both kinds of `File`
  because of `WritePlace`: a write lands right behind what its call has written, at the
  end of the file in a `File` opened for append (nobody else writes) and at the offset
  otherwise. `OwnerInv` of `FileIOProofs` says which call opened the descriptor.

Only model-checked:

- `DatagramsAreMailbox` without its condition. `DatagramsImplementMailbox` proves it for
  behaviours in which no `UdpSocket` is destroyed before it is closed
  (`DestroyedClosed`). The `socket` run has no others, so it does not test the condition.
  It is needed: with three closes and two calls of `send_to` TLC reaches a state where it
  fails, and with a third `send_to` and two receives it finds the refinement itself
  violated. The first receive waits on a socket that the third `send_to` replaces, and the
  second then waits beside it. With one receive at the same bounds the refinement holds.
  The cause is the order of steps inside `std::optional::reset`. The slot of a
  connection is empty while the destructor waits, as in libstdc++. The slot of the UDP
  socket stays full until its destructor returns, because the model has one `UdpState` at
  a time; in the code `send_to` would construct another one in storage that is still being
  destroyed, and what that does is undefined.
- `FramesIntact`. Its inductive invariant says that the pipe, with what the readers and
  writers hold, is the concatenation of the frames sent and not yet received. There may
  be any number of them, so it needs induction over data.
- Liveness: `ReceiveReturns`, `BlockingReturns`, `StopEndsRun`, `JoinReturns`,
  `CloseReturns`, `StopIsFinal`, `KeepsTicking`, `WaitsReturn`, `CallsAnswered`,
  `StreamEnds`. All depend on fairness.

## 6. Not modelled

- `invoke_on_loop` from a foreign thread. It runs its operation on the main fiber inside
  `drain_loop_tasks`; an operation that suspends there stops the loop, so nothing after
  it can be said. On the loop thread it is a plain call and part of its callers.
- `EventLoop::spawn` on a foreign thread, beyond what `TaskScope` needs; moving a
  `TaskScope`, a `PeriodicTask` or a socket.
- `TcpClient::request`, and `send` and `recv` of an `io::Socket` on a connection: sequences
  of modelled calls with no state of their own.
- `create_directory`, `remove_directory`, `remove_file`: one request each.
- The reverse direction of a channel (the same code), the creation of its pipes, and
  its retry after `EINTR` and `EAGAIN`.
- A `uv_fs_write` that reports 0 bytes. `on_fs_write` of `io::File` submits it again
  (io_unified.cpp:189-201), for ever if it has to; `write_file` takes it for an error
  (file_io.cpp:177-184).
- Conversions: error text, socket addresses, and the narrowing of buffer sizes to
  `unsigned int`. Payloads are chunks, so a size of 4 GiB has no counterpart.
- The thread-local pointer to the current loop, and the example programs.

Memory layout, message contents and timing values are abstracted everywhere, except
the truncation of intervals in `every()`. What a suspended fiber does after its loop
is destroyed is outside the `EventLoop` model; the I/O modules let such fibers run on
where the code reaches a dead-loop test.
