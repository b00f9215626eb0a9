# Specifications of clibuv

clibuv is libuv repackaged as one C library for Darwin (`_darwin/`) and Windows
(`_win/`): an event loop with *handles* (timers, async, idle, prepare, check,
signal, streams, UDP, poll, process, file watchers) and *requests* (write,
connect, shutdown, send, and the work of the thread pool).  This directory holds
TLA+ models of its stateful and concurrent core on both systems, the TLC
configurations that check them on small instances, and theorems with proofs that
TLAPS checks for every size.

All paths below are relative to `src/source/main/cpp/` unless they start with
`src/`.  `PROJECT.json` maps every definition to the lines it models.

## 1. Inventory

One row per part of the system: what state it keeps, what operates on it, what
makes it correct, and where it is modelled.  "Hard" names what a unit test hardly
reaches.

### Shared and Darwin

| Part | State | Operations | Hard | Correct when | Module |
|---|---|---|---|---|---|
| Worker pool, `threadpool.c` | shared queue, slow-I/O queue with one marker, counters of idle and slow threads, `loop->wq`, `w->work`, link of each request | `worker`, `post`, `uv__work_submit`, `uv__work_cancel`, `uv__work_done`, `uv__threadpool_cleanup`, fork hook | two locks, a condition variable, cancel against execution, shutdown, fork | each request is executed or cancelled, never both, delivered once, truthfully; slow I/O leaves half of the threads alone; no lost wakeup | `ThreadPool`, `WorkRequest` |
| Async handles, `_darwin/async.c` | `pending` and `busy` words, wakeup descriptor, queue of handles | `uv_async_send`, `uv__async_io`, `uv__async_spin`, close, `uv__async_stop`, `uv__async_fork` | lock-free senders against the loop closing the handle or itself | no lost call, no callback without a call or after close, nobody wakes a closed loop | `Async`, `AsyncEvents` |
| Timers, `timer.c` | heap, `loop->time`, `timeout`, `repeat`, `start_id`, ready queue on a stack | start, stop, again, close, `uv__run_timers`, `uv__next_timeout` | callbacks that change timers of the pass under way; 64-bit and int limits | fire once when due, in order; the loop neither oversleeps nor spins | `Timer` |
| Heap of the timers, `heap-inl.h` | nodes with `left`, `right`, `parent`; `min`, `nelts` | insert, remove | exchanging nodes that are linked to each other; removing from the middle | complete tree, least node first | `Heap` |
| Loop and handle life, `_darwin/core.c`, `loop-watcher.c`, `src/.../uv-common.h` | `active_handles`, `active_reqs`, handle flags, watcher/pending/closing queues, `stop_flag` | `uv_run`, `uv_close`, `uv_ref`, `uv_unref`, `uv_stop`, `uv__io_feed`, `uv_idle_start`, ... | callbacks that start, stop and close anything while a queue is walked | counts exact, one place per handle, nobody called after `uv_close`, sleeps and returns only when it may, each close completes | `Loop` |
| Loop creation, `_darwin/loop.c`, `uv-common.c` | what a loop acquires, step by step; handle queue | init, configure, close, fork, walk, default loop | failure half-way; fork with handles open; a walk that closes and walks | everything given back once; after a fork what was watched is watched | `LoopLife` |
| Signals, `_darwin/signal.c` | global tree, kernel dispositions, pipe of messages per loop, `caught`/`dispatched` counters | start, one-shot start, stop, close, handler, `uv__signal_event`, fork | messages that outlive their watcher, several loops, SA_RESETHAND, full pipe, fork | counters exact, no message to a closed handle, a regular watcher keeps its handler, closing ends | `Signal` |
| Streams, `_darwin/stream.c`, `tcp.c`, `pipe.c` | write queue, completed queue, `write_queue_size`, `connect_req`, `shutdown_req`, flags | write, shutdown, connect, read start/stop, close, `uv__stream_io` | partial writes, errors, close or shutdown inside callbacks, `uv__io_feed` of a connect error | every request called back once, in order, none lost; shutdown after the last write | `Stream`, `StreamRequests` |
| Servers and passed descriptors, the same files | `accepted_fd`, `queued_fds`, the loop's spare descriptor | listen, `uv__server_io`, `uv_accept`, `uv__stream_recv_cmsg`, close | no descriptors left; nobody accepts; close with some waiting | no descriptor lost, swapped or given twice; a server that can accept is watched | `Accept` |
| Select thread, `_darwin/stream.c` | two semaphores, socket pair, async handle, `events` | the thread's loop, `uv__stream_osx_select_cb`, interrupts, close | the loop joins a thread that waits for the loop | the thread never touches what the loop has taken down; close returns | `SelectThread` |
| UDP, `_darwin/udp.c` | write queue, completed queue, `send_queue_size`, `send_queue_count` | bind, connect, send, try send, receive, close, `uv__udp_io` | partial batches; stop, close and send inside callbacks | each send called back once, in order, truthfully; counters return to 0 | `Udp` |
| kqueue backend, `_darwin/kqueue.c`, `core.c`, `poll.c` | `watchers[fd]`, `nfds`, watcher queue, `events`/`pevents`, batch of fetched events | `uv__io_start/stop/close`, `uv__io_poll`, `uv__platform_invalidate_fd`, poll handles | a callback closes a descriptor that has later events in the batch | no event for a dead watcher; what is asked for is registered | `Kqueue` |
| Child processes, `_darwin/process.c` | process queue, status, pipes | spawn, reaping, exit callback, close; the child's dup2 dance; PATH | children that die before they are listed; descriptors in each other's place | one exit callback per child, none lost; the child gets the stdio asked for | `Process` |
| File polling, `fs-poll.c` | chain of contexts, stat request and timer of each | start, stop, close, `poll_cb`, `timer_cb` | stat answers after stop, restart or close | contexts freed once, closed after the last timer, changes told once | `FsPoll` |
| File events, `_darwin/fsevents.c`, `kqueue.c` | CF thread, its queue and semaphores, shared stream, list of handles, events on their way | init, close, reschedule, callbacks of both threads | two threads, a mutex and two semaphores | no event after close, none lost, the stream covers the paths watched | `FsEvents` |
| File requests, `_darwin/fs.c`, `uv-common.c` | `path`, `bufs`, `ptr`, `nbufs` | every request's submission, work, callback, cancel, `uv_fs_req_cleanup` | synchronous, asynchronous, failed, cancelled and repeated uses of the same fields | all memory freed once, and only the library's | `FsRequest` |
| Writes and copies, `_darwin/fs.c` | offset, buffers, descriptors | `uv__fs_write_all`, `uv__fs_copyfile`, `uv__fs_sendfile_emul` | partial results, a source that changes | what is reported was written, in order; descriptors closed; it ends | `FsIo` |
| Look-ups and random, `getaddrinfo.c`, `getnameinfo.c`, `random.c`, `random-*.c` | block with the request's strings, result, buffer filled so far | submit or run, work, done, free | cancelled, failed, short reads | freed once, told once, the whole buffer filled | `Lookups` |
| Barriers, `thread-common.c` | `in`, `out`, `threshold`, mutex, condition | wait, destroy | reuse, spurious wakeups, destruction while threads leave | nobody passes early, one is last | `Barrier` |
| Terminals, `_darwin/tty.c` | saved settings of one terminal, spinlock, mode of each handle | init, set mode, close, reset from a signal handler | several threads and a handler | settings saved are the original ones, lock released | `Tty` |
| Descriptors, `_darwin/core.c`, `tcp.c`, `pipe.c`, `fs.c` | descriptors, their flags, handle flags | socket, accept, pair, open, mkstemp, dup2, options before there is a socket | a step fails; another thread forks in between | all or nothing, no leak into a child beyond what the system forces | `Descriptors` |
| Queries, `core.c`, `darwin.c`, `proctitle.c`, `bsd-ifaddrs.c`, `thread.c`, ... | a caller's buffer; one block for an array and its strings | getenv, home, cwd, title, names of handles; passwd, group, environment, interfaces; stack size, priority | sizes off by one, an answer that grows in between | never outside the buffer, size told is enough, blocks exactly filled | `Queries` |

### Windows

| Part | State | Operations | Hard | Correct when | Module |
|---|---|---|---|---|---|
| Loop, `_win/core.c`, `handle.c`, `async.c`, `loop-watcher.c` | completion port, pending requests (circular list), end-game list, `activecnt`, `reqs_pending` | `uv_run`, `uv__poll`, `uv__process_reqs`, end games, close, walk, async send | requests that complete after the handle began to close | a handle ends after its last request, and does | `WinLoop` |
| Signals, `_win/signal.c` | tree, `pending_signum`, one request per handle | start, stop, close, control handler's thread, dispatch | thread under a lock, loop without | each handle told once per posted request, closed clean | `WinSignal` |
| Pipes, `_win/pipe.c`, `stream.c` | zero-byte read, thread and its lock, list of blocked writes, shutdown, end-of-file timer | read, write, shutdown, stop, close | a thread inside ReadFile that must be stopped | answered once, in order; stopping never hangs or misses | `WinPipe` |
| IPC framing, `_win/pipe.c`, `tcp.c` | frame being read, queue of sockets | write with a handle, read, accept, close | frames cut in pieces, small buffers | data and sockets in order, none lost | `WinIpc` |
| Servers, `_win/pipe.c`, `tcp.c` | accept requests, `pending_accepts`, change to single accepts | bind, listen, accept, close | failing accepts, changing the number | no instance or socket lost, always one listening | `WinAccept` |
| TCP, `_win/tcp.c`, `stream.c` | flags, `reqs_pending`, `write_reqs_pending`, delayed error | connect, read, write, shutdown, close | close with requests in the kernel | answered once, socket kept until the last | `WinTcp` |
| Poll handles, `_win/poll.c` | two requests with events and masks | set, process, close | an old poll answers after the events changed | no event told that a younger poll waits for | `WinPoll` |
| UDP, `_win/udp.c` | receive request, `send_queue_*` | receive, send, stop, close | callbacks between datagrams | one receive at a time, sends answered once | `WinUdp` |
| Child processes, `_win/process.c`, `process-stdio.c` | wait handle, exit request, flags | spawn, wait thread, exit, kill, close; command line, environment, search | close against the waiting thread | one truthful exit callback; arguments arrive as given | `WinProcess` |
| File events, `_win/fs-event.c` | one request, buffer, short and long name | start, stop, close, process | stop and close with the request in the kernel, overflow of the buffer, a stop in the callback between two changes (restarts before the request is back: cut, section 6, 17) | changes of what is watched are told | `WinFsEvents` |
| Console, `_win/tty.c` | read thread's status, output lock, trap, read modes | read raw and lines, stop, mode, close; UTF-8, line ends, escapes | stopping a thread inside ReadConsole | lock comes free, lines reach the reader, text is scanned right | `WinTty` |
| File system, utilities, look-ups, threads | almost none | system calls on the pool's threads | conversions | - | not modelled |

Not modelled on either side: pure functions (`inet.c`, `idna.c`, `strscpy.c`,
`strtok.c`), the tree of the headers, dynamic loading, the process title
through CoreFoundation, accessors, declarations (section 7).

### How they interact

- The program calls everything from the loop's thread, outside `uv_run` or in a
  callback; only `uv_async_send` (and inside the library the pool's threads, the
  signal handler, the select and CoreFoundation threads, and the threads of the
  Windows pipes, console, signals and process waits) come from elsewhere.
- The pool hands a finished request to the loop through `loop->wq` and
  `loop->wq_async`, an async handle.  `ThreadPool` has that handle as one bit
  that a send sets and `AsyncFire` clears; `Async` shows that an async handle is
  exactly that (`ImplementsAsyncEvents`): several sends may share a callback, no
  send goes without a callback that begins after it.  `SelectThread` and `FsEvents`
  use an async handle in the same way, as one bit.
- A request of `FsRequest`, `Lookups` and `FsPoll` is queued, runs, or is cancelled as
  `WorkRequest` promises; what it owns at each of these points is their own matter.
- A signal reaches its loop through a pipe that the loop polls like any
  descriptor; a closing signal handle makes `uv__finish_close` put it back to the
  closing list.  `Loop` has the list, `Signal` has the condition.
- `Loop` knows timers as "some active timers are due" and `Timer` says which.
  Both take what happens between two callbacks as one atomic step of the
  program's choice.
- `Stream`, `Accept` and `Udp` know of the poll that it may report what they watch;
  `Kqueue` shows that the poll reports only to live watchers of the right file.
- On Windows every operation is a request that the kernel or a thread posts to the
  completion port.  `WinLoop` has the way from there to its handle and the end game;
  the other modules take it as "posted, then processed", and count with
  `reqs_pending` and `activecnt` what keeps their end game away.

## 2. Plan

Most important first; a module is checked before it is proved about.

| # | Module | Content | State |
|---|---|---|---|
| 1 | `Queues`, `QueueProofs` | queues as sequences, lemmas | done, proved |
| 2 | `ThreadPool`, `WorkRequest` | pool; abstract life of a request | done; safety and step simulation proved |
| 3 | `Async`, `AsyncEvents` | wakeups; abstract events | done; safety and step simulation proved |
| 4 | `Timer`, `Loop`, `Signal` | timers, `uv_run` and handle life, signal watchers | done; safety proved |
| 5 | `Stream`, `StreamRequests` | connect, write queue, shutdown, read, close; abstract life of a stream's requests | done; counts and step simulation proved |
| 6 | `Accept`, `SelectThread`, `Kqueue`, `Udp`, `Process`, `FsPoll`, `Barrier`, `FsEvents`, `Tty`, `LoopLife`, `FsRequest`, `FsIo`, `Lookups`, `Descriptors`, `Queries` | the rest of the Darwin side | done; safety proved |
| 7 | `MCDarwin` | 5 and 6 in one run that picks a part in its initial state | done; its invariants proved |
| 8 | `WinLoop`, `WinSignal`, `WinPipe`, `WinIpc`, `WinAccept`, `WinTcp`, `WinPoll`, `WinUdp`, `WinProcess`, `WinFsEvents`, `WinTty` | the Windows side | done, checked |
| 9 | `MCWindows` | `Timer`, `Heap` and 8 in one run | done |
| 10 | proofs | section 5 | 1 to 7 done; left below |
| 11 | `Heap` | heap-inl.h on nodes with parent and children; closes the assumption of `Timer` | done, checked |
| 12 | `Inet`, `Idna`, `Strings`, Windows paths and times | pure algorithms against reference definitions | later |

Abstract specifications: `WorkRequest` (a request of the pool), `AsyncEvents` (an
async handle), `StreamRequests` (the requests of a stream).

Theorems left: the parts of the Windows side, in the order of how hard they are to test (the
counts of `WinLoop` and `WinTcp`, since `activecnt` and `reqs_pending` decide when memory may
go away; the reading threads of `WinPipe` and `WinTty`), and what the pure functions of both
sides compute for every input.

## 3. The modules and the code

Conventions.  Variables carry the names of the C fields where there is one.  An
action is one function, or the part of a function between two points where
another thread may be seen to act (a lock, an atomic access, a callback).  A
callback is a state in which the program's actions are enabled, so it does
whatever the program may do, on any handle, any number of times.  `Mutant`
operators in the modules are plausible slips of the definition that follows; no
specification uses them, they only show which property notices the slip.

### Queues (`src/source/main/include/clibuv/private/queue.h`)

A circular list with a head node is a sequence; `Unlink` removes an element;
`Distinct(q)` says that none is in it twice, `Begins(q, p)` that it starts with `p`; `Total(q, f)` is what its
elements have of `f` together, for the sizes that C keeps in a counter.  `QueueProofs` has
the lemmas that the other proofs cite.  The parts of a composition EXTEND this module and
little else: what they bring is in sight of every step of the proofs about the composition.

### ThreadPool (`threadpool.c`)

- `Workers`, `Loops` and `Reqs` are threads, loops and requests; `mutex` and
  `wqMutex[l]` say who holds a lock, and waiting on the condition variable is the
  program counter `"waiting"`, left by a signal (`"woken"`) or spuriously.
- `wq`, `slowPending`, `idle`, `slowRunning` are the static variables of the file.
  `work[r]` is `w->work` (the function, `NULL`, `uv__cancelled`) and `node[r]` the
  link `w->wq`, because `uv__work_cancel` decides by these two fields only.
- `Lock`, `Sleep`, `Wake`, `TakeFast`, `TakeSlow`, `Requeue`, `DropMarker`, `Exit`,
  `Execute`, `Finish`, `Announce` are the parts of `worker()`; `Submit` is
  `uv__work_submit` with `init_once` and `post`; `CancelLock`, `CancelCheck`,
  `CancelPublish` are `uv__work_cancel`; `AsyncFire`, `Drain`, `Complete`, `Return` are
  `uv__work_done`; `Cleanup`, `PostExit`, `Join`, `Abort` are `uv__threadpool_cleanup`;
  `ForkChild` is `fork()` plus `reset_once`.  In the child the threads are `"gone"`: `nthreads`
  counts them until the pool is used again, and `uv_thread_join` of one fails.
- `life`, `submits`, `runs`, `dones`, `verdict`, `cancelled` are history: no guard
  of the code's own steps reads them.

### WorkRequest

What the pool promises for one request: queued, then running and finished, or
cancelled; delivered with `"ok"` or `"canceled"` accordingly.  `ThreadPool`
implements it under a mapping that reads the request's place.

### Async and AsyncEvents (`_darwin/async.c`)

- Each access to `pending[h]`, `busy[h]` and the wakeup descriptor is a step:
  a sender goes through *enter* (busy++), *exchange* (pending := 1), *wake*, *leave*
  (busy--), after its cheap read of `pending`.
- `evfiltUser` chooses between the kqueue user event and the pipe.
- `PollWake`, `Drain`, `Scan`, `CallbackReturns`, `ScanEnd` are `uv__async_io`;
  `Close`, `CloseSpun` are `uv__async_close` with `uv__async_spin`; `Stop`,
  `StopSpin`, `StopSpun`, `Stopped` are `uv__async_stop`; `Fork` is
  `uv__async_fork` in the child.
- `AsyncEvents` counts unanswered calls; the mapping counts the `pending` word and
  the senders that have announced themselves and not exchanged yet.

### Timer (`timer.c`)

`heap` is the set of started timers, `order` their order by `start_id`, `ready` the
queue on the stack of `uv__run_timers`.  Numbers have the width of the code with
`MaxTime` for the largest `uint64_t` and `IntMax` for `INT_MAX`; additions wrap and
`ClampedTimeout` detects it as the code does.  `Collect`, `Collected`, `Fire`,
`CallbackReturns`, `Ran` are the two loops of `uv__run_timers`; `PollTimesOut` and
`PollEvent` end a poll and update the time.  That the root of the heap is its least
element is what `Heap` shows (below).

### Heap (`heap-inl.h`)

`left`, `right` and `parent` are the pointers of the nodes 1..MaxNodes, which `less_than`
orders by their numbers (timers are never equal: `start_id` differs).  `Bits` are the turns
that the loops over `path` take, `Put` writes the pointer they end at, `Swap` is
`heap_node_swap`, `WalkUp` and `WalkDown` the loops around it, `HeapInsert` and
`HeapRemove` the operations.  `CountsAreExact` says that the nodes inserted stand in the
places 1..nelts of a complete tree and every parent is known; `InOrder` that the first is
the least.  It runs as a part of `MCWindows`.

### Loop (`_darwin/core.c`, `loop-watcher.c`, `uv-common.h`)

`phase` is the place in `uv_run`; `local` is the queue or list on the stack of the
function that calls callbacks, so a handle that is stopped or closed in a callback
has to be taken out of it or skipped later.  `queue` holds the three watcher queues
and the pending queue; `closingHandles` is the list that `uv__run_closing_handles`
takes.  `activeHandles` is changed exactly where `uv__handle_start`, `_stop`, `ref`,
`unref` change it.  `owed` is history.  Types: idle, prepare, check, io (a handle
with a watcher that the poll reports or that code feeds), timer.

### Signal (`_darwin/signal.c`)

`tree` is the red-black tree (a set; the order of messages of one signal is
regular watchers before one-shot ones), `disposition[s]` what the kernel does with a
signal, `arrived[s]` the handlers that wait for the signal lock, `pipe[l]` and
`buf[l]` the messages.  A critical section under the signal lock is one step;
`uv__signal_start` is two, because it stops the handle first.

### Stream and StreamRequests (`_darwin/stream.c`, connects of `tcp.c`, `pipe.c`)

- `at` is the place in `uv__stream_io`, `uv__stream_connect` or `uv__stream_destroy`,
  `writing` says that `uv__write` is running (called from there or from `uv_write`),
  `cb` that a callback is; `local` is the queue on the stack of
  `uv__write_callbacks`.  One write of `uv__write` is a step, so the peer may reset the
  connection in between.
- `link` is the kernel's view of the connection: `SO_ERROR` is 0 while it is under way,
  so an event that comes for another reason ends a connect with success.
- `polled` and `fed` are the watcher's events and its place in the pending queue;
  `RunPending`, `PollOut`, `PollIn` are the three ways into `uv__stream_io`.  kqueue
  reports reading and writing separately and never `POLLHUP`, so the end of file that
  `uv__stream_io` synthesises from it does not occur.
- `StreamRequests` has the connection, the writes and the shutdown as a program sees
  them.  A write is *sent* when its last byte is taken; an answer says `"ok"` exactly
  for those.

### The other modules of the Darwin side

Each keeps its state in one record, with the fields named after the C fields where
there is one; "history" fields are read by properties only.  Each has `Program`, the
condition under which the program may call functions: in the loop, or in a callback.

- **Accept** (stream.c, tcp.c, pipe.c): one server or IPC stream.  `Accepted` and
  `NoDescriptors` are `uv__server_io` with and without descriptors left (the spare one
  is closed, the connection shed, the spare one opened again or not), `Receive(k)` is
  `uv__stream_recv_cmsg`, `AcceptInto` is `uv_accept` into a client that can or cannot
  take the descriptor.
- **SelectThread** (stream.c): the thread goes `Top`, `Select`, `Drain`, `Report`,
  `Wait`; the loop goes `AsyncFirst` or `FirstSem`, `HandleIn`, `HandleOut`, `Post`, and in
  a close `CloseSem`, `CloseInterrupt`, `Join`.  Semaphores are counters, the socket pair
  a number of bytes.
- **Udp** (udp.c, checks of uv-common.c): `Sendmsg(u)` gives what `uv__udp_sendmsg` may
  leave for what the kernel takes; `RecvOne`, `RecvMany` are the two ways of receiving;
  `Out`, `Complete`, `SendReturns`, `Completed` are the writing half of `uv__udp_io`.
  The two counters are compared with `Total` of what waits.  A batch holds at most 20
  datagrams (section 6).
- **Kqueue** (core.c, kqueue.c, poll.c): `IoStart`, `IoStop`, `Closed`, `Invalidate` are
  the functions on watchers; `Register`, `Entries`, `Kevent`, `Dispatch`,
  `CallbackReturns`, `Walked` are `uv__io_poll`; `NextPowerOfTwo` is the rounding of
  `maybe_resize`, with its 32 bits, and `Dequeued` the end of the registration loop.  The
  kernel's filters are a set and go with their descriptor; a number is given again as soon
  as it is free.
- **Process** (process.c): `Spawn`, `Exits`, `WaitChildren` (`WaitChild` for each handle in
  turn, `AllWaited`), `ExitCb`, `Close` for the handles; `SpawnFds`, `ChildInit`, `FileActions`, `Resolve` are functions: what is
  left open in the parent (`ForEachFd` goes through the descriptors in order), what the child finds under 0, 1, 2 ..., which file is run.
  `ChildGetsItsStdio` runs them over every assignment of the descriptors in `UseFds`.
- **FsPoll** (fs-poll.c): `list` is the chain of contexts; `TimerCb`, `PollCb`,
  `TimerCloseCb` are the callbacks.  `PollCb` stops where the program's callback runs, if there is
  something to tell, and `PollReturns` is the rest; `Resumed` is its end, common to both.
- **FsEvents** (fsevents.c, kqueue.c): `StartDir`, `StopDir` with `SemWaited`; `Reschedule`,
  `CreateStream`, `EventCb`, `BatchDone` on the CoreFoundation thread; `Deliver` and
  `DeliverError` in the loop.  What CoreFoundation reports is external.  `Heard`, `Kind`,
  `Relative` decide which watcher hears of which path.
- **Barrier** (thread-common.c): a stretch under the mutex is a step; waiting threads
  are a set, wakeups may be spurious.
- **FsRequest** (fs.c, uv-common.c): what `path`, `bufs` and `ptr` point to and what is
  allocated, for each kind of request, synchronous or not, cancelled or not, with
  `uv_fs_scandir_next`, `uv_dirent` cleanup and `uv_fs_req_cleanup` any number of times.
- **FsIo** (fs.c): `WriteSome` is a turn of `uv__fs_write_all`; `OpenSource`,
  `OpenDestination`, `SameFile`, `Truncate`, `Attributes`, `Sendfile`, `Read`, `Write`,
  `SendfileReturns`, `Unlinks`, `Close` are `uv__fs_copyfile` and the emulated sendfile it
  calls.  `Shrinks` is another process.
- **Tty** (tty.c): `SetMode`, `Lock`, `Record`, `Set` are the steps of `uv_tty_set_mode`
  of several threads, `ResetMode` may come at any of them.
- **Lookups** (getaddrinfo.c, getnameinfo.c, random.c): `Allocated(parts)` is the block
  of a request; `GetEntropy` and `ReadDevice` fill a buffer piece by piece.
- **LoopLife** (loop.c, uv-common.c, ...): `InitOrder` lists what `uv_loop_init` acquires,
  `Undone(i)` what its error path gives back when step i fails; `Fork`, `Walk`, `WalkOn`,
  `LoopClose`.
- **Descriptors** (core.c, pipe.c, tcp.c, fs.c, process.c): helpers are sequences of
  steps that may fail or be cut by another thread's fork; `Option`, `GetsSocket`: a TCP
  handle's options before and after it has a socket.
- **Queries** (core.c, ...): one function per query from the answer and `*size` to what is
  written and returned; `Packs` compares the size of one block with what is put into it.

### The modules of the Windows side

- **WinLoop** (core.c, handle.c, handle-inl.h, req-inl.h, async.c, loop-watcher.c): `Poll`
  takes completions, `Process` and `BatchEnds` are `uv__process_reqs` on the circular list
  cut loose at its start, `Endgame` is `uv__process_endgames`.  Async handles and the
  operations 1..MaxOps of one handle with requests stand for all kinds.
- **WinSignal** (signal.c): `Arrive`, `DispatchFlags`, `Dispatch` on the system's thread
  under the lock; `Start` and `HandleStart` are apart because the lock is released in
  between.
- **WinPipe** (pipe.c, stream.c): `sync` pipes read and write through threads, the others
  through the kernel.  `ThreadStarts`, `ThreadReads`, `ThreadLeaves` are
  `uv_pipe_zero_readfile_thread_proc`, `Interrupt` and `Spin` are
  `uv__pipe_interrupt_read`.
- **WinIpc** (pipe.c, tcp.c): the wire carries headers, sockets and bytes; `ReadIpc` is a
  turn of `uv__pipe_read_ipc`.
- **WinAccept** (pipe.c, tcp.c): requests move between the kernel, the port,
  `pending_accepts` and the program; `SingleAccept` is `uv_tcp_simultaneous_accepts`.
- **WinTcp** (tcp.c, stream.c): `ProcessRead` with its loop of reads, `ProcessWrite`,
  `ProcessShutdown`, `ProcessConnect`, `Endgame`.
- **WinPoll** (poll.c): `Submit` chooses the request and masks the other.  A fast one `Returns`
  from the kernel; a slow one's thread reads what the handle wants in two steps, `ThreadStarts`
  and `ThreadSelects`, which the loop may come between, and `SelectReturns` writes its error where
  the code does.  `Process` is the fast and the slow poll's end, with the callback that a socket
  closed by the program still gets.
- **WinUdp** (udp.c): `QueueRecv`, `ProcessRecv` with `ReceiveOne`, `Send`, `ProcessSend`.
- **WinProcess** (process.c, process-stdio.c): `Spawn`, `WaitRuns`, `WaitPosts`,
  `ProcExit`, `Close`, `Kill`; `QuoteCmdArg`, `MakeProgramEnv`, `SearchPath`,
  `StdioCreate` are functions.  `TakenApart` is the C run time's reading of a command
  line (external), the reference for quoting.
- **WinFsEvents** (fs-event.c): the kernel keeps changes between two requests and
  gives up when there are more than `Capacity`; `LookOn` walks the buffer.
- **WinTty** (tty.c): `at` is where a read's thread is, `status` the word on which it and
  the loop agree, `lock` the output lock; `Decode`, `Lines`, `Ansi`, `RealCoord` and
  `Cleared` are the scanners and the geometry, `Ansi` with states but without colours.

### MCDarwin and MCWindows

Each declares the variables of its parts and a variable `part`, chosen in the initial
state; only that part takes steps.  A property of the composition says of each part what
that part's module says: `Accounted` is all their `CountsAreExact`, `ClosedIsClean`,
`NoDescriptorLost`; `AssertionsHold` all their `AssertsHold` and `TypeOK`; `NothingStranded`,
`ToldTruly` and `EveryoneEnds` likewise.  The part `"functions"` takes no steps:
properties of functions are evaluated there, over every input within the bounds.  `MCDarwin`
EXTENDS `IoParts`, which declares the parts around descriptors and has their proofs;
`DarwinProofs` has those of the other parts and of the composition.

## 4. The runs

| Run | Instance | Question |
|---|---|---|
| `thread_pool` | 2 threads, 1 loop, 1 fast and 2 slow requests, each submitted once and cancelled any number of times before delivery; with the slow ones also one fork, and shutdown before the fork or in a child that has not used the pool | one place per request, truthful single callbacks, the slow limit, slow I/O announced, no lost wakeup, every request completes, shutdown completes, refinement of `WorkRequest` |
| `thread_pool_fork` | 2 threads, 2 slow requests, one fork, no shutdown | violated: section 6, 1 (requests that are submitted in the child) |
| `thread_pool_recancel` | 1 fast request, `uv_cancel` also after delivery | violated: section 6 |
| `async` | own handle and a user's, 2 senders, both kinds of descriptor, 1 fork, loop shutdown | nobody wakes for a closed handle, spinning ends, refinement of `AsyncEvents` |
| `loop` | 2 handles whose types meet (below), 1 request, 1 round of pending callbacks after the poll | counts, places, turns, sleep, return, closing |
| `signal` | 2 watchers on one loop or two, 2 signals, pipe of 2, 1 fork | counters, dangling messages, dispositions, closing |
| `signal_one_shot` | the same, 1 signal, pipe of 4, no fork | violated: section 6 |
| `darwin` | one of 16 parts of the Darwin side, or functions (bounds below) | counts and leaks (those of streams as `CountsAreExact`, the others in `Accounted`), the assertions of the code that hold (below), nothing stranded, truthful callbacks, ends, refinement of `StreamRequests` |
| `stream_shutdown` | the streams of `darwin`, shutdown at any time | violated: section 6 |
| `stream_blocking` | the streams of `darwin` | violated: section 6 |
| `fs_poll_restart` | file polling of `darwin`, by itself | violated: section 6, 6 |
| `windows` | timers, their heap or one of 11 parts of the Windows side, or functions | the same for Windows; of timers `FiresWhatIsDue` and `TimersAreKept` |

The pool, async handles, the loop and signals run under their own modules; `OneOwner` gives
every request of the pool to one loop.  What the properties of `darwin` and `windows` say of
each part (in brackets, properties of their own, which are theorems too):

| Part | `Accounted` | `NothingStranded` | `ToldTruly` | `EveryoneEnds` |
|---|---|---|---|---|
| stream | (`CountsAreExact`: queued bytes and requests) | - | (refinement of `StreamRequests`) | (there) |
| udp | queued bytes, count, active handle | what waits is watched or fed | in order, with its outcome | - |
| accept | every descriptor in one place | a server that can accept is watched | in order | - |
| select | - | events reported or asked again | events reach the loop | close returns |
| tty | - | - | recorded settings are the first | - |
| descriptors | no descriptor leaked | - | flags as asked | - |
| kqueue | descriptors watched | asked for is registered; exits seen | no event of a dead watcher | - |
| process | active handles; spawn leaks nothing | an exit is seen or waited for | once; stdio, PATH | - |
| fsevents | watchers, active handles | a message or reschedule is on its way | in order | - |
| fspoll | contexts, active handle | an active handle asks again | changes once | - |
| barrier | `in` and `out` | a full round wakes all | - | all pass, destroy returns |
| fsrequest, lookups | nothing allocated is left | - | result of look-ups | - |
| fsio | descriptors closed | - | bytes in order | ends unless the source shrinks |
| looplife, queries | resources, sizes | watched again after a fork; a size told is enough | answers | - |
| timer | - | (`TimersAreKept`: a pass owes nothing, the sleep ends in time) | (`TimersAreKept`: in order; `FiresWhatIsDue`) | passes end, armed timers fire |
| heap | places 1..nelts, parents | - | the first is the least | - |
| iocp | requests, active handles | a request has its packet | in order | close returns |
| signal, udp, fsevents, ipc (Windows) | requests, active handles | the read or request is queued; a signal handle that closes has its request | once, in order | - |
| poll (Windows) | requests | what is wanted is covered by a request | no event that a younger request is out for | - |
| pipe, tcp, process (Windows) | requests, bytes, active handles | writes and reads go on | once, in order | close returns |
| accept (Windows) | every instance or socket in one place | an accept is queued | - | - |
| tty (Windows) | requests, active handles | the reader's thread gets out | lines as typed | the lock comes free |

`AssertionsHold` is about the assertions that the modules have, and says less than that the code
never fails one.  Not in it are, on Darwin, stream.c:1392 and fs-poll.c:180, which runs show to
fail, and stream.c:514 for a program that listens twice (section 7); on Windows
_win/signal.c:277, _win/fs-event.c:39 (and the request handed over twice at 156-170),
_win/poll.c:349, _win/tcp.c:470 as called at 753, and `recv_req` queued twice at _win/udp.c:304-309
(section 6, 16, 17, 20, 21, 22).  What the guards in question cut is not covered by `Accounted` either.

### Slips

Every property of a passing run has a slip of the code (`PROJECT.json`, "mutants") that
violates it under the run's own configuration, so it says something about the code.
The modules hold more of them, each before the definition it is a slip of; with each of
them in place the property of its part that is about it was found violated.

### Bounds and why they are enough

- *Threads and requests.*  Two threads make the slow threshold 1, so the limit is
  both reached and exceeded by the two slow requests; the fast one competes with
  the marker.  `MaxSubmits = 1`: a request that comes back is a fresh one for the
  code, apart from the stale fields, which `thread_pool_recancel` looks at.  Programs that
  fork or shut down submit the slow requests only (`ProcessReqs`), which is enough for the queue,
  the slow queue and the marker to be filled when they do.  `ShutdownScope` has the parent and a
  child that has not used the pool; a child that has is like a parent but for the two counters
  that it inherits, and with it (`"child"`) the properties hold too, in more than the time a run
  should take.  The theorems of section 5 hold for every number of threads, requests and submissions
  and every value of these two.
- *Async.*  Two senders are enough for one to be between its cheap read and its
  announcement while another has already woken the loop; `BufSize = 1` with
  `PipeSize = 2` makes draining take several reads and lets the pipe be full.
- *Timers.*  Times 0..3 with `IntMax = 2` contain a timeout further than an int, a sum
  that wraps and a clock at its end; with two timers there is a tie and a timer that is
  stopped while it waits in the ready queue.
- *Loop.*  `Kinds` gives the types that occur together: prepare and idle watchers, check
  watchers and descriptors, timers and descriptors; two handles of one of these sets have
  11 assignments, two of one queue, a watcher that runs before or after the other, a fed
  watcher with one that checks, timers with descriptors.  `PendingRounds` is 1 in place of 8: it is reached and exceeded.
- *Signals.*  Two messages fill the pipe, two arrivals leave one message in it when
  another is written, and two watchers can be regular or one-shot, on one loop or on
  two (`Homes`).  Both signals can be watched but one arrives (`Raised`), since two signals
  share nothing but the pipe.  `MaxSignals` bounds how often it arrives and `MaxForks` the
  forks; all three bound the program's environment, never a step of the library.
- *Streams.*  Two writes put one behind the other, in the queue, behind a failed one or
  in `local`; a size of 2 has a partial write and a size of 0 a request that adds nothing
  to `write_queue_size`.  `WriteCount = 1` and two reads stand for 32 and are both
  reached.  A stream connects once.  `darwin` has no shutdown before the program knows of
  the connection (`EarlyShutdown = FALSE`): `stream_shutdown` is about it.
- *Other Darwin parts.*  Two datagrams are taken together, in part, or not; four
  descriptors reach the end of an array that grows by 1; one number of a file, two
  watchers and a batch of two let the number come again within a batch; two children
  exit in both orders; two contexts are the old and the new one of a restart; three
  threads twice at a barrier have one round's leavers meet the next round's first;
  stdio of four with seven descriptors of the parent has cycles, equal ones and ones above
  the range; three bytes in buffers of 2 are written and copied in parts; answers of
  three characters meet sizes from 1 to 5.
- *Windows parts.*  Each has one handle (two idle watchers in `iocp`), since handles share
  nothing but the loop's lists, which `iocp` has; two or three operations, arrivals and
  changes put one in the kernel, one on its way and one behind; constants of the code
  (`Reads` 32, `Batch` 128, `Rounds` 8, `Instances` 4 or 32) are 1 or 2 and are reached.
  `MaxArg = 4` has backslashes before a quote in the middle and at the end.  `FastAsks` and
  `SlowAsks` are the sets of events a poll handle is started with: two that are disjoint, and one
  that has another as a part, with a disconnection for the fast poll, which alone reports it.
- *Heap.*  Seven nodes make three full rows, every arrangement of them is reached, and a
  node removed in one branch can be replaced by a smaller one of the other.

### Fairness

- A pool thread takes steps and obtains a lock that is free again and again (strong
  fairness per thread: `uv_mutex_lock` is not promised to be first-come-first-served,
  but no thread is passed over for ever); the loop thread continues a cancellation it
  has begun and delivers; a shutdown that has begun goes on (`PostExit \/ Join`, strongly fair
  since `PostExit` takes the mutex; when the mutex is never free again or a join fails, it does
  not).  No submission, cancellation, fork or shutdown has to happen.
- A sender inside `uv_async_send` goes on, and the loop polls after each turn.
- Callbacks return.  `uv_run` continues while it does not block; no event has to
  arrive, and the program is not obliged to call `uv_run`
  (`EveryCloseCompletes` of `Loop` says so explicitly).
- Timers: a loop that polls for ever sees its clock advance (strong fairness of a
  poll that ends with a later time).
- Signals: each loop polls its pipe and runs its closing handles again and again.
- Streams: the loop polls, runs its pending and its closing handles again and again;
  the kernel ends a connect, and a descriptor it reports writable takes data in the end
  or fails.  Nobody has to write, read, shut down or close.
- Other parts of `darwin`: a select thread and the loop it reports to take their steps,
  each thread of a barrier does, and so does the worker that writes or copies.
- Parts of `windows`: the loop's thread, the threads it started and the system's wait
  callbacks go on; what the kernel has to do it does in the end: a write or flush ends, a
  read that has data or was cancelled completes, a connect is answered.  `CloseReturns`
  of pipes excepts a blocking write or read of the program's own that the peer never lets
  return.  `ReadConsole` returns once a return was typed.  No data has to arrive, no child
  to exit, no key to be typed.

Deadlock is checked in the run `signal`.  The others switch it off, each
because the system may stop there: all submissions used up, the
process shut down, a loop whose descriptors are closed, a clock at its last value
with nothing started, requests and events used up, a handle that is closed, a function
that is a single state, and a loop that sleeps for ever on an active check or prepare
handle, which the code really does.

## 5. Theorems

Each holds for every value of the constants under the named `ASSUME`s of the modules
(finite sets, disjoint names, bounds in the naturals), which TLC evaluates in the runs, and
under the hypotheses that the theorem states.  Every proof has the same shape: an inductive
invariant, a lemma for each step, and the properties from the invariant.  TLC checked each
invariant on the instance of a run before it was proved.

The hypotheses that a theorem states are, for the pool, `CancelScope = {"submitted"}` (the
program cancels only what has not been delivered; run `thread_pool_recancel` shows that the
code needs it), and for the parts of `MCDarwin` the following, all of them together
`DarwinConstants`.  None names a size: they say that bounds are numbers, that names differ
from the code's marks, and that what is counted is finite.

| Hypothesis | Says |
|---|---|
| `UdpConstants` | datagrams are numbered from 1; `recvmmsg` takes at least one |
| `AccConstants` | the array of waiting descriptors grows by at least one |
| `SelConstants` | the thread's buffer holds at least a byte |
| `KqConstants` | finitely many descriptors, none beyond 1073741821 (above that `maybe_resize` rounds to 0); no watcher is `NULL` |
| `FspConstants` | contexts are numbered from 1; -1 is no version of a file |
| `IoConstants` | a file has a byte, `IOV_MAX` is not 0 |
| `BarConstants` | a finite number of threads, at least one: `uv_barrier_init` refuses 0 |
| `FseConstants` | directories and files differ, and none is called "none" |
| `LlConstants` | the program's handles are not the loop's own two |
| `ProcConstants` | finitely many children |
| `TtyConstants` | the mark of "no terminal" is none |
| `FsrConstants` | `access` is one of the types of request |
| `SpawnConstants`, `QryConstants`, `LookConstants` | lengths are natural numbers |

**QueueProofs.**  Lemmas about `Unlink`, `Append`, `Tail` and `\o` on sequences without
repetition: who is in the queue, that it stays without repetition, that the order of the
others is kept (`AppendOrder`, `TailOrder`, ...), and what becomes of `Total`
(`AppendTotal`, `TailTotal`, `ChangeTotal`).  The library's induction theorems take an
operator, which the provers cannot instantiate; `Total` is a recursive function, so two of
them are compared at the least index where they differ (`LeastNumber`), which needs no
induction.  `ThreeQueues` reads the write queue, the completed queue and the queue on the stack
as one.

**ThreadPoolProofs.**  `IInv == TypeOK /\ Counters /\ Queued /\ Members /\ Accounts /\
Callers`.  None of the properties is inductive alone.  `CancelHonest` speaks of a
delivered request; to know that a request in `loop->wq` with `w->work ==
uv__cancelled` never ran one has to know where every other request is and how its
link looks there (`Queued`, `Members`), since `uv__work_cancel` trusts link and
`work` only.  `SlowLimit` needs that `slow_io_work_running` counts the threads with
`is_slow_work` (`Counters`), in a form that a fork may make too large but never
too small.  `Accounts` ties `active_reqs` to the set of submitted requests, `Callers`
says what a loop thread in the middle of `uv_cancel` knows.

| Theorem | States |
|---|---|
| `Invariance` | `Spec => []IInv` |
| `TypeCorrect` | `TypeOK`; the unsigned counters never go below zero |
| `CancelIsHonest` | `CancelHonest` |
| `SlowIsLimited` | `SlowLimit` |
| `SlowIsAnnounced` | `SlowAnnounced` |
| `RegisteredWhenDone` | `DoneWhileRegistered` under the assumption above |
| `EverythingInItsPlace` | `Placement`: a submitted request is in exactly one place |
| `NoWakeupIsLost` | `WorkConserving` |
| `PoolImplementsWorkRequest` | `ImplementsWorkRequest`: every step of the pool is, for each request, one of `WorkRequest` or none |

`IInv` says that a request is at most in one place; that it is in one at all (`Kept`) is
a second invariant above it.  `WorkConserving` counts the threads that are awake against
what can be executed, and discounts the marker while slow I/O is at its threshold.  That is
not inductive: a thread that comes back from slow I/O lowers the count and makes the marker
executable again, without a signal to anybody.  `Manned` discounts the marker only when no
such thread is on its way (`Returning`); that thread itself will look at the queue.  The
simulation needs `Held`: from the end of the work function's bookkeeping to
`uv_async_send` a thread holds `wq_mutex`, so a request cannot be delivered and
submitted again while the thread still points to it.

**AsyncProofs.**  `IInv == TypeOK /\ Counted /\ Aimed /\ Marked /\ Placed /\ Waited /\
QuietAfterSpin`.  The argument: `busy[h]` is the number of senders between *enter*
and *leave* (`Counted`); a sender that will wake the loop exchanged 0 for 1, and
`uv__async_spin` sets `pending` to 1 before it waits (`Marked`), so every sender that
arrives later finds 1 and does not wake; the loop thread closes only what it has
waited for (`Waited`), and each handle is in one queue at a time (`Placed`).

| Theorem | States |
|---|---|
| `Invariance` | `Spec => []IInv` |
| `TypeCorrect` | `TypeOK` |
| `SpinIsEnough` | `QuietAfterSpin` |
| `OnlyCallsAreAnswered` | the safety of `ImplementsAsyncEvents`: no callback without a call before it, none after close |

In the simulation an unanswered call is `pending` or a sender on its way to it (`Coming`); an
exchange that finds 1 merges two calls, an exchange in the scan that finds 1 answers one.
That every call is answered is the fairness half of the refinement, which is TLC's.

**LoopProofs.**  `IInv == TypeOK /\ CountIsRight /\ Living /\ Stacked /\ Watching /\ Closing
/\ Pending /\ Owing /\ Remembers /\ SleepsForAReason`.  libuv moves a queue to the stack
and calls callbacks from there, so the invariant takes the two as one queue cut in two
(`Linked`): `Watching`, `Closing` and `Pending` say who is in which, once.  `Owing` says of
every place in `uv_run` which watchers are still to be called in this turn, `Remembers`
what its local `r` knows.

| Theorem | States |
|---|---|
| `TypeCorrect` | `TypeOK`; `active_handles` never goes below zero |
| `CountTheActive` | `CountIsRight`: `active_handles` counts the active and referenced handles |
| `WellPlaced` | `Placement` |
| `NobodyIsSkipped` | `TurnCallsEverybody` |
| `SleepIsJustified` | `SleepsForAReason` |
| `OnlyTheLivingAreCalled` | the action property `CallsTheLiving` |
| `DoneMeansDone` | the action property `ReturnsWhenDone` |

**SignalProofs.**  `IInv == TypeOK /\ RegularIsHandled /\ AtHome /\ Phased /\ Restarting /\
Counts`.  The counters of a watcher differ by the messages on their way to it, a cardinality
over two sequences; the lemmas on `Number` say what writing, reading part of the pipe and
taking one message do to it.  It is inductive only with `AtHome` (a message stays with the
loop of its watcher), `Phased` (the buffer of `uv__signal_event` is empty when it has
returned) and `Restarting` (between the two critical sections of `uv__signal_start` nobody
else starts or closes the watcher).

| Theorem | States |
|---|---|
| `TypeCorrect` | `TypeOK`; the tree has exactly the open handles that watch a signal |
| `RegularStaysHandled` | `RegularIsHandled` |
| `CountersTell` | `CountsAreExact` |
| `ClosedAreForgotten` | `NoDanglingMessages` |

**Timer** (at the end of the module).  `IInv == Typed /\ Linked /\ Dated /\ Owed /\ Sorted`.  `Linked`: a timer is
in the heap or in the ready queue, once.  `Owed`: what the pass still owes is the ready
queue, and while it collects also what is due in the heap.  `Sorted`: the ready queue is in
order, and while it is filled the heap comes after it; a callback may start a timer with
timeout 0 that precedes what is ready, so this cannot be asked of the whole pass.
`HeapMinIsLeast` says that `HeapMin` is what its name promises, `ClampedSum` that
the wrapped sum of two `uint64_t` is detected for every width.

| Theorem | States |
|---|---|
| `Invariance`, `TypeCorrect` | `Spec => []IInv`, `TypeOK` |
| `FiresOnlyWhatIsDue` | the action property `FiresWhatIsDue` |
| `PassIsComplete` | `PassOwesNothing` |
| `FiresInOrder` | `FiredInOrder` |
| `WakesUpInTime` | `WakesInTime` |
| `KeepsItsTimers` | `TimersAreKept`, the three above |

**IoParts.**  The first half is about streams.  `IInv == Typed /\ Waiting /\ Asked /\ Placed /\ Counted`.  The write queue,
the completed queue and the queue on the stack of `uv__write_callbacks` are read as one,
`Unanswered`: only `uv_write2` adds to its end, only a callback takes from its front, and
everything else, also the flush of a failed or closed stream, moves requests from one
queue to the next and leaves the one queue as it is.  So the sum of what is left of each
(`Counted`) changes only with `uv_write2`, with what the kernel takes, and with a callback.  `Waiting`
says what the fields of a request say of its place, `Asked` which flags and requests
need a descriptor or a connection, `Placed` where in `uv__stream_io` which queue is empty.

| Theorem | States |
|---|---|
| `TypeCorrect` | `TypeOK`, with the two unsigned counts |
| `CountsStayExact` | `CountsAreExact`: `write_queue_size` and the loop's requests are exact, and zero when the stream is destroyed |
| `AnswersInOrder` | the safety of `ImplementsStreamRequests`: each request answered once, in order, truthfully |

The other half has the five parts around descriptors.

- `UdpInv`.  The write queue, what is answered and what waits to be answered are read as one
  sequence, the datagrams in the order of their submission, so that `send_queue_size` and
  `send_queue_count` are `Total` and length of a part of it; `UdpWatched`, that what waits is
  watched for writing or fed, holds only with what `uv__udp_io` still has to do in this turn
  (`UdpTurn`).
- `AccInv`.  A descriptor is with the server (`accepted_fd`, `queued_fds`), with a client or
  closed, once (`AccPlaces`); the queue never outgrows its array, and is empty unless
  `accepted_fd` holds the first (`AccQueues`).
- `SelInv`.  While the stream is open the thread and the loop take turns: the thread's place,
  `events`, the pending async call and `async_sem` go together in four ways (`SelTurns`).  In a
  close each semaphore still holds what the thread needs to get to its end (`SelLeaves`).
- `KqInv`.  `nfds` counts the watchers that `watchers[]` has (`KqCounts`); an event that is
  registered has its filter and one that is only asked for has its watcher in the queue
  (`KqArmed`); the count of children to reap is that of the exits in the batch (`KqBatch`).
- `FspInv`.  The contexts of a handle are a chain, the youngest first, of all that were made and
  not freed (`FspLists`); that of an active handle has a stat or a timer (`FspWorks`); closing
  ends with the last of them (`FspCloses`).
- `IoInv`.  What is in the file is a prefix of what was asked for, as long as `off` or
  `in_offset` says (`IoCopied`); which descriptors are open and which target is left follow
  from the place and the result (`IoTarget`).

| Theorem | States |
|---|---|
| `UdpCorrect` | `TypeOK`, `CountsAreExact`, `AssertsHold`, `NothingStranded`, `ClosedIsClean` of `Udp` |
| `AcceptCorrect` | `TypeOK`, `NoDescriptorLost`, `AssertsHold`, `NothingStranded`, `ClosedIsClean` of `Accept` |
| `SelectCorrect` | `TypeOK`, `AssertsHold`, `NothingStranded`, `HandsOver` of `SelectThread` |
| `KqueueCorrect` | `TypeOK`, `CountsAreExact`, `AssertsHold`, `NoExitLost`, `NothingStranded` of `Kqueue` |
| `FsPollCorrect` | `TypeOK`, `CountsAreExact`, `NothingStranded`, `ClosedIsClean` of `FsPoll` |
| `FsIoCorrect` | `TypeOK`, `InOrder`, `ClosedIsClean` of `FsIo`: a copy or write that reports success is complete and in order |

**DarwinProofs.**  The parts that remain, and the composition.

- `BarInv`.  Who may be where (`BarSeated`), that nobody sleeps for what is over
  (`NothingStranded`), and that there is a round `r` (`BarRound`) such that everybody returned
  `r` times, or, while a round is leaving, `r + 1` times if already outside.  The counts alone
  are not inductive: what keeps a fast thread from lapping a slow one is that `out` is not
  zero while anybody of the old round is inside.
- `FseInv`.  The entries of `cf_signals` and of the batch that was taken from it are read as one
  queue, `Ahead`; a reschedule that is due has an entry ahead (`FseSignals`); a handle that waits
  for the semaphore has its closing entry ahead or the other thread is at it (`FseWaits`); the
  stream covers only what is listed, and the waiting one until it is rescheduled
  (`FseStream`).
- `LlInv`.  A loop that is not up has nothing (`LlClosed`), the handle queue and the walks over
  it are without repetition (`LlQueues`), what is still due in a walk is in its queue
  (`LlDue`), and what somebody is interested in is registered or waits to be (`LlWatched`).
- `ProcInv`.  `nfds` counts the children that can still be waited for (`ProcCounts`); an exit
  is seen, queued or waited for (`ProcSeen`).
- `QryInv`, `TtyInv`, `DesInv`, `FsrInv`, `LookInv`.  The answer is that of the function;
  what is recorded is the first setting of its terminal; what is open is what the steps taken so
  far opened (`DesUpto`); what is allocated is exactly what the fields stand for
  (`FsrStands`); where a read of random bytes is (`LookBytes`).

The composition.  A step of one part is a step of none of the others (`OneAtATime`), so
`DarwinSpec` implements the specification of each part (`RunsItsParts`) and `DarwinInv`, the
parts' invariants together, is inductive.  What the program is told needs more about the
past than the counts do; `DarwinTold` adds it: what was sent and answered is the wire's
beginning (`UdpTold`); descriptors are handed over in the order in which they came, and those
that wait came later (`AccTold`); no entry of a batch is of a watcher that is gone
(`KqFresh`); the callbacks of children that exited and those that are due are different
(`ProcTold`); what a directory was told is the beginning of what was heard of it, and the rest
is on its way in that order (`FseTold`); a context has the version that it told last
(`FspTold`).

| Theorem | States |
|---|---|
| `BarrierCorrect` | `TypeOK`, `CountsAreExact`, `NothingStranded` (spurious wakeups included), `ClosedIsClean` of `Barrier` |
| `FsEventsCorrect`, `LoopLifeCorrect`, `ProcessCorrect` | `TypeOK`, `CountsAreExact`, `NothingStranded`, `ClosedIsClean` of these modules |
| `SpawnCorrect` | `SpawnLeaksNothing`: whatever the stdio and whichever step of `uv_spawn` fails |
| `QueriesCorrect` | `TypeOK`, `CountsAreExact`, `NothingStranded` of `Queries`: a second call with the size told succeeds |
| `TtyCorrect` | `TypeOK`, `NoStaleEvent`, `ClosedIsClean`, `AssertsHold` of `Tty` |
| `DescriptorsCorrect`, `FsRequestCorrect`, `LookupsCorrect` | nothing is leaked, freed twice or told falsely |
| `RunsItsParts` | `DarwinSpec` implements the specifications of its sixteen parts |
| `EverythingIsAccounted` | `Accounted` |
| `EveryAssertionHolds` | `AssertionsHold` |
| `NobodyIsStranded` | `NothingStranded` |
| `TheProgramIsToldTruly` | `ToldTruly` of every part that takes steps |

Only model-checked:

- Liveness, since fairness and `ENABLED` are beyond the prover: `EveryRequestCompletes`,
  `ShutdownCompletes`, `SpinReturns`, `EveryCloseCompletes` (of `Loop` and `Signal`),
  `EveryoneEnds`, and the fairness halves of `ImplementsAsyncEvents` and
  `ImplementsStreamRequests`.
- The invariants of `MCWindows` (`Accounted`, `AssertionsHold`, `NothingStranded`,
  `ToldTruly`), but for the timers.
- What the functions in `ToldTruly` of `MCDarwin` compute (`ChildGetsItsStdio`, `FindsTheFile`,
  `HearsOfItsOwn`, `DueInTime`, `PacksExactly`, `StaysWithin`): they go over their input by
  recursion, so a proof for every input needs induction; TLC evaluates them over every input
  within the bounds.
- What `Heap` computes: its pointers form trees, and facts about them need induction.

## 6. Disagreements with the code's own text

Shown by a run:

1. *Fork during slow I/O* (`thread_pool_fork`, threadpool.c:234).  The comment at
   265-268 says the pool is re-initialised after fork.  `slow_io_work_running`
   keeps the parent's value.  If it was at the threshold, no thread of the child
   takes slow requests, ever.
2. *Second `uv_cancel`* (`thread_pool_recancel`, threadpool.c:299).  A request that was
   cancelled and delivered keeps a dangling link and `uv__cancelled`, so it can be
   cancelled again; its callback runs twice and the assertion in
   `uv__req_unregister` fails if no other request is active.
3. *One-shot watchers* (`signal_one_shot`, signal.c:413).  The kernel resets the
   disposition when the first one-shot watcher's signal arrives.  A watcher that
   starts before that message is dispatched sees another one-shot watcher in the tree
   and registers nothing, although the comment at 558-559 keeps the handler while
   there are other watchers.
4. *Early shutdown* (`stream_shutdown`, stream.c:1286).  The comment at 1173-1174 defers
   shutdown(2) to `uv__drain`.  A shutdown asked for while the stream connects never gets
   there: its own `uv__io_feed` is taken for the connection's event (which may even be
   reported as made too early), and `uv__stream_connect` leaves `POLLOUT` off and does
   not drain.  The same holds in the connect callback of a failed connection with
   queued writes.
5. *Blocking streams* (`stream_blocking`, stream.c:1392).  The assertion says that a
   blocking stream has nothing queued.  After a failed write `write_queue_size` keeps the
   bytes until the callback, which the comment at 1345-1350 calls legal; a second
   `uv_write` before that fails the assertion.
6. *Restarted file polling* (`fs_poll_restart`, fs-poll.c:180).  `timer_cb` asserts that
   its context is the handle's current one.  `poll_cb` only asks whether the handle is
   active; after a stop and a start it is, with another context, so the old context arms
   its timer too and fails the assertion when it fires.

Met while modelling.  The models follow the code up to the point where it happens (then the
guard that cuts it is named), or through it (then the property that excepts it is).

7. *Shutdown in a forked child* (threadpool.c:171-181).  `uv__threadpool_cleanup` asks whether
   `nthreads` is 0.  In a child that has not used the pool since the fork it is the parent's: the
   exit message goes into the parent's queue under a mutex that may have been left locked, which
   never returns, and `uv_thread_join` is called for threads that do not exist, and fails:
   `abort()`.  `ThreadPool` follows it (`PostExit`, `Abort`); `ShutdownCompletes` is about processes
   that have started their threads.
8. *UDP batches* (_darwin/udp.c:1414 and 1430).  `i` is advanced when messages are
   prepared and again by what was sent, so of more than 20 datagrams in one call those
   behind the first 20 are skipped, and as many at the front of the queue as were sent are
   answered.  `Udp` has batches of at most 20.
9. *Deleted filters* (_darwin/core.c:966-972).  `uv__io_start` returns early when `events`
   equals `pevents`.  An event that came unwanted has its filter deleted while `events`
   keeps it; a watcher that asks for it again is not registered (`Rearmed` of `Kqueue`, which
   `NothingStranded` excepts).
10. *Interrupts of the select thread* (_darwin/stream.c:195-198).  A read that fills the
    whole buffer is repeated; `int_fd` is blocking, so the thread waits there for the next
    interrupt when exactly that many bytes were there.  `darwin` has fewer bytes than that.
11. *Copies* (_darwin/fs.c:1283-1286, 1384-1399).  When `fstat` of the destination fails,
    the check for a copy onto itself is skipped and the error path unlinks the file; when
    the source shrinks during the copy, `bytes_to_send` never becomes 0 and the loop does
    not end (`EveryoneEnds` excepts it).
12. *Cancelled closedir* (_darwin/fs.c:2270).  `uv_fs_req_cleanup` frees the `uv_dir_t` of a
    closedir that was cancelled and never ran; its `DIR` stays open.
13. *Environment* (_darwin/core.c:1536).  The error path frees `envitems[cnt]` each time
    where it means `envitems[i]`.
14. *Accepting* (_darwin/stream.c:591).  `uv_accept` that fails takes the descriptor but
    does not start `POLLIN` again (`refused` in `Accept`, which `NothingStranded` excepts).
15. *Windows loop* (_win/core.c:240-242).  The completion port is not closed when the
    allocation behind it fails.
16. *Windows signals* (_win/signal.c).  A callback that closes its handle while
    another number has come meets the assertion of the end game at 277 (`NoNumberIsLeft` of
    `WinSignal`, not part of `AssertionsHold`).  A one-shot watch that was dispatched
    may get a second number before its callback has stopped it: `pending_signum` keeps it and no
    request is posted (96-103), so that `uv__signal_close` waits for a request that does not come
    (266) and the handle never closes (`NothingStranded` excepts it).
17. *Windows file events* (_win/fs-event.c).  A handle that is stopped and started
    again in its own callback has a request, and the assertion that it has none (39) fails when
    the callback returns; one that is stopped and started while its request is in the kernel hands
    the same request over once more (156-170 do not look at `req_pending`).  `Start` of
    `WinFsEvents` cuts both.
18. *Windows IPC* (_win/pipe.c:1963-1966, 2039-2041).  After UV_ENOBUFS no byte is read, yet
    the frame's remaining length goes down by what was to be read.
19. *Windows console* (_win/tty.c).  "\r\n\r\n" is printed with one return too few
    (2144-2157); a failed line read clears `READ_PENDING` but not `CANCELLATION_PENDING`, so
    the next line is dropped (989-998, 1089-1095); a failed raw read leaves the handle
    active (739-743).
20. *Windows slow poll* (_win/poll.c).  A request's thread selects for `handle->events` as it
    finds them when it runs (276, 283), not for what the request was submitted with.  After
    start for READABLE, for WRITABLE and for READABLE again the two requests cover what is wanted and
    nothing is submitted; but when both threads run before the last of the three, both select for
    WRITABLE, and nobody looks for READABLE until select has timed out, after 3 minutes.  After
    start, stop, start a thread that ran in between selects with no socket at all,
    which fails at once, and the program is told of an error that its socket does not have.  The
    error of a select goes to `poll_req_1`
    whichever request it was for (301), so that `poll_req_2` comes back with what it brought the last
    time.  A third set of events while both requests are out meets `assert(0)` (349).  `WinPoll`
    follows the first two, and its properties leave them out (`NothingStranded` goes by what the
    requests cover, `NoStaleEvent` by which request tells an event); `PollStart` cuts the third.
21. *Windows servers* (_win/tcp.c:753).  When a server has stopped to listen because one of its
    requests failed, `uv_accept` during the change to single accepts queues a request and meets the
    assertion at 470.  `AcceptInto` of `WinAccept` cuts it.
22. *Windows UDP* (_win/udp.c:304-309).  The error of queueing `recv_req` does not set
    `READ_PENDING`.  When reading is stopped and started before that is answered, or the error
    occurs in a receive callback, the request is queued again while it is in `pending_reqs`, and
    inserted twice if that fails too.  `QueueRecv` and `RecvStart` of `WinUdp` cut both.
23. *Windows search* (_win/process.c:424-430).  The length of an entry of PATH that is one quote
    becomes -1.

## 7. What the models leave out

- Weak memory: atomics are sequentially consistent (`Async`).
- Failing allocations, except where a request or a loop is made; system calls fail only
  where the code does something about it.
- A fork while a thread of the pool holds `loop->wq_mutex`
  (`ForkWhileLocked = FALSE`): POSIX lets the child hang there.
- The program's obligations are guards: it does not start a closing handle
  (`uv_idle_start` does not refuse one), does not feed a closed one, does not call `uv_run`
  in a callback, does not use a request again before it is answered, and does not listen twice
  on a stream: neither `uv_listen` nor `uv__tcp_listen` (stream.c:600, tcp.c:421-449) refuses it, and
  while a connection waits for `uv_accept` it starts `POLLIN` again, so that the next connection
  meets the assertion at stream.c:514 (`Listen` of `Accept`).
- Guards of the Windows modules that the code does not have, each where a known failure begins:
  `Start` of `WinFsEvents`, `AcceptInto` of `WinAccept`, `QueueRecv` and `RecvStart` of `WinUdp`,
  `PollStart` of `WinPoll` (section 6, 17, 20, 21, 22).
- Using the pool from another loop while a forked child that has no threads yet shuts the library
  down (`MayBeUsed`): both would change every variable of the pool without agreement.
- A second connect on a stream, writing with a handle to pass on Darwin, `SIGPIPE`.
- Timing beyond "at or after": how long a callback takes.
- Parts of a composition do not act on each other: each sees the others as section 1
  (How they interact) says.

### Not modelled

- `_win/fs.c`, `_win/util.c`, `_win/getaddrinfo.c`, `_win/getnameinfo.c`, `_win/thread.c`,
  `_win/winsock.c`, `_win/error.c`: system calls in a row, with conversions of paths, times
  and errors.  The requests among them live as `WorkRequest` says.
- `inet.c`, `idna.c`, `strscpy.c`, `strtok.c`: pure conversions, planned.
- `tree.h`: the tree of signal handles is the set it keeps, sorted (`Signal`).
- `_win/winapi.h`, `_win/winsock.h` and the other headers of declarations: nothing runs.
- `dl.c`, `darwin-proctitle.c`, accessors, error names, version, metrics: no state of their
  own, or none that a property could be about.
- Multicast and socket options, colours and cursor shapes of the console, users and
  groups of children, job objects: passed on to the system as they come.
