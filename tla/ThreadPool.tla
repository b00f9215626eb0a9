------------------------------ MODULE ThreadPool ------------------------------
(***************************************************************************)
(* The worker pool of libuv: src/source/main/cpp/threadpool.c.             *)
(*                                                                         *)
(* Loop threads submit and cancel requests; pool threads execute them and  *)
(* hand them back to the loop that submitted them, which runs their done   *)
(* callbacks.  Slow I/O requests wait in a queue of their own: a single    *)
(* marker in the shared queue (run_slow_work_message) stands for all of    *)
(* them, and at most half of the threads may execute slow I/O.             *)
(*                                                                         *)
(* A step is what one thread does without letting go of, or asking for, a  *)
(* lock.  Both locks are explicit, because uv_cancel takes the two         *)
(* together and the workers must never do so.                              *)
(***************************************************************************)
EXTENDS Integers, FiniteSets, Queues, SequencesExt

CONSTANTS
    Workers,       \* the pool threads; nthreads is their number
    Loops,         \* the loop threads
    Reqs,          \* the requests (uv_work_t, uv_fs_t, uv_getaddrinfo_t, ...)
    Owner,         \* [Reqs -> Loops]: the loop a request is submitted to
    SlowReqs,      \* the requests submitted as UV__WORK_SLOW_IO
    SLOW,          \* &run_slow_work_message
    EXIT,          \* &exit_message
    None,          \* no thread, no request
    MaxSubmits,    \* how often the program submits one request
    CancelScope,   \* the life[r] in which the program may call uv_cancel(r)
    MaxForks,      \* how often the process forks and goes on in the child
    ForkWhileLocked, \* whether it may fork while a worker holds wq_mutex
    ShutdownScope, \* the processes in which uv_library_shutdown may be called
    ProcessReqs    \* the requests that a program which forks or shuts down may submit

ASSUME PoolAssumption ==
    /\ IsFiniteSet(Workers) /\ Workers # {}
    /\ IsFiniteSet(Reqs)
    /\ Owner \in [Reqs -> Loops]
    /\ SlowReqs \subseteq Reqs /\ ProcessReqs \subseteq Reqs
    /\ SLOW # EXIT /\ SLOW \notin Reqs /\ EXIT \notin Reqs
    /\ None \notin Workers \union Loops \union Reqs
    /\ Workers \intersect Loops = {}
    /\ MaxSubmits \in Nat /\ MaxForks \in Nat
    /\ CancelScope \subseteq {"submitted", "done"}
    /\ ShutdownScope \subseteq {"parent", "forked", "child"}
    /\ ForkWhileLocked \in BOOLEAN

\* Instances with one loop take this for Owner.
OneOwner == [r \in Reqs |-> CHOOSE l \in Loops : TRUE]

VARIABLES
    once,          \* TRUE when init_threads has run in this process
    mutex,         \* who holds the pool's mutex
    wqMutex,       \* [Loops]: who holds loop->wq_mutex
    wq,            \* the shared queue: requests, SLOW, EXIT
    slowPending,   \* slow_io_pending_wq
    idle,          \* idle_threads
    slowRunning,   \* slow_io_work_running
    pc,            \* [Workers]: where the thread is in worker()
    cur,           \* [Workers]: w, the request it executes
    isSlow,        \* [Workers]: is_slow_work
    work,          \* [Reqs]: w->work: the function, NULL or uv__cancelled
    node,          \* [Reqs]: the link w->wq: in a queue, initialised, or
                   \* removed and left with its old pointers
    loopWq,        \* [Loops]: loop->wq, the requests to be delivered
    asyncPending,  \* [Loops]: loop->wq_async has been sent to
    local,         \* [Loops]: the queue on the stack of uv__work_done
    lpc,           \* [Loops]: where the loop thread is
    back,          \* [Loops]: where uv_cancel returns to
    creq,          \* [Loops]: the request being cancelled
    activeReqs,    \* [Loops]: loop->active_reqs.count
    shutdown,      \* uv_library_shutdown: "no", "called", "posted", "joined", "aborted"
    forks,         \* forks so far
    life,          \* [Reqs]: history, the life of the request
    submits,       \* [Reqs]: history, how often it was submitted
    runs,          \* [Reqs]: history, executions since the last submission
    dones,         \* [Reqs]: history, done callbacks since the last submission
    verdict,       \* [Reqs]: history, the status its done callback received
    cancelled      \* [Reqs]: history, uv_cancel returned 0

pool == <<once, mutex, wq, slowPending, idle, slowRunning>>
threads == <<pc, cur, isSlow>>
links == <<work, node>>
loopVars == <<wqMutex, loopWq, asyncPending, local, lpc, back, creq, activeReqs>>
process == <<shutdown, forks>>
history == <<life, submits, runs, dones, verdict, cancelled>>
vars == <<pool, threads, links, loopVars, process, history>>

-----------------------------------------------------------------------------
(* Queues and the condition variable *)

Entries == Reqs \union {SLOW, EXIT}

\* slow_work_thread_threshold
Threshold == (Cardinality(Workers) + 1) \div 2

\* Mutant: one thread too many may execute slow I/O.
AtThresholdPlusOne == slowRunning > Threshold

\* slow_io_work_running >= slow_work_thread_threshold()
AtThreshold == slowRunning >= Threshold

\* uv_cond_signal: one of the waiting threads, if any, is woken.
Signalled(p) ==
    IF \E w \in Workers : p[w] = "waiting"
    THEN {[p EXCEPT ![w] = "woken"] : w \in {v \in Workers : p[v] = "waiting"}}
    ELSE {p}

\* Mutant: a single idle thread is not woken.
SignalledIfTwoIdle(p) == IF idle > 1 THEN Signalled(p) ELSE {p}

\* if (idle_threads > 0) uv_cond_signal(&cond)
SignalledIfIdle(p) == IF idle > 0 THEN Signalled(p) ELSE {p}

\* nthreads is not 0: the pool was started, in this process or before it forked.
HasThreads == \E w \in Workers : pc[w] # "none"

\* uv_once(&once, init_once): the queues and the threads after it.
PoolWq == IF once THEN wq ELSE <<>>
PoolSlow == IF once THEN slowPending ELSE <<>>
PoolPc == IF once THEN pc ELSE [w \in Workers |-> "lock"]

\* post(), once it has the mutex.
Post(x) ==
    IF x \in SlowReqs
    THEN /\ slowPending' = Append(PoolSlow, x)
         /\ IF Contains(PoolWq, SLOW)
            THEN wq' = PoolWq /\ pc' = PoolPc
            ELSE wq' = Append(PoolWq, SLOW) /\ pc' \in SignalledIfIdle(PoolPc)
    ELSE /\ slowPending' = PoolSlow
         /\ wq' = Append(PoolWq, x)
         /\ pc' \in SignalledIfIdle(PoolPc)

-----------------------------------------------------------------------------
Init ==
    /\ once = FALSE
    /\ mutex = None
    /\ wqMutex = [l \in Loops |-> None]
    /\ wq = <<>> /\ slowPending = <<>>
    /\ idle = 0 /\ slowRunning = 0
    /\ pc = [w \in Workers |-> "none"]
    /\ cur = [w \in Workers |-> None]
    /\ isSlow = [w \in Workers |-> FALSE]
    /\ work = [r \in Reqs |-> "null"]
    /\ node = [r \in Reqs |-> "init"]
    /\ loopWq = [l \in Loops |-> <<>>]
    /\ asyncPending = [l \in Loops |-> FALSE]
    /\ local = [l \in Loops |-> <<>>]
    /\ lpc = [l \in Loops |-> "program"]
    /\ back = [l \in Loops |-> "program"]
    /\ creq = [l \in Loops |-> None]
    /\ activeReqs = [l \in Loops |-> 0]
    /\ shutdown = "no" /\ forks = 0
    /\ life = [r \in Reqs |-> "fresh"]
    /\ submits = [r \in Reqs |-> 0]
    /\ runs = [r \in Reqs |-> 0]
    /\ dones = [r \in Reqs |-> 0]
    /\ verdict = [r \in Reqs |-> "none"]
    /\ cancelled = [r \in Reqs |-> FALSE]

-----------------------------------------------------------------------------
(* The pool threads: worker() *)

\* Mutant: the end of slow work is not counted.
LockUncounted(w) ==
    /\ pc[w] = "lock" /\ mutex = None
    /\ mutex' = w
    /\ isSlow' = [isSlow EXCEPT ![w] = FALSE]
    /\ pc' = [pc EXCEPT ![w] = "top"]
    /\ UNCHANGED <<once, wq, slowPending, idle, slowRunning, cur, links, loopVars, process, history>>

\* uv_mutex_lock(&mutex), at the start of the thread or after a request.
Lock(w) ==
    /\ pc[w] = "lock" /\ mutex = None
    /\ mutex' = w
    /\ slowRunning' = IF isSlow[w] THEN slowRunning - 1 ELSE slowRunning
    /\ isSlow' = [isSlow EXCEPT ![w] = FALSE]
    /\ pc' = [pc EXCEPT ![w] = "top"]
    /\ UNCHANGED <<once, wq, slowPending, idle, cur, links, loopVars, process, history>>

\* The condition of the inner while: nothing to do, or only slow I/O and the
\* threshold is reached.
MustWait == wq = <<>> \/ (wq = <<SLOW>> /\ AtThreshold)

\* Mutant: the sleeping thread is not counted.
SleepUncounted(w) ==
    /\ pc[w] = "top" /\ MustWait
    /\ mutex' = None
    /\ pc' = [pc EXCEPT ![w] = "waiting"]
    /\ UNCHANGED <<once, wq, slowPending, idle, slowRunning, cur, isSlow, links, loopVars, process, history>>

\* uv_cond_wait: the mutex is released.
Sleep(w) ==
    /\ pc[w] = "top" /\ MustWait
    /\ idle' = idle + 1
    /\ mutex' = None
    /\ pc' = [pc EXCEPT ![w] = "waiting"]
    /\ UNCHANGED <<once, wq, slowPending, slowRunning, cur, isSlow, links, loopVars, process, history>>

\* A thread may leave uv_cond_wait without a signal.
SpuriousWakeup(w) ==
    /\ pc[w] = "waiting"
    /\ pc' = [pc EXCEPT ![w] = "woken"]
    /\ UNCHANGED <<pool, cur, isSlow, links, loopVars, process, history>>

\* uv_cond_wait returns with the mutex.
Wake(w) ==
    /\ pc[w] = "woken" /\ mutex = None
    /\ mutex' = w
    /\ idle' = idle - 1
    /\ pc' = [pc EXCEPT ![w] = "top"]
    /\ UNCHANGED <<once, wq, slowPending, slowRunning, cur, isSlow, links, loopVars, process, history>>

AtHead(w, x) == pc[w] = "top" /\ ~MustWait /\ Head(wq) = x

\* Mutant: the exit message is not passed on.
ExitQuietly(w) ==
    /\ AtHead(w, EXIT)
    /\ mutex' = None
    /\ pc' = [pc EXCEPT ![w] = "exited"]
    /\ UNCHANGED <<once, wq, slowPending, idle, slowRunning, cur, isSlow, links, loopVars, process, history>>

\* exit_message stays in the queue; the signal passes it on to another thread.
Exit(w) ==
    /\ AtHead(w, EXIT)
    /\ mutex' = None
    /\ pc' \in Signalled([pc EXCEPT ![w] = "exited"])
    /\ UNCHANGED <<once, wq, slowPending, idle, slowRunning, cur, isSlow, links, loopVars, process, history>>

\* The worker owns the request: unlinked and initialised, then w->work(w).
Execute(w, r) ==
    /\ node' = [node EXCEPT ![r] = "init"]
    /\ cur' = [cur EXCEPT ![w] = r]
    /\ runs' = [runs EXCEPT ![r] = @ + 1]
    /\ mutex' = None
    /\ UNCHANGED <<once, idle, work, loopVars, process, life, submits, dones, verdict, cancelled>>

TakeFast(w) == \E r \in Reqs :
    /\ AtHead(w, r)
    /\ wq' = Tail(wq)
    /\ pc' = [pc EXCEPT ![w] = "working"]
    /\ Execute(w, r)
    /\ UNCHANGED <<slowPending, slowRunning, isSlow>>

\* At the threshold the marker goes behind the other work.
Requeue(w) ==
    /\ AtHead(w, SLOW) /\ AtThreshold
    /\ wq' = Append(Tail(wq), SLOW)
    /\ UNCHANGED <<once, mutex, slowPending, idle, slowRunning, threads, links, loopVars, process, history>>

\* All the slow I/O the marker stood for has been cancelled.
DropMarker(w) ==
    /\ AtHead(w, SLOW) /\ ~AtThreshold /\ slowPending = <<>>
    /\ wq' = Tail(wq)
    /\ UNCHANGED <<once, mutex, slowPending, idle, slowRunning, threads, links, loopVars, process, history>>

\* Mutant: the marker is not put back.
TakeSlowOnce(w) ==
    /\ AtHead(w, SLOW) /\ ~AtThreshold /\ slowPending # <<>>
    /\ slowRunning' = slowRunning + 1
    /\ slowPending' = Tail(slowPending)
    /\ isSlow' = [isSlow EXCEPT ![w] = TRUE]
    /\ wq' = Tail(wq) /\ pc' = [pc EXCEPT ![w] = "working"]
    /\ Execute(w, Head(slowPending))

\* The first slow request is taken; the marker is put back while more remain.
TakeSlow(w) ==
    /\ AtHead(w, SLOW) /\ ~AtThreshold /\ slowPending # <<>>
    /\ slowRunning' = slowRunning + 1
    /\ slowPending' = Tail(slowPending)
    /\ isSlow' = [isSlow EXCEPT ![w] = TRUE]
    /\ LET p == [pc EXCEPT ![w] = "working"] IN
       IF Tail(slowPending) # <<>>
       THEN wq' = Append(Tail(wq), SLOW) /\ pc' \in SignalledIfIdle(p)
       ELSE wq' = Tail(wq) /\ pc' = p
    /\ Execute(w, Head(slowPending))

\* Mutant: w->work is left as it is, so the request does not look executed.
FinishUnmarked(w) ==
    /\ pc[w] = "working"
    /\ LET r == cur[w]
           l == Owner[r]
       IN /\ wqMutex[l] = None
          /\ wqMutex' = [wqMutex EXCEPT ![l] = w]
          /\ node' = [node EXCEPT ![r] = "linked"]
          /\ loopWq' = [loopWq EXCEPT ![l] = Append(@, r)]
    /\ pc' = [pc EXCEPT ![w] = "send"]
    /\ UNCHANGED <<pool, cur, isSlow, work, asyncPending, local, lpc, back, creq, activeReqs, process, history>>

\* The work function returns; under loop->wq_mutex the request is marked as
\* executed and queued for delivery ...
Finish(w) ==
    /\ pc[w] = "working"
    /\ LET r == cur[w]
           l == Owner[r]
       IN /\ wqMutex[l] = None
          /\ wqMutex' = [wqMutex EXCEPT ![l] = w]
          /\ work' = [work EXCEPT ![r] = "null"]
          /\ node' = [node EXCEPT ![r] = "linked"]
          /\ loopWq' = [loopWq EXCEPT ![l] = Append(@, r)]
    /\ pc' = [pc EXCEPT ![w] = "send"]
    /\ UNCHANGED <<pool, cur, isSlow, asyncPending, local, lpc, back, creq, activeReqs, process, history>>

\* ... and uv_async_send wakes the loop, before the lock is released.
Announce(w) ==
    /\ pc[w] = "send"
    /\ LET l == Owner[cur[w]]
       IN /\ asyncPending' = [asyncPending EXCEPT ![l] = TRUE]
          /\ wqMutex' = [wqMutex EXCEPT ![l] = None]
    /\ pc' = [pc EXCEPT ![w] = "lock"]
    /\ cur' = [cur EXCEPT ![w] = None]
    /\ UNCHANGED <<pool, isSlow, links, loopWq, local, lpc, back, creq, activeReqs, process, history>>

-----------------------------------------------------------------------------
(* The loop threads: submission, cancellation, delivery *)

\* The program runs on loop l: between callbacks of other handles, or in the
\* done callback of a request.
Program(l) == lpc[l] \in {"program", "callback"}

\* The program uses the pool until uv_library_shutdown returns.  (In a forked child that has no
\* threads yet, starting them while it runs would be a race on every variable of the pool.)
MayBeUsed == shutdown = "no" \/ (once /\ shutdown \in {"called", "posted"})

\* uv_queue_work and the other submitters: uv__req_init, uv__work_submit.
Submit(r) ==
    LET l == Owner[r] IN
    /\ Program(l)
    /\ life[r] \in {"fresh", "done"} /\ submits[r] < MaxSubmits
    /\ MayBeUsed
    /\ r \in ProcessReqs \/ (forks = 0 /\ shutdown = "no")
    /\ ~once \/ mutex = None
    /\ once' = TRUE
    /\ mutex' = None
    /\ Post(r)
    /\ work' = [work EXCEPT ![r] = "fn"]
    /\ node' = [node EXCEPT ![r] = "linked"]
    /\ activeReqs' = [activeReqs EXCEPT ![l] = @ + 1]
    /\ life' = [life EXCEPT ![r] = "submitted"]
    /\ submits' = [submits EXCEPT ![r] = @ + 1]
    /\ runs' = [runs EXCEPT ![r] = 0]
    /\ dones' = [dones EXCEPT ![r] = 0]
    /\ verdict' = [verdict EXCEPT ![r] = "none"]
    /\ cancelled' = [cancelled EXCEPT ![r] = FALSE]
    /\ UNCHANGED <<idle, slowRunning, cur, isSlow, wqMutex, loopWq, asyncPending,
                   local, lpc, back, creq, process>>

\* uv_cancel, uv__work_cancel: uv_once and uv_mutex_lock(&mutex) ...
CancelLock(r) ==
    LET l == Owner[r] IN
    /\ Program(l)
    /\ life[r] \in CancelScope
    /\ MayBeUsed
    /\ ~once \/ mutex = None
    /\ once' = TRUE
    /\ mutex' = l
    /\ wq' = PoolWq /\ slowPending' = PoolSlow /\ pc' = PoolPc
    /\ creq' = [creq EXCEPT ![l] = r]
    /\ back' = [back EXCEPT ![l] = lpc[l]]
    /\ lpc' = [lpc EXCEPT ![l] = "cancelCheck"]
    /\ UNCHANGED <<idle, slowRunning, cur, isSlow, links, wqMutex, loopWq,
                   asyncPending, local, activeReqs, process, history>>

\* Mutant: only the link is looked at.
CancellableIfLinked(r) == node[r] # "init"

\* Whether the request can still be cancelled: it is linked in a queue (or
\* seems to be) and has not been executed.
Cancellable(r) == node[r] # "init" /\ work[r] # "null"

\* ... then uv_mutex_lock(&w->loop->wq_mutex); the request leaves whatever
\* queue it is in, and both locks are released; or UV_EBUSY is returned.
CancelCheck(l) ==
    /\ lpc[l] = "cancelCheck" /\ wqMutex[l] = None
    /\ mutex' = None
    /\ LET r == creq[l] IN
       IF Cancellable(r)
       THEN /\ wq' = Unlink(wq, r)
            /\ slowPending' = Unlink(slowPending, r)
            /\ loopWq' = [loopWq EXCEPT ![l] = Unlink(@, r)]
            /\ local' = [local EXCEPT ![l] = Unlink(@, r)]
            /\ node' = [node EXCEPT ![r] = "loose"]
            /\ lpc' = [lpc EXCEPT ![l] = "cancelPublish"]
            /\ UNCHANGED creq
       ELSE /\ lpc' = [lpc EXCEPT ![l] = back[l]]
            /\ creq' = [creq EXCEPT ![l] = None]
            /\ UNCHANGED <<wq, slowPending, loopWq, local, node>>
    /\ UNCHANGED <<once, idle, slowRunning, threads, work, wqMutex, asyncPending,
                   back, activeReqs, process, history>>

\* The cancelled request goes straight to the delivery queue; returns 0.
CancelPublish(l) ==
    /\ lpc[l] = "cancelPublish" /\ wqMutex[l] = None
    /\ LET r == creq[l] IN
       /\ work' = [work EXCEPT ![r] = "cancelled"]
       /\ node' = [node EXCEPT ![r] = "linked"]
       /\ loopWq' = [loopWq EXCEPT ![l] = Append(@, r)]
       /\ cancelled' = [cancelled EXCEPT ![r] = TRUE]
    /\ asyncPending' = [asyncPending EXCEPT ![l] = TRUE]
    /\ lpc' = [lpc EXCEPT ![l] = back[l]]
    /\ creq' = [creq EXCEPT ![l] = None]
    /\ UNCHANGED <<pool, threads, wqMutex, local, back, activeReqs, process,
                   life, submits, runs, dones, verdict>>

\* The loop finds wq_async signalled and calls uv__work_done.
AsyncFire(l) ==
    /\ lpc[l] = "program" /\ asyncPending[l]
    /\ asyncPending' = [asyncPending EXCEPT ![l] = FALSE]
    /\ lpc' = [lpc EXCEPT ![l] = "drain"]
    /\ UNCHANGED <<pool, threads, links, wqMutex, loopWq, local, back, creq,
                   activeReqs, process, history>>

\* Mutant: the delivery queue is copied, not moved.
DrainCopy(l) ==
    /\ lpc[l] = "drain" /\ wqMutex[l] = None
    /\ local' = [local EXCEPT ![l] = loopWq[l]]
    /\ lpc' = [lpc EXCEPT ![l] = "next"]
    /\ UNCHANGED <<pool, threads, links, wqMutex, loopWq, asyncPending, back, creq,
                   activeReqs, process, history>>

\* uv__queue_move(&loop->wq, &wq) under loop->wq_mutex.
Drain(l) ==
    /\ lpc[l] = "drain" /\ wqMutex[l] = None
    /\ local' = [local EXCEPT ![l] = loopWq[l]]
    /\ loopWq' = [loopWq EXCEPT ![l] = <<>>]
    /\ lpc' = [lpc EXCEPT ![l] = "next"]
    /\ UNCHANGED <<pool, threads, links, wqMutex, asyncPending, back, creq,
                   activeReqs, process, history>>

\* One turn of the loop in uv__work_done: the request is removed, its links
\* are left as they are, and its done callback is called with the verdict.
Complete(l) ==
    /\ lpc[l] = "next" /\ local[l] # <<>>
    /\ LET r == Head(local[l]) IN
       /\ node' = [node EXCEPT ![r] = "loose"]
       /\ verdict' = [verdict EXCEPT ![r] = IF work[r] = "cancelled" THEN "canceled" ELSE "ok"]
       /\ dones' = [dones EXCEPT ![r] = @ + 1]
       /\ life' = [life EXCEPT ![r] = "done"]
    /\ local' = [local EXCEPT ![l] = Tail(@)]
    /\ activeReqs' = [activeReqs EXCEPT ![l] = @ - 1]
    /\ lpc' = [lpc EXCEPT ![l] = "callback"]
    /\ UNCHANGED <<pool, threads, work, wqMutex, loopWq, asyncPending, back, creq,
                   process, submits, runs, cancelled>>

\* The done callback returns.
Return(l) ==
    /\ lpc[l] = "callback"
    /\ lpc' = [lpc EXCEPT ![l] = "next"]
    /\ UNCHANGED <<pool, threads, links, wqMutex, loopWq, asyncPending, local, back,
                   creq, activeReqs, process, history>>

\* uv__work_done returns to the loop.
WorkDone(l) ==
    /\ lpc[l] = "next" /\ local[l] = <<>>
    /\ lpc' = [lpc EXCEPT ![l] = "program"]
    /\ UNCHANGED <<pool, threads, links, wqMutex, loopWq, asyncPending, local, back,
                   creq, activeReqs, process, history>>

-----------------------------------------------------------------------------
(* The process: uv_library_shutdown and fork *)

\* The bounds on the programs that fork or shut down.
ThisProcess == IF forks = 0 THEN "parent" ELSE IF once THEN "child" ELSE "forked"
FewReqs == \A r \in Reqs \ ProcessReqs : submits[r] = 0

\* uv_library_shutdown reaches uv__threadpool_cleanup: without threads it is done.
Cleanup ==
    /\ ThisProcess \in ShutdownScope /\ FewReqs
    /\ shutdown = "no"
    /\ shutdown' = IF HasThreads THEN "called" ELSE "joined"
    /\ UNCHANGED <<pool, threads, links, loopVars, forks, history>>

\* post(&exit_message, UV__WORK_CPU), to the queue as it is: unlike a submission it does not
\* start the pool again in a forked child, and the mutex may be one that the fork left locked ...
PostExit ==
    /\ shutdown = "called" /\ mutex = None
    /\ wq' = Append(wq, EXIT)
    /\ pc' \in SignalledIfIdle(pc)
    /\ shutdown' = "posted"
    /\ UNCHANGED <<once, mutex, slowPending, idle, slowRunning, cur, isSlow, links, loopVars, forks, history>>

\* ... and uv_thread_join for every thread.
Join ==
    /\ shutdown = "posted"
    /\ \A w \in Workers : pc[w] = "exited"
    /\ shutdown' = "joined"
    /\ UNCHANGED <<pool, threads, links, loopVars, forks, history>>

\* uv_thread_join fails for a thread that the fork has left behind.
Abort ==
    /\ shutdown = "posted"
    /\ \E w \in Workers : pc[w] = "gone"
    /\ shutdown' = "aborted"
    /\ UNCHANGED <<pool, threads, links, loopVars, forks, history>>

\* fork() on loop thread l, seen in the child: the other threads are gone and
\* reset_once makes the next uv_once call init_threads again, which resets the
\* queues and the mutex but neither idle_threads nor slow_io_work_running.  Until then the
\* mutex is what it was, and nthreads counts threads that are gone.
\* uv_loop_fork then forgets pending asyncs (uv__async_fork).  Requests that the
\* pool had not handed back are lost.
ForkChild(l) ==
    /\ forks < MaxForks /\ shutdown = "no" /\ FewReqs
    /\ lpc[l] = "program" /\ Loops = {l}
    /\ ForkWhileLocked \/ wqMutex[l] = None
    /\ forks' = forks + 1
    /\ once' = FALSE
    /\ pc' = [w \in Workers |-> IF pc[w] = "none" THEN "none" ELSE "gone"]
    /\ cur' = [w \in Workers |-> None]
    /\ isSlow' = [w \in Workers |-> FALSE]
    /\ asyncPending' = [asyncPending EXCEPT ![l] = FALSE]
    /\ life' = [r \in Reqs |->
                  IF life[r] = "submitted" /\ ~Contains(loopWq[l], r) THEN "lost" ELSE life[r]]
    /\ UNCHANGED <<mutex, wq, slowPending, idle, slowRunning, links, wqMutex, loopWq, local, lpc,
                   back, creq, activeReqs, shutdown, submits, runs, dones, verdict, cancelled>>

-----------------------------------------------------------------------------
Worker(w) ==
    \/ Lock(w) \/ Sleep(w) \/ Wake(w) \/ Exit(w)
    \/ TakeFast(w) \/ Requeue(w) \/ DropMarker(w) \/ TakeSlow(w)
    \/ Finish(w) \/ Announce(w)

Deliver(l) == AsyncFire(l) \/ Drain(l) \/ Complete(l) \/ Return(l) \/ WorkDone(l)

Next ==
    \/ \E w \in Workers : Worker(w) \/ SpuriousWakeup(w)
    \/ \E r \in Reqs : Submit(r) \/ CancelLock(r)
    \/ \E l \in Loops : CancelCheck(l) \/ CancelPublish(l) \/ Deliver(l) \/ ForkChild(l)
    \/ Cleanup \/ PostExit \/ Join \/ Abort

Spec == Init /\ [][Next]_vars

(***************************************************************************)
(* Threads keep running and locks are handed on: a thread that asks for a  *)
(* lock again and again while it is free gets it.  Work functions and done *)
(* callbacks return.  Nothing obliges the program to submit, cancel, fork  *)
(* or shut down, and nothing obliges a thread to wake up spuriously.       *)
(***************************************************************************)
Fairness ==
    /\ \A w \in Workers : SF_vars(Worker(w))
    /\ \A l \in Loops : SF_vars(CancelCheck(l) \/ CancelPublish(l)) /\ SF_vars(Deliver(l))
    /\ SF_vars(PostExit \/ Join)

FairSpec == Spec /\ Fairness

-----------------------------------------------------------------------------
(* Properties *)

PcStates == {"none", "gone", "lock", "top", "waiting", "woken", "working", "send", "exited"}
LpcStates == {"program", "callback", "cancelCheck", "cancelPublish", "drain", "next"}

\* Every variable has its type (threadpool.c:32-43 and the request's fields).
TypeOK ==
    /\ once \in BOOLEAN
    /\ mutex \in Workers \union Loops \union {None}
    /\ wqMutex \in [Loops -> Workers \union {None}]
    /\ wq \in Seq(Entries) /\ slowPending \in Seq(Reqs)
    /\ idle \in Nat /\ slowRunning \in Nat
    /\ pc \in [Workers -> PcStates]
    /\ cur \in [Workers -> Reqs \union {None}]
    /\ isSlow \in [Workers -> BOOLEAN]
    /\ work \in [Reqs -> {"fn", "null", "cancelled"}]
    /\ node \in [Reqs -> {"linked", "init", "loose"}]
    /\ loopWq \in [Loops -> Seq(Reqs)] /\ local \in [Loops -> Seq(Reqs)]
    /\ asyncPending \in [Loops -> BOOLEAN]
    /\ lpc \in [Loops -> LpcStates] /\ back \in [Loops -> LpcStates]
    /\ creq \in [Loops -> Reqs \union {None}]
    /\ activeReqs \in [Loops -> Nat]
    /\ shutdown \in {"no", "called", "posted", "joined", "aborted"} /\ forks \in Nat
    /\ life \in [Reqs -> {"fresh", "submitted", "done", "lost"}]
    /\ submits \in [Reqs -> Nat] /\ runs \in [Reqs -> Nat] /\ dones \in [Reqs -> Nat]
    /\ verdict \in [Reqs -> {"none", "ok", "canceled"}]
    /\ cancelled \in [Reqs -> BOOLEAN]

InFlight(l, r) == lpc[l] = "cancelPublish" /\ creq[l] = r
Occurrences(q, r) == {i \in DOMAIN q : q[i] = r}

\* How many threads and queues have a request.
Places(r) ==
    LET l == Owner[r] IN
      (IF once THEN Cardinality(Occurrences(wq, r)) + Cardinality(Occurrences(slowPending, r)) ELSE 0)
    + Cardinality({w \in Workers : cur[w] = r /\ pc[w] = "working"})
    + Cardinality(Occurrences(loopWq[l], r)) + Cardinality(Occurrences(local[l], r))
    + (IF InFlight(l, r) THEN 1 ELSE 0)

\* A submitted request is in exactly one place, whoever moved it last: a queue,
\* a worker that executes it, or the hands of uv_cancel.  A request whose
\* callback ran is nowhere.  (The moves of worker, uv__work_cancel and
\* uv__work_done between five queues under two locks.)
Placement ==
    \A r \in Reqs : Places(r) = IF life[r] = "submitted" THEN 1 ELSE 0

\* The done callback tells the truth, once: ECANCELED exactly when uv_cancel
\* returned 0, and then the work function never ran; otherwise it ran exactly
\* once (threadpool.c:299, 309, 339).
CancelHonest ==
    \A r \in Reqs : life[r] = "done" =>
        /\ dones[r] = 1
        /\ cancelled[r] <=> verdict[r] = "canceled"
        /\ runs[r] = IF cancelled[r] THEN 0 ELSE 1

SlowExecuting == {w \in Workers : pc[w] = "working" /\ cur[w] \in SlowReqs}

\* Slow I/O is counted before it runs and until it has run, and never takes
\* more than half of the threads, rounded up (threadpool.c:95, 106, 135-138).
SlowLimit ==
    /\ Cardinality(SlowExecuting) <= slowRunning
    /\ slowRunning <= Threshold

\* Waiting slow I/O is always announced in the shared queue, by one marker:
\* a request added while the marker is queued needs no marker of its own
\* (threadpool.c:112-117, 148-154).
SlowAnnounced ==
    once => /\ slowPending # <<>> => Contains(wq, SLOW)
            /\ \A i, j \in DOMAIN wq : wq[i] = SLOW /\ wq[j] = SLOW => i = j

Awake == {w \in Workers : pc[w] \in {"lock", "top", "woken"}}
Runnable == Len(wq) - (IF Contains(wq, SLOW) /\ AtThreshold THEN 1 ELSE 0)

\* No wakeup is lost: while a thread sleeps unsignalled there are at least as
\* many threads on their way to the queue as entries that can be executed
\* (threadpool.c:72-79, 115, 158).
WorkConserving ==
    once /\ (\E w \in Workers : pc[w] = "waiting") => Runnable <= Cardinality(Awake)

\* uv__req_unregister's assertion, assert(uv__has_active_reqs(loop))
\* (uv-common.h:255): a done callback is only run for a request that is
\* still registered with its loop.
DoneWhileRegistered == \A l \in Loops : activeReqs[l] >= 0

\* No request stays submitted for ever: each gets its callback, unless the pool is shut down or
\* the process has forked meanwhile.
EveryRequestCompletes ==
    \A r \in Reqs : []<>(life[r] # "submitted" \/ shutdown # "no" \/ forks > 0)

\* "Re-initialize the threadpool after fork" (threadpool.c:265-268): a request that
\* is not submitted before the fork but in the child completes as it would have in
\* the parent.
CompletesAfterFork ==
    \A r \in Reqs :
        [](forks > 0 /\ life[r] # "submitted" =>
              [](life[r] = "submitted" => <>(life[r] \in {"done", "lost"})))

\* uv_library_shutdown returns in a process that has started its threads itself: the
\* exit message reaches every thread, also when requests are still posted behind it.
\* (In a forked child that has not used the pool it does not: README, section 6.)
ShutdownCompletes == []<>~(once /\ shutdown \in {"called", "posted"})

-----------------------------------------------------------------------------
(* What the pool promises for each request: WorkRequest *)

Phase(r) ==
    CASE life[r] = "fresh" -> "idle"
      [] life[r] = "done" -> "delivered"
      [] life[r] = "lost" -> "lost"
      [] OTHER -> IF work[r] = "null" THEN "finished"
                  ELSE IF work[r] = "cancelled" \/ InFlight(Owner[r], r) THEN "cancelled"
                  ELSE IF \E w \in Workers : cur[w] = r THEN "running"
                  ELSE "queued"

Request == INSTANCE WorkRequest WITH
    phase <- [r \in Reqs |-> Phase(r)], verdict <- verdict

\* Every request goes through the life that WorkRequest describes.
ImplementsWorkRequest == Request!Spec
=============================================================================
