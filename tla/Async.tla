--------------------------------- MODULE Async ---------------------------------
(***************************************************************************)
(* Async handles: src/source/main/cpp/_darwin/async.c.                     *)
(*                                                                         *)
(* Any thread may call uv_async_send.  It shares three things with the     *)
(* loop: the handle's pending and busy words, and the loop's wakeup        *)
(* descriptor, which is a kqueue user event or, where that does not work,  *)
(* a pipe.  Every access to one of them is a step.  Atomics are taken to   *)
(* be sequentially consistent.                                             *)
(***************************************************************************)
EXTENDS Integers, FiniteSets, Queues, SequencesExt

CONSTANTS
    Handles,   \* the async handles
    Internal,  \* loop->wq_async, which uv_loop_init creates
    Senders,   \* the threads that call uv_async_send
    None,
    BufSize,   \* sizeof(buf) in uv__async_io
    PipeSize,  \* how many bytes the pipe takes
    MaxForks   \* how often the process forks and goes on in the child

ASSUME AsyncAssumption ==
    /\ Internal \in Handles /\ None \notin Handles
    /\ IsFiniteSet(Senders)
    /\ BufSize \in Nat \ {0} /\ PipeSize \in Nat \ {0} /\ MaxForks \in Nat

VARIABLES
    evfiltUser,  \* kqueue_evfilt_user_support
    wake,        \* bytes in the pipe, or 1 when the user event is triggered
    open,        \* async_io_watcher.fd # -1
    handles,     \* loop->async_handles
    local,       \* the queue on the stack of uv__async_io or uv__async_stop
    state,       \* [Handles]: "none", "active", "spinning", "closing", "closed"
    pending,     \* [Handles]: handle->pending
    busy,        \* [Handles]: handle->u.fd, the busy count
    spc,         \* [Senders]: where the thread is in uv_async_send
    target,      \* [Senders]: the handle it sends to
    lpc,         \* where the loop thread is
    back,        \* where uv_close returns to
    closing,     \* the handle whose busy count the loop thread waits for
    forks

loop == <<handles, local, lpc, back, closing>>
sender == <<spc, target>>
vars == <<evfiltUser, wake, open, loop, state, pending, busy, sender, forks>>

Init ==
    /\ evfiltUser \in BOOLEAN
    /\ wake = 0 /\ open = TRUE
    /\ handles = <<Internal>> /\ local = <<>>
    /\ state = [h \in Handles |-> IF h = Internal THEN "active" ELSE "none"]
    /\ pending = [h \in Handles |-> 0]
    /\ busy = [h \in Handles |-> 0]
    /\ spc = [s \in Senders |-> "idle"]
    /\ target = [s \in Senders |-> None]
    /\ lpc = "program" /\ back = "program" /\ closing = None
    /\ forks = 0

-----------------------------------------------------------------------------
(* uv_async_send *)

\* The cheap read: a handle that is already pending needs nothing more.
Send(s, h) ==
    /\ spc[s] = "idle"
    /\ state[h] \in {"active", "spinning", "closing"}
    /\ pending[h] = 0
    /\ spc' = [spc EXCEPT ![s] = "enter"]
    /\ target' = [target EXCEPT ![s] = h]
    /\ UNCHANGED <<evfiltUser, wake, open, loop, state, pending, busy, forks>>

\* Mutant: the sender does not count itself.
EnterUncounted(s) ==
    /\ spc[s] = "enter"
    /\ spc' = [spc EXCEPT ![s] = "exchange"]
    /\ UNCHANGED <<evfiltUser, wake, open, loop, state, pending, busy, target, forks>>

\* atomic_fetch_add(busy, 1)
Enter(s) ==
    /\ spc[s] = "enter"
    /\ busy' = [busy EXCEPT ![target[s]] = @ + 1]
    /\ spc' = [spc EXCEPT ![s] = "exchange"]
    /\ UNCHANGED <<evfiltUser, wake, open, loop, state, pending, target, forks>>

\* Mutant: a sender that is not the first one returns and stays counted.
ExchangeReturns(s) ==
    /\ spc[s] = "exchange"
    /\ pending' = [pending EXCEPT ![target[s]] = 1]
    /\ IF pending[target[s]] = 0
       THEN spc' = [spc EXCEPT ![s] = "wake"] /\ UNCHANGED target
       ELSE spc' = [spc EXCEPT ![s] = "idle"] /\ target' = [target EXCEPT ![s] = None]
    /\ UNCHANGED <<evfiltUser, wake, open, loop, state, busy, forks>>

\* atomic_exchange(pending, 1): only the first one wakes the loop.
Exchange(s) ==
    /\ spc[s] = "exchange"
    /\ pending' = [pending EXCEPT ![target[s]] = 1]
    /\ spc' = [spc EXCEPT ![s] = IF pending[target[s]] = 0 THEN "wake" ELSE "leave"]
    /\ UNCHANGED <<evfiltUser, wake, open, loop, state, busy, target, forks>>

\* uv__async_send: a full pipe is as good as a written one; a descriptor that
\* is not open ends in abort.
WakeUp(s) ==
    /\ spc[s] = "wake"
    /\ IF open
       THEN /\ wake' = IF evfiltUser THEN 1 ELSE IF wake < PipeSize THEN wake + 1 ELSE wake
            /\ spc' = [spc EXCEPT ![s] = "leave"]
       ELSE spc' = [spc EXCEPT ![s] = "aborted"] /\ UNCHANGED wake
    /\ UNCHANGED <<evfiltUser, open, loop, state, pending, busy, target, forks>>

\* atomic_fetch_add(busy, -1)
Leave(s) ==
    /\ spc[s] = "leave"
    /\ busy' = [busy EXCEPT ![target[s]] = @ - 1]
    /\ spc' = [spc EXCEPT ![s] = "idle"]
    /\ target' = [target EXCEPT ![s] = None]
    /\ UNCHANGED <<evfiltUser, wake, open, loop, state, pending, forks>>

Sending(s) == Enter(s) \/ Exchange(s) \/ WakeUp(s) \/ Leave(s)

-----------------------------------------------------------------------------
(* The loop: polling and uv__async_io *)

\* uv__io_poll returns with an event of the wakeup descriptor.  The user event
\* is cleared by its retrieval (EV_CLEAR), the pipe only by reading it.
PollWake ==
    /\ lpc = "program" /\ open /\ wake > 0
    /\ wake' = IF evfiltUser THEN 0 ELSE wake
    /\ lpc' = "dispatch"
    /\ UNCHANGED <<evfiltUser, open, handles, local, back, closing, state, pending, busy, sender, forks>>

\* Mutant: the handles are looked at before the pipe is emptied, and the loop
\* goes back to sleep after that.
DrainAfterScan ==
    /\ lpc \in {"dispatch", "scan"} /\ (lpc = "scan" => local = <<>>)
    /\ IF lpc = "dispatch"
       THEN /\ local' = handles /\ handles' = <<>> /\ lpc' = "scan"
            /\ UNCHANGED wake
       ELSE wake' = 0 /\ lpc' = "program" /\ UNCHANGED <<handles, local>>
    /\ UNCHANGED <<evfiltUser, open, back, closing, state, pending, busy, sender, forks>>

\* read() until it comes back short, then uv__queue_move(&loop->async_handles).
Drain ==
    /\ lpc = "dispatch"
    /\ IF ~evfiltUser /\ wake >= BufSize
       THEN wake' = wake - BufSize /\ UNCHANGED <<handles, local, lpc>>
       ELSE /\ wake' = IF evfiltUser THEN wake ELSE 0
            /\ local' = handles /\ handles' = <<>>
            /\ lpc' = "scan"
    /\ UNCHANGED <<evfiltUser, open, back, closing, state, pending, busy, sender, forks>>

\* One turn of the loop in uv__async_io: the handle goes back to the loop's
\* queue; its callback is called if it was pending.
Scan ==
    /\ lpc = "scan" /\ local # <<>>
    /\ LET h == Head(local) IN
       /\ local' = Tail(local) /\ handles' = Append(handles, h)
       /\ pending' = [pending EXCEPT ![h] = 0]
       /\ lpc' = IF pending[h] = 0 THEN "scan" ELSE "callback"
    /\ UNCHANGED <<evfiltUser, wake, open, back, closing, state, busy, sender, forks>>

CallbackReturns ==
    /\ lpc = "callback"
    /\ lpc' = "scan"
    /\ UNCHANGED <<evfiltUser, wake, open, handles, local, back, closing, state, pending, busy, sender, forks>>

ScanEnd ==
    /\ lpc = "scan" /\ local = <<>>
    /\ lpc' = "program"
    /\ UNCHANGED <<evfiltUser, wake, open, handles, local, back, closing, state, pending, busy, sender, forks>>

-----------------------------------------------------------------------------
(* The program on the loop thread: between polls, in the callbacks of other *)
(* watchers before uv__async_io, and in async callbacks.                    *)

Program == lpc \in {"program", "dispatch", "callback"}

\* uv_async_init
AsyncInit(h) ==
    /\ Program /\ open /\ state[h] = "none"
    /\ pending' = [pending EXCEPT ![h] = 0]
    /\ busy' = [busy EXCEPT ![h] = 0]
    /\ handles' = Append(handles, h)
    /\ state' = [state EXCEPT ![h] = "active"]
    /\ UNCHANGED <<evfiltUser, wake, open, local, lpc, back, closing, sender, forks>>

\* uv_close, uv__async_close, uv__async_spin: pending is set, so that a sender
\* that comes later finds nothing to do.
Close(h) ==
    /\ Program /\ h # Internal /\ state[h] = "active"
    /\ state' = [state EXCEPT ![h] = "spinning"]
    /\ pending' = [pending EXCEPT ![h] = 1]
    /\ closing' = h /\ back' = lpc /\ lpc' = "spin"
    /\ UNCHANGED <<evfiltUser, wake, open, handles, local, busy, sender, forks>>

\* Mutant: the loop thread does not wait for the senders.
CloseUnspun ==
    /\ lpc = "spin"
    /\ handles' = Unlink(handles, closing) /\ local' = Unlink(local, closing)
    /\ state' = [state EXCEPT ![closing] = "closing"]
    /\ closing' = None /\ lpc' = back
    /\ UNCHANGED <<evfiltUser, wake, open, back, pending, busy, sender, forks>>

\* The busy count is seen at zero: the handle leaves the queue it is in, which
\* is the one on the stack when uv__async_io has not come to it.
CloseSpun ==
    /\ lpc = "spin" /\ busy[closing] = 0
    /\ handles' = Unlink(handles, closing) /\ local' = Unlink(local, closing)
    /\ state' = [state EXCEPT ![closing] = "closing"]
    /\ closing' = None /\ lpc' = back
    /\ UNCHANGED <<evfiltUser, wake, open, back, pending, busy, sender, forks>>

\* uv__finish_close, in the closing phase of the loop.
FinishClose(h) ==
    /\ lpc = "program" /\ state[h] = "closing"
    /\ state' = [state EXCEPT ![h] = "closed"]
    /\ UNCHANGED <<evfiltUser, wake, open, loop, pending, busy, sender, forks>>

\* uv_loop_close, when only the loop's own handle is left: uv__async_stop.
Stop ==
    /\ lpc = "program" /\ open
    /\ \A h \in Handles \ {Internal} : state[h] \in {"none", "closed"}
    /\ local' = handles /\ handles' = <<>>
    /\ lpc' = "stop"
    /\ UNCHANGED <<evfiltUser, wake, open, back, closing, state, pending, busy, sender, forks>>

\* uv__async_spin for the next handle ...
StopSpin ==
    /\ lpc = "stop" /\ local # <<>>
    /\ LET h == Head(local) IN
       /\ local' = Tail(local) /\ handles' = Append(handles, h)
       /\ pending' = [pending EXCEPT ![h] = 1]
       /\ state' = [state EXCEPT ![h] = "spinning"]
       /\ closing' = h
    /\ lpc' = "stopSpin"
    /\ UNCHANGED <<evfiltUser, wake, open, back, busy, sender, forks>>

\* ... until its busy count is zero.
StopSpun ==
    /\ lpc = "stopSpin" /\ busy[closing] = 0
    /\ state' = [state EXCEPT ![closing] = "closing"]
    /\ closing' = None /\ lpc' = "stop"
    /\ UNCHANGED <<evfiltUser, wake, open, handles, local, back, pending, busy, sender, forks>>

\* The descriptors are closed.
Stopped ==
    /\ lpc = "stop" /\ local = <<>>
    /\ open' = FALSE /\ wake' = 0
    /\ lpc' = "stopped"
    /\ UNCHANGED <<evfiltUser, handles, local, back, closing, state, pending, busy, sender, forks>>

\* fork() and uv_loop_fork in the child: the senders are gone, the handles are
\* reset (uv__async_fork) and the wakeup descriptor is a new one.
Fork ==
    /\ lpc = "program" /\ open /\ forks < MaxForks
    /\ forks' = forks + 1
    /\ spc' = [s \in Senders |-> "idle"] /\ target' = [s \in Senders |-> None]
    /\ pending' = [h \in Handles |-> IF Contains(handles, h) THEN 0 ELSE pending[h]]
    /\ busy' = [h \in Handles |-> IF Contains(handles, h) THEN 0 ELSE busy[h]]
    /\ wake' = 0
    /\ UNCHANGED <<evfiltUser, open, loop, state>>

-----------------------------------------------------------------------------
\* The steps the loop thread takes without being asked by the program.
Loop ==
    \/ PollWake \/ Drain \/ Scan \/ CallbackReturns \/ ScanEnd
    \/ CloseSpun \/ StopSpin \/ StopSpun \/ Stopped

Next ==
    \/ \E s \in Senders : Sending(s) \/ \E h \in Handles : Send(s, h)
    \/ Loop
    \/ \E h \in Handles : AsyncInit(h) \/ Close(h) \/ FinishClose(h)
    \/ Stop \/ Fork

Spec == Init /\ [][Next]_vars

(***************************************************************************)
(* Threads keep running: a sender inside uv_async_send goes on, and so     *)
(* does the loop, which polls again after every turn and whose callbacks   *)
(* return.  Nobody has to send, close or fork.                             *)
(***************************************************************************)
Fairness == WF_vars(Loop) /\ \A s \in Senders : WF_vars(Sending(s))

FairSpec == Spec /\ Fairness

-----------------------------------------------------------------------------
(* Properties *)

\* Every variable has its type; the busy count is never negative.
TypeOK ==
    /\ evfiltUser \in BOOLEAN /\ open \in BOOLEAN
    /\ wake \in Nat
    /\ handles \in Seq(Handles) /\ local \in Seq(Handles)
    /\ state \in [Handles -> {"none", "active", "spinning", "closing", "closed"}]
    /\ pending \in [Handles -> {0, 1}]
    /\ busy \in [Handles -> Nat]
    /\ spc \in [Senders -> {"idle", "enter", "exchange", "wake", "leave", "aborted"}]
    /\ target \in [Senders -> Handles \union {None}]
    /\ lpc \in {"program", "dispatch", "scan", "callback", "spin", "stop", "stopSpin", "stopped"}
    /\ back \in {"program", "dispatch", "callback"}
    /\ closing \in Handles \union {None}
    /\ forks \in Nat

\* "No new events will be added by other threads after this function returns"
\* (async.c:111-112): once uv__async_spin has returned nobody is about to wake
\* the loop for the handle, or to wake a loop whose descriptors are closed,
\* although a sender that read pending before may still be on its way.
QuietAfterSpin ==
    \A s \in Senders : spc[s] = "wake" => open /\ state[target[s]] \in {"active", "spinning"}

\* uv__async_spin returns: the senders that come later do not keep the busy
\* count up (async.c:116-133).
SpinReturns == (closing # None) ~> (closing = None)

\* The calls on an open handle that no callback has answered.
Calls(h) ==
    IF state[h] = "active"
    THEN pending[h] + Cardinality({s \in Senders : target[s] = h /\ spc[s] \in {"enter", "exchange"}})
    ELSE 0

Phase(h) ==
    CASE state[h] = "none" -> "new"
      [] state[h] = "active" -> "open"
      [] state[h] \in {"spinning", "closing"} -> "closing"
      [] OTHER -> "closed"

Events == INSTANCE AsyncEvents WITH
    phase <- [h \in Handles |-> Phase(h)], calls <- [h \in Handles |-> Calls(h)]

\* Callbacks answer calls: none without a call, none after uv_close, and no
\* call on an open handle without a callback that begins after it.
ImplementsAsyncEvents == Events!Spec
=============================================================================
