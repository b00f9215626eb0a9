---------------------------------- MODULE Loop ----------------------------------
(***************************************************************************)
(* The event loop: uv_run, uv_close and the life of a handle               *)
(* (src/source/main/cpp/_darwin/core.c), the idle, prepare and check       *)
(* handles (_darwin/loop-watcher.c) and the reference counts of uv-common. *)
(*                                                                         *)
(* One loop thread.  The program acts outside uv_run and in callbacks;     *)
(* there it may start, stop, feed, reference and close any handle, also    *)
(* one that waits in a queue on the stack of the function that is calling. *)
(* Which timers are due is left open here: module Timer says it.           *)
(***************************************************************************)
EXTENDS Integers, FiniteSets, Queues, SequencesExt

CONSTANTS
    Handles,        \* the program's handles
    Reqs,           \* requests in the hands of the thread pool or the kernel
    Kinds,          \* the sets of types that the handles of a program have
    PendingRounds   \* the 8 rounds of pending callbacks after a poll

Watched == {"idle", "prepare", "check"}
Types == Watched \union {"io", "timer"}
Modes == {"DEFAULT", "ONCE", "NOWAIT"}

ASSUME LoopAssumption ==
    /\ IsFiniteSet(Handles) /\ IsFiniteSet(Reqs) /\ Handles \intersect Reqs = {}
    /\ Kinds \subseteq SUBSET Types
    /\ PendingRounds \in Nat

VARIABLES
    type,           \* [Handles]: handle->type
    life,           \* [Handles]: "closed" (or never initialised), "open", "closing"
    active, ref,    \* the handles with UV_HANDLE_ACTIVE, with UV_HANDLE_REF
    activeHandles,  \* loop->active_handles
    reqs,           \* the requests that loop->active_reqs counts
    queue,          \* idle_handles, prepare_handles, check_handles, pending_queue
    closingHandles, \* loop->closing_handles, the latest first
    stopFlag,       \* loop->stop_flag
    phase,          \* where uv_run is
    mode, r, canSleep, timeout, rounds,   \* its argument and its locals
    local,          \* the queue or list on the stack of what uv_run calls
    cb,             \* a callback of the program is running
    owed            \* history: the watchers this turn of the loop has to call

handleVars == <<type, life, active, ref, activeHandles>>
runVars == <<mode, r, canSleep, timeout, rounds>>
vars == <<handleVars, reqs, queue, closingHandles, stopFlag, phase, runVars, local, cb, owed>>

Init ==
    /\ \E kind \in Kinds : type \in [Handles -> kind]
    /\ life = [h \in Handles |-> "closed"]
    /\ active = {} /\ ref = {} /\ activeHandles = 0 /\ reqs = {}
    /\ queue = [q \in Watched \union {"pending"} |-> <<>>]
    /\ closingHandles = <<>> /\ stopFlag = FALSE
    /\ phase = "outside" /\ local = <<>> /\ cb = FALSE /\ owed = {}
    /\ mode = "DEFAULT" /\ r = FALSE /\ canSleep = FALSE /\ timeout = "zero" /\ rounds = 0

-----------------------------------------------------------------------------
(* Handles *)

\* uv__handle_start
HandleStart(h) ==
    /\ active' = active \union {h}
    /\ activeHandles' = IF h \in ref \ active THEN activeHandles + 1 ELSE activeHandles

\* uv__handle_stop
HandleStop(h) ==
    /\ active' = active \ {h}
    /\ activeHandles' = IF h \in ref \intersect active THEN activeHandles - 1 ELSE activeHandles

\* Mutant: closing handles do not keep the loop alive.
LoopAliveUnlessClosing == activeHandles > 0 \/ reqs # {} \/ queue["pending"] # <<>>

\* uv__loop_alive
LoopAlive ==
    \/ activeHandles > 0 \/ reqs # {}
    \/ queue["pending"] # <<>> \/ closingHandles # <<>>

\* Mutant: closing handles do not keep the loop from sleeping.
BackendTimeoutWhileClosing ==
    IF /\ ~stopFlag /\ (activeHandles > 0 \/ reqs # {})
       /\ queue["pending"] = <<>> /\ queue["idle"] = <<>>
    THEN "block" ELSE "zero"

\* uv__backend_timeout: "block" stands for uv__next_timeout.
BackendTimeout ==
    IF /\ ~stopFlag /\ (activeHandles > 0 \/ reqs # {})
       /\ queue["pending"] = <<>> /\ queue["idle"] = <<>> /\ closingHandles = <<>>
    THEN "block" ELSE "zero"

-----------------------------------------------------------------------------
(* What the program does, outside uv_run and in callbacks *)

Program == phase = "outside" \/ cb

\* uv__handle_init
HandleInit(h) ==
    /\ Program /\ life[h] = "closed"
    /\ life' = [life EXCEPT ![h] = "open"]
    /\ ref' = ref \union {h}
    /\ UNCHANGED <<type, active, activeHandles, reqs, queue, closingHandles, stopFlag, phase,
                   runVars, local, cb, owed>>

\* Mutant: a watcher that is active is inserted again.
StartWatcherAgain(h) ==
    /\ Program /\ life[h] = "open" /\ type[h] \in Watched
    /\ queue' = [queue EXCEPT ![type[h]] = <<h>> \o @]
    /\ HandleStart(h)
    /\ UNCHANGED <<type, life, ref, reqs, closingHandles, stopFlag, phase, runVars, local, cb, owed>>

\* uv_idle_start, uv_prepare_start, uv_check_start
StartWatcher(h) ==
    /\ Program /\ life[h] = "open" /\ type[h] \in Watched /\ h \notin active
    /\ queue' = [queue EXCEPT ![type[h]] = <<h>> \o @]
    /\ HandleStart(h)
    /\ UNCHANGED <<type, life, ref, reqs, closingHandles, stopFlag, phase, runVars, local, cb, owed>>

\* A timer, or a handle that polls a descriptor: uv_timer_start, which takes the
\* timer out of the ready queue of uv__run_timers, or uv__io_start.
StartOther(h) ==
    /\ Program /\ life[h] = "open" /\ type[h] \in {"io", "timer"}
    /\ HandleStart(h)
    /\ local' = IF type[h] = "timer" THEN Unlink(local, h) ELSE local
    /\ UNCHANGED <<type, life, ref, reqs, queue, closingHandles, stopFlag, phase, runVars, cb, owed>>

\* The handle leaves the queue it is in, be it of the loop or on the stack.  An
\* event that the poll has fetched stays fetched: it is skipped later.
Out(h) ==
    /\ queue' = IF type[h] \in Watched THEN [queue EXCEPT ![type[h]] = Unlink(@, h)] ELSE queue
    /\ local' = IF type[h] = "io" THEN local ELSE Unlink(local, h)

\* uv_idle_stop and the like, uv_timer_stop, uv__io_stop
Stop(h) ==
    /\ Program /\ life[h] = "open"
    /\ HandleStop(h) /\ Out(h)
    /\ owed' = owed \ {h}
    /\ UNCHANGED <<type, life, ref, reqs, closingHandles, stopFlag, phase, runVars, cb>>

\* Mutant: uv_ref counts a handle whether it is active or not.
RefCounted(h) ==
    /\ Program /\ life[h] # "closed" /\ h \notin ref
    /\ ref' = ref \union {h}
    /\ activeHandles' = IF life[h] = "closing" THEN activeHandles ELSE activeHandles + 1
    /\ UNCHANGED <<type, life, active, reqs, queue, closingHandles, stopFlag, phase, runVars,
                   local, cb, owed>>

\* uv_ref
Ref(h) ==
    /\ Program /\ life[h] # "closed" /\ h \notin ref
    /\ ref' = ref \union {h}
    /\ activeHandles' = IF life[h] # "closing" /\ h \in active THEN activeHandles + 1 ELSE activeHandles
    /\ UNCHANGED <<type, life, active, reqs, queue, closingHandles, stopFlag, phase, runVars,
                   local, cb, owed>>

\* Mutant: uv_unref counts a handle whether it is active or not.
UnrefCounted(h) ==
    /\ Program /\ life[h] # "closed" /\ h \in ref
    /\ ref' = ref \ {h}
    /\ activeHandles' = IF life[h] = "closing" THEN activeHandles ELSE activeHandles - 1
    /\ UNCHANGED <<type, life, active, reqs, queue, closingHandles, stopFlag, phase, runVars,
                   local, cb, owed>>

\* uv_unref
Unref(h) ==
    /\ Program /\ life[h] # "closed" /\ h \in ref
    /\ ref' = ref \ {h}
    /\ activeHandles' = IF life[h] # "closing" /\ h \in active THEN activeHandles - 1 ELSE activeHandles
    /\ UNCHANGED <<type, life, active, reqs, queue, closingHandles, stopFlag, phase, runVars,
                   local, cb, owed>>

\* uv__io_feed
Feed(h) ==
    /\ Program /\ life[h] = "open" /\ type[h] = "io"
    /\ ~Contains(queue["pending"], h)
    /\ phase \in {"pending", "drain"} => ~Contains(local, h)
    /\ queue' = [queue EXCEPT !["pending"] = Append(@, h)]
    /\ UNCHANGED <<handleVars, reqs, closingHandles, stopFlag, phase, runVars, local, cb, owed>>

\* Mutant: a queue that has been moved to the stack is not looked at.
CloseInLoopOnly(h) ==
    /\ Program /\ life[h] = "open"
    /\ life' = [life EXCEPT ![h] = "closing"]
    /\ HandleStop(h)
    /\ queue' = [q \in DOMAIN queue |-> Unlink(queue[q], h)]
    /\ owed' = owed \ {h}
    /\ closingHandles' = <<h>> \o closingHandles
    /\ UNCHANGED <<type, ref, reqs, stopFlag, phase, runVars, local, cb>>

\* uv_close: the handle leaves every queue, its fetched events are invalidated,
\* and uv__make_close_pending.
Close(h) ==
    /\ Program /\ life[h] = "open"
    /\ life' = [life EXCEPT ![h] = "closing"]
    /\ HandleStop(h)
    /\ queue' = [q \in DOMAIN queue |-> Unlink(queue[q], h)]
    /\ local' = Unlink(local, h)
    /\ owed' = owed \ {h}
    /\ closingHandles' = <<h>> \o closingHandles
    /\ UNCHANGED <<type, ref, reqs, stopFlag, phase, runVars, cb>>

\* uv__req_register for work that completes in a later poll.
Request(q) ==
    /\ Program /\ q \notin reqs /\ ~Contains(local, q)
    /\ reqs' = reqs \union {q}
    /\ UNCHANGED <<handleVars, queue, closingHandles, stopFlag, phase, runVars, local, cb, owed>>

\* uv_stop
StopLoop ==
    /\ Program
    /\ stopFlag' = TRUE
    /\ UNCHANGED <<handleVars, reqs, queue, closingHandles, phase, runVars, local, cb, owed>>

-----------------------------------------------------------------------------
(* uv_run *)

\* uv__run_timers begins: the timers that are due are stopped and wait in the
\* ready queue.
RunTimers(p) ==
    /\ phase' = p
    /\ \E due \in SUBSET {h \in active : type[h] = "timer"} :
        /\ \E order \in SetToSeqs(due) : local' = order
        /\ active' = active \ due
        /\ activeHandles' = activeHandles - Cardinality(due \intersect ref)

\* The end of uv_run.
Return ==
    /\ phase' = "outside" /\ stopFlag' = FALSE

\* uv_run, up to the loop.  uv_run is not called from a callback.
Run(m) ==
    /\ phase = "outside"
    /\ mode' = m /\ r' = LoopAlive
    /\ \/ /\ ~LoopAlive \/ stopFlag
          /\ Return
          /\ UNCHANGED <<active, activeHandles, local>>
       \/ /\ LoopAlive /\ ~stopFlag /\ m = "DEFAULT"
          /\ RunTimers("firstTimers")
          /\ UNCHANGED stopFlag
       \/ /\ LoopAlive /\ ~stopFlag /\ m # "DEFAULT"
          /\ phase' = "turn"
          /\ UNCHANGED <<active, activeHandles, local, stopFlag>>
    /\ UNCHANGED <<type, life, ref, reqs, queue, closingHandles, canSleep, timeout, rounds, cb, owed>>

\* uv__queue_move to the stack of uv__run_pending, uv__run_idle and the like.
MoveQueue(q) == local' = queue[q] /\ queue' = [queue EXCEPT ![q] = <<>>]

\* Nothing is left on the stack of the function uv_run is in.
Idle(p) == phase = p /\ ~cb /\ local = <<>>

EndFirstTimers ==
    /\ Idle("firstTimers")
    /\ IF stopFlag THEN Return ELSE phase' = "turn" /\ UNCHANGED stopFlag
    /\ UNCHANGED <<handleVars, reqs, queue, closingHandles, runVars, local, cb, owed>>

\* The loop begins another turn with uv__run_pending.
BeginTurn ==
    /\ phase = "turn"
    /\ canSleep' = (queue["pending"] = <<>> /\ queue["idle"] = <<>>)
    /\ MoveQueue("pending") /\ phase' = "pending"
    /\ owed' = {h \in active : type[h] \in Watched}
    /\ UNCHANGED <<handleVars, reqs, closingHandles, stopFlag, mode, r, timeout, rounds, cb>>

EndPending ==
    /\ Idle("pending")
    /\ MoveQueue("idle") /\ phase' = "idle"
    /\ UNCHANGED <<handleVars, reqs, closingHandles, stopFlag, runVars, cb, owed>>

EndIdle ==
    /\ Idle("idle")
    /\ MoveQueue("prepare") /\ phase' = "prepare"
    /\ UNCHANGED <<handleVars, reqs, closingHandles, stopFlag, runVars, cb, owed>>

\* Into uv__io_poll.
EndPrepare ==
    /\ Idle("prepare")
    /\ phase' = "poll"
    /\ timeout' = IF mode = "DEFAULT" \/ (mode = "ONCE" /\ canSleep) THEN BackendTimeout ELSE "zero"
    /\ UNCHANGED <<handleVars, reqs, queue, closingHandles, stopFlag, mode, r, canSleep, rounds,
                   local, cb, owed>>

\* The events the kernel has for the loop, in any order.  A poll that may block
\* comes back for an event, or for a timer.
PollWakes ==
    /\ phase = "poll" /\ timeout \in {"zero", "block"}
    /\ \E events \in SUBSET ({h \in active : type[h] = "io"} \union reqs) :
        /\ \/ timeout = "zero" \/ events # {}
           \/ \E h \in active : type[h] = "timer"
        /\ \E order \in SetToSeqs(events) : local' = order
    /\ timeout' = "woken"
    /\ UNCHANGED <<handleVars, reqs, queue, closingHandles, stopFlag, phase, mode, r, canSleep,
                   rounds, cb, owed>>

\* uv__io_poll returns.
EndPoll ==
    /\ Idle("poll") /\ timeout = "woken"
    /\ phase' = "drain" /\ rounds' = 0
    /\ UNCHANGED <<handleVars, reqs, queue, closingHandles, stopFlag, mode, r, canSleep, timeout,
                   local, cb, owed>>

\* Mutant: pending callbacks run until there are no more.
DrainAll ==
    /\ Idle("drain")
    /\ IF queue["pending"] # <<>>
       THEN MoveQueue("pending") /\ UNCHANGED phase
       ELSE MoveQueue("check") /\ phase' = "check"
    /\ UNCHANGED <<handleVars, reqs, closingHandles, stopFlag, mode, r, canSleep, timeout, rounds, cb, owed>>

\* "Process immediate callbacks a small fixed number of times", then uv__run_check.
Drain ==
    /\ Idle("drain")
    /\ IF rounds < PendingRounds /\ queue["pending"] # <<>>
       THEN MoveQueue("pending") /\ rounds' = rounds + 1 /\ UNCHANGED phase
       ELSE MoveQueue("check") /\ phase' = "check" /\ UNCHANGED rounds
    /\ UNCHANGED <<handleVars, reqs, closingHandles, stopFlag, mode, r, canSleep, timeout, cb, owed>>

\* uv__run_closing_handles takes the list.
EndCheck ==
    /\ Idle("check")
    /\ local' = closingHandles /\ closingHandles' = <<>> /\ phase' = "closing"
    /\ UNCHANGED <<handleVars, reqs, queue, stopFlag, runVars, cb, owed>>

EndClosing ==
    /\ Idle("closing")
    /\ RunTimers("timers")
    /\ UNCHANGED <<type, life, ref, reqs, queue, closingHandles, stopFlag, runVars, cb, owed>>

\* The end of a turn.
EndTimers ==
    /\ Idle("timers")
    /\ r' = LoopAlive
    /\ IF mode = "DEFAULT" /\ LoopAlive /\ ~stopFlag
       THEN phase' = "turn" /\ UNCHANGED stopFlag
       ELSE Return
    /\ UNCHANGED <<handleVars, reqs, queue, closingHandles, mode, canSleep, timeout, rounds,
                   local, cb, owed>>

-----------------------------------------------------------------------------
(* The callbacks that uv_run calls *)

Waiting == ~cb /\ local # <<>>

\* uv__run_pending
CallPending ==
    /\ Waiting /\ phase \in {"pending", "drain"}
    /\ local' = Tail(local) /\ cb' = TRUE
    /\ UNCHANGED <<handleVars, reqs, queue, closingHandles, stopFlag, phase, runVars, owed>>

\* Mutant: the handle is not put back.
CallWatcherOnce ==
    /\ Waiting /\ phase \in Watched
    /\ local' = Tail(local) /\ cb' = TRUE
    /\ owed' = owed \ {Head(local)}
    /\ UNCHANGED <<handleVars, reqs, queue, closingHandles, stopFlag, phase, runVars>>

\* uv__run_idle, uv__run_prepare, uv__run_check: the handle goes back to the
\* loop's queue before its callback is called.
CallWatcher ==
    /\ Waiting /\ phase \in Watched
    /\ local' = Tail(local) /\ cb' = TRUE
    /\ queue' = [queue EXCEPT ![phase] = Append(@, Head(local))]
    /\ owed' = owed \ {Head(local)}
    /\ UNCHANGED <<handleVars, reqs, closingHandles, stopFlag, phase, runVars>>

\* uv__io_poll: the watcher of the descriptor is called if there still is one.
CallPolled ==
    /\ Waiting /\ phase = "poll" /\ Head(local) \in Handles
    /\ local' = Tail(local) /\ cb' = (Head(local) \in active)
    /\ UNCHANGED <<handleVars, reqs, queue, closingHandles, stopFlag, phase, runVars, owed>>

\* The same for a request: uv__req_unregister, then its callback.
CallRequest ==
    /\ Waiting /\ phase = "poll" /\ Head(local) \in Reqs
    /\ local' = Tail(local) /\ cb' = TRUE
    /\ reqs' = reqs \ {Head(local)}
    /\ UNCHANGED <<handleVars, queue, closingHandles, stopFlag, phase, runVars, owed>>

\* uv__finish_close
CallClose ==
    /\ Waiting /\ phase = "closing"
    /\ local' = Tail(local) /\ cb' = TRUE
    /\ life' = [life EXCEPT ![Head(local)] = "closed"]
    /\ ref' = ref \ {Head(local)}
    /\ UNCHANGED <<type, active, activeHandles, reqs, queue, closingHandles, stopFlag, phase,
                   runVars, owed>>

\* uv__run_timers
CallTimer ==
    /\ Waiting /\ phase \in {"firstTimers", "timers"}
    /\ local' = Tail(local) /\ cb' = TRUE
    /\ UNCHANGED <<handleVars, reqs, queue, closingHandles, stopFlag, phase, runVars, owed>>

CallbackReturns ==
    /\ cb
    /\ cb' = FALSE
    /\ UNCHANGED <<handleVars, reqs, queue, closingHandles, stopFlag, phase, runVars, local, owed>>

-----------------------------------------------------------------------------
Call == CallPending \/ CallWatcher \/ CallPolled \/ CallRequest \/ CallClose \/ CallTimer

\* What uv_run does without the kernel's help.
Running ==
    \/ EndFirstTimers \/ BeginTurn \/ EndPending \/ EndIdle \/ EndPrepare \/ EndPoll
    \/ Drain \/ EndCheck \/ EndClosing \/ EndTimers \/ Call \/ CallbackReturns

Next ==
    \/ \E h \in Handles :
        \/ HandleInit(h) \/ StartWatcher(h) \/ StartOther(h) \/ Stop(h)
        \/ Ref(h) \/ Unref(h) \/ Feed(h) \/ Close(h)
    \/ \E q \in Reqs : Request(q)
    \/ StopLoop
    \/ \E m \in Modes : Run(m)
    \/ Running \/ PollWakes

Spec == Init /\ [][Next]_vars

(***************************************************************************)
(* The loop thread goes on: callbacks return and a poll that must not      *)
(* block comes back.  No event has to arrive while the loop sleeps, and    *)
(* the program does not have to call uv_run.                               *)
(***************************************************************************)
Fairness == WF_vars(Running \/ (timeout = "zero" /\ PollWakes))

FairSpec == Spec /\ Fairness

-----------------------------------------------------------------------------
(* Properties *)

\* Every variable has its type; the count of active handles (unsigned in C) is
\* never negative.
TypeOK ==
    /\ type \in [Handles -> Types]
    /\ life \in [Handles -> {"closed", "open", "closing"}]
    /\ active \subseteq Handles /\ ref \subseteq Handles /\ owed \subseteq Handles
    /\ activeHandles \in Nat
    /\ reqs \subseteq Reqs
    /\ queue \in [Watched \union {"pending"} -> Seq(Handles)]
    /\ closingHandles \in Seq(Handles) /\ local \in Seq(Handles \union Reqs)
    /\ phase \in Watched \union {"outside", "firstTimers", "turn", "pending", "poll", "drain",
                                 "closing", "timers"}
    /\ mode \in Modes /\ timeout \in {"zero", "block", "woken"} /\ rounds \in 0..PendingRounds
    /\ stopFlag \in BOOLEAN /\ r \in BOOLEAN /\ canSleep \in BOOLEAN /\ cb \in BOOLEAN

\* What the loop lives on: the count is the number of handles that are active
\* and referenced, in whatever order they were started, unreferenced and closed.
CountIsRight == activeHandles = Cardinality(active \intersect ref)

\* The queue or list q of the loop together with its part on the stack.
With(q, phases) == IF phase \in phases THEN local \o q ELSE q

\* A handle is linked where it belongs, once: the active watchers with the
\* watchers of their type, the closing handles in the closing list, and only
\* open handles in the pending queue.
Placement ==
    /\ \A t \in Watched :
        LET q == With(queue[t], {t}) IN
        Distinct(q) /\ Range(q) = {h \in active : type[h] = t}
    /\ LET q == With(closingHandles, {"closing"}) IN
        Distinct(q) /\ Range(q) = {h \in Handles : life[h] = "closing"}
    /\ LET q == With(queue["pending"], {"pending", "drain"}) IN
        Distinct(q) /\ \A h \in Range(q) : life[h] = "open"

\* Every turn of the loop calls each idle, prepare and check handle that was
\* active when the turn began, unless the program has stopped it meanwhile.
TurnCallsEverybody == phase \in {"closing", "timers", "turn", "outside"} => owed = {}

\* The loop sleeps only for something, and not when there is work to do: a
\* handle to close, a fed watcher, an idle callback, uv_stop.
SleepsForAReason ==
    phase = "poll" /\ timeout = "block" =>
        /\ ~stopFlag
        /\ \A h \in Handles : life[h] # "closing" /\ (type[h] = "idle" => h \notin active)
        /\ queue["pending"] = <<>>
        /\ reqs # {} \/ active \intersect ref # {}

\* No callback of a handle after uv_close but the close callback, and none of a
\* watcher that was stopped, although its queue is on the stack already.
CallsTheLiving ==
    [][~cb /\ cb' /\ Head(local) \in Handles =>
        LET h == Head(local) IN
        /\ life[h] = IF phase = "closing" THEN "closing" ELSE "open"
        /\ phase \in Watched \union {"poll"} => h \in active]_vars

\* uv_run returns 0, or returns in the default mode without uv_stop, only if
\* nothing is left to wait for or to close.
ReturnsWhenDone ==
    [][phase # "outside" /\ phase' = "outside" /\ (~r' \/ (mode = "DEFAULT" /\ ~stopFlag)) =>
        /\ active \intersect ref = {} /\ reqs = {} /\ queue["pending"] = <<>>
        /\ \A h \in Handles : life[h] # "closing"]_vars

\* Every uv_close ends in the close callback, although pending callbacks may
\* feed their watcher again and again and closing callbacks close others; unless
\* the program stops calling uv_run, or ends it with uv_stop before its first turn.
EveryCloseCompletes ==
    \/ \A h \in Handles : life[h] = "closing" ~> life[h] = "closed"
    \/ <>[](phase \in {"outside", "firstTimers"})
=============================================================================
