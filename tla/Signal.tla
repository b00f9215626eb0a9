--------------------------------- MODULE Signal ---------------------------------
(***************************************************************************)
(* Signal watchers: src/source/main/cpp/_darwin/signal.c.                  *)
(*                                                                         *)
(* A signal arrives at some thread; its handler writes a message for every *)
(* watcher of the signal into the pipe of the watcher's loop, and the loop *)
(* reads the pipe and calls the watchers.  The tree of all watchers, the   *)
(* handler's run and the changes of the kernel's dispositions are under    *)
(* the signal lock, which is taken with all signals blocked: each of these *)
(* critical sections is one step.                                          *)
(***************************************************************************)
EXTENDS Integers, FiniteSets, Queues, SequencesExt

CONSTANTS
    Handles,      \* the watchers
    Loops,        \* the loops, each run by its thread
    Homes,        \* the sets of loops that the watchers of a program live on
    Signums,
    None,
    PipeSize,     \* messages that fit a loop's pipe
    BatchSize,    \* the 32 messages that uv__signal_event reads at a time
    Raised,       \* bound: the signals that arrive
    MaxSignals,   \* bound: how often each of them does
    MaxForks      \* bound: forks

ASSUME SignalAssumption ==
    /\ IsFiniteSet(Handles) /\ IsFiniteSet(Signums)
    /\ Homes \subseteq SUBSET Loops
    /\ None \notin Signums
    /\ PipeSize \in Nat \ {0} /\ BatchSize \in Nat \ {0}
    /\ Raised \subseteq Signums /\ MaxSignals \in Nat /\ MaxForks \in Nat

VARIABLES
    loop,         \* [Handles]: handle->loop
    life,         \* [Handles]: "closed" (or never initialised), "open", "closing"
    signum,       \* [Handles]: handle->signum, or None
    oneshot,      \* the handles with UV_SIGNAL_ONE_SHOT
    caught,       \* [Handles]: handle->caught_signals
    dispatched,   \* [Handles]: handle->dispatched_signals
    tree,         \* the handles in uv__signal_tree
    disposition,  \* [Signums]: "default", "handler", "once" (SA_RESETHAND)
    arrived,      \* [Signums]: runs of the handler that wait for the signal lock
    pipe,         \* [Loops]: the messages in loop->signal_pipefd
    buf,          \* [Loops]: the messages uv__signal_event has read
    more,         \* [Loops]: the buffer was full
    pc,           \* [Loops]: "program", "dispatch", "callback"
    todo,         \* [Loops]: the uv_signal_start that is under way, or None
    arrivals, forks

handleVars == <<life, signum, oneshot, caught, dispatched>>
kernelVars == <<disposition, arrived>>
loopVars == <<pipe, buf, more, pc, todo>>
bounds == <<arrivals, forks>>
vars == <<loop, handleVars, tree, kernelVars, loopVars, bounds>>

Init ==
    /\ \E home \in Homes : loop \in [Handles -> home] /\ Range(loop) = home
    /\ life = [h \in Handles |-> "closed"]
    /\ signum = [h \in Handles |-> None]
    /\ oneshot = {} /\ tree = {}
    /\ caught = [h \in Handles |-> 0] /\ dispatched = [h \in Handles |-> 0]
    /\ disposition = [s \in Signums |-> "default"]
    /\ arrived = [s \in Signums |-> 0]
    /\ pipe = [l \in Loops |-> <<>>] /\ buf = [l \in Loops |-> <<>>]
    /\ more = [l \in Loops |-> FALSE]
    /\ pc = [l \in Loops |-> "program"] /\ todo = [l \in Loops |-> None]
    /\ arrivals = [s \in Signums |-> 0] /\ forks = 0

-----------------------------------------------------------------------------
(* The tree.  Watchers of a signal are adjacent, those without ONE_SHOT first. *)

Watchers(s) == {h \in tree : signum[h] = s}

\* uv__signal_first_handle is a one-shot handle: there is no regular one.
FirstIsOneshot(watchers) == watchers # {} /\ watchers \subseteq oneshot

\* The critical section of uv__signal_stop; the handle may not be watching.
Stopped(h) ==
    LET s == signum[h]
        others == Watchers(s) \ {h}
    IN IF s = None
       THEN UNCHANGED <<signum, tree, disposition>>
       ELSE /\ tree' = tree \ {h}
            /\ signum' = [signum EXCEPT ![h] = None]
            /\ disposition' =
                IF others = {} THEN [disposition EXCEPT ![s] = "default"]
                ELSE IF FirstIsOneshot(others) /\ h \notin oneshot
                     THEN [disposition EXCEPT ![s] = "once"]
                     ELSE disposition

\* Mutant: the disposition is set up for the first watcher only.
RegisteredForFirst(s, once) ==
    disposition' =
        IF Watchers(s) = {}
        THEN [disposition EXCEPT ![s] = IF once THEN "once" ELSE "handler"]
        ELSE disposition

\* uv__signal_register_handler, when uv__signal_start needs it.
Registered(s, once) ==
    disposition' =
        IF Watchers(s) = {} \/ (~once /\ FirstIsOneshot(Watchers(s)))
        THEN [disposition EXCEPT ![s] = IF once THEN "once" ELSE "handler"]
        ELSE disposition

-----------------------------------------------------------------------------
(* What the program does on a loop's thread, between polls and in callbacks. *)

Program(l) == pc[l] \in {"program", "callback"} /\ todo[l] = None

Own(l, h) == loop[h] = l /\ Program(l)

\* uv_signal_init
SignalInit(h) ==
    /\ Own(loop[h], h) /\ life[h] = "closed"
    /\ life' = [life EXCEPT ![h] = "open"]
    /\ oneshot' = oneshot \ {h}
    /\ caught' = [caught EXCEPT ![h] = 0] /\ dispatched' = [dispatched EXCEPT ![h] = 0]
    /\ UNCHANGED <<loop, signum, tree, kernelVars, loopVars, bounds>>

\* uv__signal_start up to its critical section: a handle that watches another
\* signal is stopped first; nothing to do if it watches this one.
Start(h, s, once) ==
    /\ Own(loop[h], h) /\ life[h] = "open" /\ signum[h] # s
    /\ Stopped(h)
    /\ todo' = [todo EXCEPT ![loop[h]] = [handle |-> h, signum |-> s, once |-> once]]
    /\ UNCHANGED <<loop, life, oneshot, caught, dispatched, arrived, pipe, buf, more, pc, bounds>>

\* The critical section of uv__signal_start.
StartLocked(l) ==
    /\ todo[l] # None
    /\ LET h == todo[l].handle
           s == todo[l].signum
       IN /\ Registered(s, todo[l].once)
          /\ signum' = [signum EXCEPT ![h] = s]
          /\ oneshot' = IF todo[l].once THEN oneshot \union {h} ELSE oneshot
          /\ tree' = tree \union {h}
    /\ todo' = [todo EXCEPT ![l] = None]
    /\ UNCHANGED <<loop, life, caught, dispatched, arrived, pipe, buf, more, pc, bounds>>

\* uv_signal_stop
Stop(h) ==
    /\ Own(loop[h], h) /\ life[h] = "open" /\ signum[h] # None
    /\ Stopped(h)
    /\ UNCHANGED <<loop, life, oneshot, caught, dispatched, arrived, loopVars, bounds>>

\* Mutant: the handle stays in the tree.
CloseWatching(h) ==
    /\ Own(loop[h], h) /\ life[h] = "open"
    /\ life' = [life EXCEPT ![h] = "closing"]
    /\ UNCHANGED <<loop, signum, oneshot, caught, dispatched, tree, kernelVars, loopVars, bounds>>

\* uv_close, uv__signal_close
Close(h) ==
    /\ Own(loop[h], h) /\ life[h] = "open"
    /\ life' = [life EXCEPT ![h] = "closing"]
    /\ Stopped(h)
    /\ UNCHANGED <<loop, oneshot, caught, dispatched, arrived, loopVars, bounds>>

-----------------------------------------------------------------------------
(* Signals *)

\* The kernel starts the handler on some thread; SA_RESETHAND takes effect now,
\* the handler's critical section comes later.
Arrive(s) ==
    /\ s \in Raised /\ arrivals[s] < MaxSignals /\ disposition[s] # "default"
    /\ arrivals' = [arrivals EXCEPT ![s] = @ + 1]
    /\ disposition' = IF disposition[s] = "once" THEN [disposition EXCEPT ![s] = "default"]
                                                 ELSE disposition
    /\ arrived' = [arrived EXCEPT ![s] = @ + 1]
    /\ UNCHANGED <<loop, handleVars, tree, loopVars, forks>>

\* The handler writes the watchers' messages in the order of the tree: for each
\* loop, regular watchers before the one-shot ones.
InTreeOrder(order, watchers) ==
    /\ order \in SetToSeqs(watchers)
    /\ \A i, j \in DOMAIN order : i < j => ~(order[i] \in oneshot /\ order[j] \notin oneshot)

\* For each loop the watchers of s in an order that the tree may have them in.
TreeOrders(s) ==
    {order \in [Loops -> UNION {SetToSeqs(watchers) : watchers \in SUBSET Watchers(s)}] :
        \A l \in Loops : InTreeOrder(order[l], {h \in Watchers(s) : loop[h] = l})}

\* The watchers that get a message into the pipe of their loop.  A message that
\* finds the pipe full is lost.
Written(order, l) ==
    [i \in {i \in DOMAIN order : Len(pipe[l]) + i <= PipeSize} |-> order[i]]

\* Mutant: a message is counted whether it was written or not.
CaughtBy(order) == UNION {Range(order[l]) : l \in Loops}

\* The handles whose caught_signals is incremented.
Caught(order) == UNION {Range(Written(order[l], l)) : l \in Loops}

\* uv__signal_handler, under the signal lock.
Handler(s) ==
    /\ arrived[s] > 0
    /\ arrived' = [arrived EXCEPT ![s] = @ - 1]
    /\ \E order \in TreeOrders(s) :
        /\ pipe' = [l \in Loops |->
            LET news == Written(order[l], l) IN
            pipe[l] \o [i \in DOMAIN news |-> [handle |-> news[i], signum |-> s]]]
        /\ caught' = [h \in Handles |-> IF h \in Caught(order) THEN caught[h] + 1 ELSE caught[h]]
    /\ UNCHANGED <<loop, life, signum, oneshot, dispatched, tree, disposition, buf, more, pc,
                   todo, bounds>>

-----------------------------------------------------------------------------
(* uv__signal_event *)

\* The poll reports the pipe, or the buffer was full: read up to BatchSize
\* messages.
Read(l) ==
    /\ \/ pc[l] = "program" /\ todo[l] = None /\ pipe[l] # <<>>
       \/ pc[l] = "dispatch" /\ buf[l] = <<>> /\ more[l]
    /\ LET n == IF Len(pipe[l]) < BatchSize THEN Len(pipe[l]) ELSE BatchSize IN
       /\ buf' = [buf EXCEPT ![l] = SubSeq(pipe[l], 1, n)]
       /\ pipe' = [pipe EXCEPT ![l] = SubSeq(@, n + 1, Len(@))]
       /\ more' = [more EXCEPT ![l] = (n = BatchSize)]
    /\ pc' = [pc EXCEPT ![l] = "dispatch"]
    /\ UNCHANGED <<loop, handleVars, tree, kernelVars, todo, bounds>>

\* A message for the signal that its handle watches: call it.
Dispatch(l) ==
    /\ pc[l] = "dispatch" /\ buf[l] # <<>>
    /\ Head(buf[l]).signum = signum[Head(buf[l]).handle]
    /\ pc' = [pc EXCEPT ![l] = "callback"]
    /\ UNCHANGED <<loop, handleVars, tree, kernelVars, pipe, buf, more, todo, bounds>>

\* The rest of the loop body: the message is dispatched, a one-shot handle stops.
Dispatched(l) ==
    LET h == Head(buf[l]).handle IN
    /\ dispatched' = [dispatched EXCEPT ![h] = @ + 1]
    /\ IF h \in oneshot THEN Stopped(h) ELSE UNCHANGED <<signum, tree, disposition>>
    /\ buf' = [buf EXCEPT ![l] = Tail(@)]
    /\ pc' = [pc EXCEPT ![l] = "dispatch"]
    /\ UNCHANGED <<loop, life, oneshot, caught, arrived, pipe, more, todo, bounds>>

\* Mutant: a message that is not delivered is not counted.
DropUncounted(l) ==
    /\ pc[l] = "dispatch" /\ buf[l] # <<>>
    /\ Head(buf[l]).signum # signum[Head(buf[l]).handle]
    /\ buf' = [buf EXCEPT ![l] = Tail(@)]
    /\ UNCHANGED <<loop, handleVars, tree, kernelVars, pipe, more, pc, todo, bounds>>

\* A message for a handle that does not watch the signal any more.
Drop(l) ==
    /\ pc[l] = "dispatch" /\ buf[l] # <<>>
    /\ Head(buf[l]).signum # signum[Head(buf[l]).handle]
    /\ Dispatched(l)

CallbackReturns(l) ==
    /\ pc[l] = "callback" /\ todo[l] = None
    /\ Dispatched(l)

\* uv__signal_event returns.
Return(l) ==
    /\ pc[l] = "dispatch" /\ buf[l] = <<>> /\ ~more[l]
    /\ pc' = [pc EXCEPT ![l] = "program"]
    /\ UNCHANGED <<loop, handleVars, tree, kernelVars, pipe, buf, more, todo, bounds>>

\* Mutant: the close callbacks are called at the next opportunity.
FinishCloseAtOnce(l) ==
    LET done == {h \in Handles : loop[h] = l /\ life[h] = "closing"} IN
    /\ pc[l] = "program" /\ todo[l] = None /\ done # {}
    /\ life' = [h \in Handles |-> IF h \in done THEN "closed" ELSE life[h]]
    /\ UNCHANGED <<loop, signum, oneshot, caught, dispatched, tree, kernelVars, loopVars, bounds>>

\* uv__finish_close in the closing phase of the loop: a handle with messages on
\* their way goes back to the closing list.
FinishClose(l) ==
    LET done == {h \in Handles :
                    loop[h] = l /\ life[h] = "closing" /\ ~(caught[h] > dispatched[h])} IN
    /\ pc[l] = "program" /\ todo[l] = None /\ done # {}
    /\ life' = [h \in Handles |-> IF h \in done THEN "closed" ELSE life[h]]
    /\ UNCHANGED <<loop, signum, oneshot, caught, dispatched, tree, kernelVars, loopVars, bounds>>

\* fork() and, in the child, uv_loop_fork on every loop: new pipes, and the
\* counts start again.  Handlers on other threads do not exist in the child, and
\* the signal lock is made anew (uv__signal_global_reinit).
Fork ==
    /\ forks < MaxForks
    /\ \A l \in Loops : pc[l] = "program" /\ todo[l] = None
    /\ forks' = forks + 1
    /\ pipe' = [l \in Loops |-> <<>>]
    /\ caught' = [h \in Handles |-> IF life[h] = "closed" THEN caught[h] ELSE 0]
    /\ dispatched' = [h \in Handles |-> IF life[h] = "closed" THEN dispatched[h] ELSE 0]
    /\ arrived' = [s \in Signums |-> 0]
    /\ UNCHANGED <<loop, life, signum, oneshot, tree, disposition, buf, more, pc, todo, arrivals>>

-----------------------------------------------------------------------------
\* uv__signal_event and the callbacks it calls.
Polling(l) == Read(l) \/ Dispatch(l) \/ Drop(l) \/ CallbackReturns(l) \/ Return(l)

Next ==
    \/ \E h \in Handles : SignalInit(h) \/ Stop(h) \/ Close(h)
    \/ \E h \in Handles, s \in Signums, once \in BOOLEAN : Start(h, s, once)
    \/ \E s \in Signums : Arrive(s) \/ Handler(s)
    \/ \E l \in Loops : Polling(l) \/ StartLocked(l) \/ FinishClose(l)
    \/ Fork

Spec == Init /\ [][Next]_vars

(***************************************************************************)
(* Every loop takes turns: whatever the program does in between, the loop  *)
(* polls again and again, its callbacks return and it runs its closing     *)
(* handles.                                                                *)
(***************************************************************************)
Fairness ==
    \A l \in Loops : SF_vars(Polling(l)) /\ SF_vars(FinishClose(l)) /\ WF_vars(StartLocked(l))

FairSpec == Spec /\ Fairness

-----------------------------------------------------------------------------
(* Properties *)

Message == [handle : Handles, signum : Signums]
Starting == [handle : Handles, signum : Signums, once : BOOLEAN]

\* Every variable has its type, and the tree holds open handles that watch.
TypeOK ==
    /\ loop \in [Handles -> Loops]
    /\ life \in [Handles -> {"closed", "open", "closing"}]
    /\ signum \in [Handles -> Signums \union {None}]
    /\ oneshot \subseteq Handles
    /\ caught \in [Handles -> Nat] /\ dispatched \in [Handles -> Nat]
    /\ disposition \in [Signums -> {"default", "handler", "once"}]
    /\ arrived \in [Signums -> Nat]
    /\ pipe \in [Loops -> Seq(Message)] /\ buf \in [Loops -> Seq(Message)]
    /\ more \in [Loops -> BOOLEAN]
    /\ pc \in [Loops -> {"program", "dispatch", "callback"}]
    /\ todo \in [Loops -> Starting \union {None}]
    /\ tree = {h \in Handles : signum[h] # None}
    /\ \A h \in tree : life[h] = "open"

\* The messages that are on their way to h: "trapped in the signal pipe"
\* (core.c:331), or in the buffer of uv__signal_event.
Trapped(h) ==
    LET way == buf[loop[h]] \o pipe[loop[h]] IN
    Cardinality({i \in DOMAIN way : way[i].handle = h})

\* The two counters of a handle tell exactly how many messages are on their way,
\* through restarts, full pipes and forks.
CountsAreExact ==
    \A h \in Handles : life[h] # "closed" => caught[h] = dispatched[h] + Trapped(h)

\* After the close callback, which may free the handle, no message points to it.
NoDanglingMessages == \A h \in Handles : life[h] = "closed" => Trapped(h) = 0

\* A regular watcher keeps its signal handled for good, whatever one-shot
\* watchers of the same signal come, fire and go on whatever loop, and a signal
\* without watchers has its default disposition again (signal.c:408-421, 558-572).
RegularIsHandled ==
    /\ \A h \in tree \ oneshot : disposition[signum[h]] = "handler"
    /\ \A s \in Signums : Watchers(s) = {} => disposition[s] = "default"

\* Every uv_close of a watcher ends in the close callback: the messages it has to
\* wait for are dispatched.
EveryCloseCompletes == \A h \in Handles : life[h] = "closing" ~> life[h] = "closed"

\* A signal has its handler as long as there are watchers (signal.c:558-559: only
\* if there are no "other active signal watchers observing this signal" the
\* handler is unregistered), unless the watcher is about to be called.
WatchedIsHandled ==
    \A h \in tree :
        arrived[signum[h]] = 0 /\ Trapped(h) = 0 => disposition[signum[h]] # "default"
=============================================================================
