------------------------------- MODULE SelectThread -------------------------------
(***************************************************************************)
(* Streams that kqueue refuses: src/source/main/cpp/_darwin/stream.c,      *)
(* uv__stream_try_select and what it starts.  A thread of the stream's own *)
(* sits in select(2) on the descriptor and on a socket pair through which  *)
(* the loop thread interrupts it; it reports events through an async       *)
(* handle and waits on a semaphore until they are dealt with.              *)
(***************************************************************************)
EXTENDS Integers, FiniteSets

CONSTANTS
    ReadBuf,   \* sizeof(buf) in uv__stream_osx_select (1024)
    MaxBytes   \* bound on the interrupts the thread has not read

VARIABLE sel

Events == {"IN", "OUT"}

\* uv__stream_try_select once it has started the thread.
Init == sel =
    [tpc |-> "top", asked |-> {}, events |-> {}, close_sem |-> 0, async_sem |-> 0,
     bytes |-> 0, async |-> FALSE, ready |-> {}, watch |-> {}, todo |-> {},
     lpc |-> "program", closing |-> FALSE, broken |-> FALSE]

-----------------------------------------------------------------------------
(* The thread: uv__stream_osx_select *)

Top ==
    /\ sel.tpc = "top"
    /\ sel' = IF sel.close_sem > 0 THEN [sel EXCEPT !.tpc = "exit", !.close_sem = @ - 1]
              ELSE [sel EXCEPT !.tpc = "select", !.asked = sel.watch]

\* select returns: what was asked for and is ready, and the interrupt descriptor.
Select ==
    /\ sel.tpc = "select" /\ (sel.bytes > 0 \/ sel.asked \cap sel.ready # {})
    /\ sel' = [sel EXCEPT !.tpc = IF sel.bytes > 0 THEN "drain" ELSE "report",
                          !.asked = @ \cap sel.ready]

\* Mutant: one byte is read, whatever the number of interrupts.
ReadsOne == 1

\* How much one read takes.
Reads == IF sel.bytes < ReadBuf THEN sel.bytes ELSE ReadBuf

\* The loop that empties the pair: a read that fills the buffer is followed by another,
\* which waits for the next interrupt when there was no more.
Drain ==
    /\ sel.tpc = "drain" /\ sel.bytes > 0
    /\ sel' = [sel EXCEPT !.bytes = @ - Reads,
                          !.tpc = IF Reads = ReadBuf THEN "drain" ELSE "report"]

\* The rest of a turn: tell the loop thread, if there is something to tell.
Report ==
    /\ sel.tpc = "report"
    /\ sel' = IF sel.asked = {} THEN [sel EXCEPT !.tpc = "top"]
              ELSE [sel EXCEPT !.events = sel.asked, !.async = TRUE, !.tpc = "wait"]

\* uv_sem_wait(&s->async_sem) and the assertion behind it.
Wait ==
    /\ sel.tpc = "wait" /\ sel.async_sem > 0
    /\ sel' = [sel EXCEPT !.async_sem = @ - 1, !.tpc = "top",
                          !.broken = @ \/ ~(sel.events = {} \/ sel.closing)]

Thread == Top \/ Select \/ Drain \/ Report \/ Wait

-----------------------------------------------------------------------------
(* The loop thread *)

Program == sel.lpc \in {"program", "in", "out"} /\ ~sel.closing

\* uv__read_start, uv_read_stop, uv__write and uv__drain change what is watched and then
\* call uv__stream_osx_interrupt_select.
Watch(e) ==
    /\ Program /\ sel.lpc = "program" /\ sel.bytes < MaxBytes
    /\ sel' = [sel EXCEPT !.lpc = "interrupt",
                          !.watch = IF e \in @ THEN @ \ {e} ELSE @ \union {e}]

Interrupt ==
    /\ sel.lpc = "interrupt"
    /\ sel' = [sel EXCEPT !.bytes = @ + 1, !.lpc = "program"]

\* uv__stream_osx_select_cb: it takes the events, asserting that there are some.
SelectCb ==
    /\ sel.lpc = "program" /\ sel.async /\ ~sel.closing
    /\ sel' = [sel EXCEPT !.async = FALSE, !.todo = sel.events, !.events = {}, !.lpc = "in",
                          !.broken = @ \/ sel.events = {}]

\* uv__stream_io for an event that is still watched; its callbacks may do anything.
Handle(at, e, next) ==
    /\ sel.lpc = at /\ ~sel.closing
    /\ \E w \in {sel.watch, sel.watch \ {e}} :
        sel' = [sel EXCEPT
            !.ready = IF e \in sel.todo \cap sel.watch THEN @ \ {e} ELSE @,
            !.watch = IF e \in sel.todo THEN w ELSE @,
            !.lpc = next]

HandleIn == Handle("in", "IN", "out")
HandleOut == Handle("out", "OUT", "post")

\* The thread may go on.
Post ==
    /\ sel.lpc = "post"
    /\ sel' = [sel EXCEPT !.async_sem = @ + 1, !.lpc = "program"]

\* Mutant: the two semaphores of uv__stream_close are posted the other way round.
AsyncFirst == "async_sem"

\* The semaphore that uv__stream_close posts first.
FirstSem == "close_sem"

\* uv_close and uv__stream_close up to the first uv_sem_post, also from a callback,
Close ==
    /\ Program
    /\ sel' = [sel EXCEPT !.closing = TRUE, ![FirstSem] = @ + 1, !.lpc = "close2"]

\* the second,
CloseSem ==
    /\ sel.lpc = "close2"
    /\ LET second == CHOOSE s \in {"close_sem", "async_sem"} : s # FirstSem IN
        sel' = [sel EXCEPT ![second] = @ + 1, !.lpc = "close3"]

\* the interrupt,
CloseInterrupt ==
    /\ sel.lpc = "close3"
    /\ sel' = [sel EXCEPT !.bytes = @ + 1, !.lpc = "join"]

\* and uv_thread_join, behind which the semaphores, the pair and the async handle go away.
Join ==
    /\ sel.lpc = "join" /\ sel.tpc = "exit"
    /\ sel' = [sel EXCEPT !.lpc = "closed", !.watch = {}, !.async = FALSE, !.bytes = 0]

\* The world: the descriptor becomes ready.
Ready(e) == ~sel.closing /\ e \notin sel.ready /\ sel' = [sel EXCEPT !.ready = @ \union {e}]

LoopThread == Interrupt \/ SelectCb \/ HandleIn \/ HandleOut \/ Post
              \/ CloseSem \/ CloseInterrupt \/ Join

Next == Thread \/ LoopThread \/ Close \/ \E e \in Events : Watch(e) \/ Ready(e)

Spec == Init /\ [][Next]_sel

-----------------------------------------------------------------------------
(* Properties *)

TypeOK ==
    /\ sel.tpc \in {"top", "select", "drain", "report", "wait", "exit"}
    /\ sel.lpc \in {"program", "interrupt", "in", "out", "post", "close2", "close3", "join", "closed"}
    /\ sel.events \subseteq Events /\ sel.asked \subseteq Events
    /\ sel.close_sem \in 0..1 /\ sel.async_sem \in 0..2 /\ sel.bytes \in 0..MaxBytes + 1

\* The assertions of uv__stream_osx_select and uv__stream_osx_select_cb: a wakeup of the
\* async handle always finds events, and the thread always finds them taken.
AssertsHold == ~sel.broken

\* While the thread sits in select, whatever the stream watches is asked for, or the
\* interrupt that makes it ask again is there.
NothingStranded == (sel.tpc = "select" /\ sel.lpc \in {"program", "in", "out", "post"}) =>
    sel.watch \subseteq sel.asked \/ sel.bytes > 0

\* The thread waits for its events to be taken only while they will be: somebody has
\* posted, is about to, or the async handle is signalled.
HandsOver == sel.tpc = "wait" =>
    \/ sel.async_sem > 0 \/ (sel.async /\ ~sel.closing)
    \/ sel.lpc \in {"in", "out", "post", "close2"}

\* uv_close ends: the thread it joins never stays in select or at its semaphore.
CloseReturns == sel.closing ~> sel.lpc = "closed"

FairSpec == Spec /\ WF_sel(Thread) /\ WF_sel(LoopThread)
=============================================================================
