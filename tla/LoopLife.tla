-------------------------------- MODULE LoopLife --------------------------------
(***************************************************************************)
(* The life of a loop: uv_loop_init, uv_loop_fork, uv__loop_close of        *)
(* _darwin/loop.c with what they acquire in kqueue.c, signal.c, async.c    *)
(* and process.c; uv_loop_new, uv_default_loop, uv_loop_close,             *)
(* uv_loop_delete and uv_walk of uv-common.c.                              *)
(***************************************************************************)
EXTENDS Integers, FiniteSets, Queues

CONSTANTS
    Names,       \* the handles that the program may make
    MaxNest      \* bound: how deep walks are nested

VARIABLE loops

\* What a loop holds, in the order uv_loop_init acquires it; the rest comes later.
InitOrder == <<"fields", "metrics lock", "backend_fd", "signal pipe", "cloexec_lock",
               "wq_mutex", "async fd">>
Later == {"emfile_fd", "cf_state"}

\* Watchers that the loop itself has, and one for the program's.
Owners == {"async", "signal", "user"}

\* alive are the program's handles; handles is loop->handle_queue; walks are the local queues of the uv_walk calls under way,
\* the innermost first, and due what the outermost has still to see.
Init == \E heap \in BOOLEAN : loops =
    [heap |-> heap, alive |-> {}, memory |-> FALSE, default |-> FALSE, up |-> FALSE, have |-> {}, lost |-> {},
     handles |-> <<>>, closing |-> {}, reqs |-> 0, walks |-> <<>>, due |-> {},
     registered |-> {}, waiting |-> {}, interest |-> {}, broken |-> FALSE]

-----------------------------------------------------------------------------
(* uv_loop_init *)

\* Mutant: the label of a failed uv_async_init leaves the mutex.
ReleasedAtMutex(i) == IF i = 7 THEN {} ELSE {}

\* What the failure label of step i releases before it falls through to the next one.
ReleasedAt(i) ==
    CASE i = 7 -> {"wq_mutex"}
      [] i = 6 -> {"cloexec_lock"}
      [] i = 4 -> {"signal pipe", "backend_fd"}
      [] i = 3 -> {"metrics lock"}
      [] i = 2 -> {"fields"}
      [] OTHER -> {}

\* The labels from that of step i on; steps 4 and 5 share one.
Undone(i) == UNION {ReleasedAt(j) : j \in 1..i}

\* uv_loop_init, called by the program (into memory of its own), by uv_default_loop, or by
\* uv_loop_new, which frees the memory again.
LoopInit ==
    /\ ~loops.up /\ loops.lost = {}
    /\ loops' = [loops EXCEPT !.up = TRUE, !.have = Range(InitOrder), !.memory = loops.heap,
                            !.default = ~loops.heap, !.handles = <<"child_watcher", "wq_async">>,
                            !.closing = {}, !.registered = {}, !.waiting = {"async", "signal"},
                            !.interest = {"async", "signal"}, !.broken = FALSE]

\* uv_loop_init that fails at step i, which itself leaves nothing behind: what it had by then is
\* given back.  (The async descriptor that kevent refuses does stay open: async.c:299.)
LoopInitFails ==
    /\ ~loops.up /\ loops.lost = {}
    /\ \E i \in DOMAIN InitOrder :
        loops' = [loops EXCEPT !.lost = Range(SubSeq(InitOrder, 1, i - 1)) \ Undone(i)]

Internal == {"child_watcher", "wq_async"}
Running == loops.up /\ ~loops.broken

\* What comes later: the spare descriptor of uv__stream_init, the thread for file events.
Acquire(r) == Running /\ r \notin loops.have /\ loops' = [loops EXCEPT !.have = @ \union {r}]

\* A watcher of the program; uv__io_poll registers those that wait.
Watch == Running /\ "user" \notin loops.interest
    /\ loops' = [loops EXCEPT !.interest = @ \union {"user"}, !.waiting = @ \union {"user"}]

Poll ==
    /\ Running /\ loops.walks = <<>>
    /\ loops' = [loops EXCEPT !.registered = @ \union loops.waiting, !.waiting = {}]

-----------------------------------------------------------------------------
(* uv_loop_fork, in the child *)

\* Mutant: only the loop's own watchers are armed again.
OwnWatchers(l, kept) == l.waiting \union (kept \intersect {"async", "signal"})

\* The last loop of uv_loop_fork: every watcher with an interest waits to be registered.
Rearmed(l, kept) == l.waiting \union kept

\* uv__io_fork makes another kqueue, which knows no watcher, and forgets the thread for file
\* events, which the child does not have; uv__async_fork and uv__signal_loop_fork replace
\* their descriptors.  After a failure the loop is good for nothing.
Fork ==
    /\ Running /\ loops.walks = <<>>
    /\ \/ loops' = [loops EXCEPT !.have = @ \ {"cf_state"}, !.registered = {},
                               !.waiting = Rearmed(loops, loops.interest)]
       \/ loops' = [loops EXCEPT !.broken = TRUE]

-----------------------------------------------------------------------------
(* Handles, and uv_walk *)

\* uv__handle_init and uv_close; uv__finish_close takes a handle out of the queue.
MakeHandle(h) ==
    /\ Running /\ h \notin loops.alive
    /\ loops' = [loops EXCEPT !.alive = @ \union {h}, !.handles = Append(@, h)]

CloseHandle(h) ==
    /\ Running /\ h \in loops.alive \ loops.closing
    /\ loops' = [loops EXCEPT !.closing = @ \union {h}]

FinishClose(h) ==
    /\ Running /\ h \in loops.closing /\ loops.walks = <<>>
    /\ loops' = [loops EXCEPT !.closing = @ \ {h}, !.alive = @ \ {h}, !.handles = Unlink(@, h)]

\* A request is registered, or finishes.
Request == Running /\ loops.walks = <<>> /\ loops' = [loops EXCEPT !.reqs = 1 - @]

\* uv_walk moves the handles to a queue of its own.
Walk ==
    /\ Running /\ Len(loops.walks) < MaxNest
    /\ loops' = [loops EXCEPT !.walks = <<loops.handles>> \o @, !.handles = <<>>,
         !.due = IF loops.walks = <<>> THEN Range(loops.handles) \ Internal ELSE @]

\* Mutant: a handle that was called stays at the head of the queue.
NotMoved(l, h) == l.handles

\* Where a handle that is called goes: to the tail of the loop's queue.
MovedBack(l, h) == Append(l.handles, h)

\* One round of the loop of uv_walk, up to and with the call of walk_cb.
WalkOn ==
    /\ Running /\ loops.walks # <<>> /\ Head(loops.walks) # <<>>
    /\ LET h == Head(Head(loops.walks))
       IN loops' = [loops EXCEPT !.handles = MovedBack(loops, h), !.walks[1] = Tail(@),
                               !.due = IF Len(loops.walks) = 1 THEN @ \ {h} ELSE @]

WalkEnds ==
    /\ Running /\ loops.walks # <<>> /\ Head(loops.walks) = <<>>
    /\ loops' = [loops EXCEPT !.walks = Tail(@)]

-----------------------------------------------------------------------------
(* uv_loop_close, uv_loop_delete *)

\* Mutant: handles that are closing do not count.
NobodyOpen(l) == \A h \in Range(l.handles) \ Internal : h \in l.closing

\* uv_loop_close is refused while a handle that is not internal is in the queue.
Empty(l) == Range(l.handles) \subseteq Internal

\* uv_loop_close with uv__loop_close; uv_loop_delete frees the loop of uv_loop_new as well.
LoopClose ==
    /\ Running /\ loops.walks = <<>> /\ loops.reqs = 0 /\ Empty(loops)
    /\ loops' = [loops EXCEPT !.up = FALSE, !.default = FALSE, !.memory = FALSE,
           !.have = @ \ (Range(InitOrder) \union Later), !.registered = {},
           !.waiting = {}, !.interest = {}, !.handles = <<>>]

Next ==
    \/ LoopInit \/ LoopInitFails \/ Watch \/ Poll \/ Fork \/ Request
    \/ \E r \in Later : Acquire(r)
    \/ \E h \in Names : MakeHandle(h) \/ CloseHandle(h) \/ FinishClose(h)
    \/ Walk \/ WalkOn \/ WalkEnds \/ LoopClose

Spec == Init /\ [][Next]_loops

-----------------------------------------------------------------------------
(* Properties *)

TypeOK ==
    /\ loops.have \subseteq Range(InitOrder) \union Later /\ loops.reqs \in {0, 1}
    /\ loops.registered \subseteq Owners /\ loops.waiting \subseteq Owners

\* A loop that could not be made, or was closed, holds nothing: whichever step of uv_loop_init
\* failed, but for the async descriptor that kevent refused.  No handle is left behind.
ClosedIsClean == ~loops.up =>
    loops.have = {} /\ loops.lost = {} /\ ~loops.memory /\ ~loops.default /\ loops.alive = {}

\* Every watcher of the loop is registered with its kqueue or will be before it sleeps, in the
\* child of a fork too.
NothingStranded == Running =>
    loops.interest \subseteq loops.registered \union loops.waiting

\* While handles are walked none is lost or doubled, and the walk still has before it every
\* handle it has not seen, whatever walk_cb starts, closes or walks itself.
CountsAreExact == Running =>
    LET queue(k) == IF k = 0 THEN loops.handles ELSE loops.walks[k]
        queues == 0..Len(loops.walks)
    IN /\ \A k \in queues : Distinct(queue(k))
       /\ \A k, m \in queues : k # m => Range(queue(k)) \cap Range(queue(m)) = {}
       /\ UNION {Range(queue(k)) : k \in queues} = loops.alive \union Internal
       /\ loops.due \subseteq IF loops.walks = <<>> THEN {} ELSE Range(loops.walks[Len(loops.walks)])
=============================================================================
