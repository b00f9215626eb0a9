--------------------------------- MODULE Kqueue ---------------------------------
(***************************************************************************)
(* Watchers and the kernel: uv__io_start, uv__io_stop, uv__io_close of     *)
(* src/source/main/cpp/_darwin/core.c, uv__io_poll of kqueue.c and the     *)
(* poll handles of poll.c.                                                 *)
(*                                                                         *)
(* The kernel keeps a set of filters, hands over some of those that are    *)
(* ready as one array, and uv__io_poll walks the array calling back.  A    *)
(* callback may stop, close and reopen any watcher, so that a later entry  *)
(* of the array may speak of a file that is gone and whose descriptor is   *)
(* in use again.                                                           *)
(***************************************************************************)
EXTENDS Integers, FiniteSets, Queues

CONSTANTS
    Watchers, PollHandles,  \* uv__io_t of streams and the like, and of uv_poll_t
    Fds,                    \* 1..n, also the process ids of children
    Full                    \* ARRAY_SIZE(events) (1024)

VARIABLE kq

All == Watchers \union PollHandles
Masks == {"IN", "OUT"}
NULL == "null"

\* uv__io_init; the pending SIGCHLD-like events of children have the same numbers as files.
Init == kq =
    [pc |-> "program", nw |-> 0, list |-> 0, fd |-> [w \in All |-> 0],
     pevents |-> [w \in All |-> {}], events |-> [w \in All |-> {}],
     watchers |-> [f \in Fds |-> NULL], queue |-> <<>>, nfds |-> 0,
     filters |-> {}, batch |-> <<>>, full |-> FALSE, reap |-> FALSE, children |-> 0,
     deleted |-> {}, wrong |-> FALSE]

-----------------------------------------------------------------------------
(* core.c *)

\* The powers of two, as far as there are descriptors.
Powers == {1, 2, 4, 8, 16, 32, 64, 128, 256, 512, 1024, 2048, 4096, 8192, 16384, 32768, 65536,
    131072, 262144, 524288, 1048576, 2097152, 4194304, 8388608, 16777216, 33554432, 67108864,
    134217728, 268435456, 536870912, 1073741824}

\* next_power_of_two
NextPowerOfTwo(n) == CHOOSE p \in Powers : p >= n /\ p < 2 * n

\* Mutant: the pointer to the array stays where it was.
ListForgotten(k, nw) == k.list

\* Where maybe_resize puts loop->watchers[nwatchers], the pointer to the array that is
\* being walked.
ListMoved(k, nw) == IF k.list = 0 THEN 0 ELSE nw

\* maybe_resize
Resized(k, len) ==
    IF len <= k.nw THEN k
    ELSE LET nw == NextPowerOfTwo(len + 2) - 2
         IN [k EXCEPT !.nw = nw, !.list = ListMoved(k, nw)]

Enqueue(k, w) == IF w \in Range(k.queue) THEN k ELSE [k EXCEPT !.queue = Append(@, w)]

\* uv__io_start: nothing to do when the events are those already registered.
IoStart(k, w, mask) ==
    LET a == Resized([k EXCEPT !.pevents[w] = @ \union mask], k.fd[w] + 1)
        b == Enqueue(a, w)
    IN IF a.events[w] = a.pevents[w] THEN a
       ELSE IF b.watchers[b.fd[w]] # NULL THEN b
       ELSE [b EXCEPT !.watchers[b.fd[w]] = w, !.nfds = @ + 1]

\* Mutant: the watcher stays in watcher_queue.
StaysQueued(k, w) == k.queue

\* What uv__io_stop leaves of watcher_queue when nothing is watched any more.
Dequeued(k, w) == Unlink(k.queue, w)

\* uv__io_stop
IoStop(k, w, mask) ==
    LET f == k.fd[w]
        a == [k EXCEPT !.pevents[w] = @ \ mask]
    IN IF f = 0 \/ f >= k.nw THEN k
       ELSE IF a.pevents[w] # {} THEN Enqueue(a, w)
       ELSE [a EXCEPT !.queue = Dequeued(k, w), !.events[w] = {},
                      !.deleted = {d \in @ : d[1] # w},
                      !.nfds = IF a.watchers[f] = w THEN @ - 1 ELSE @,
                      !.watchers[f] = IF @ = w THEN NULL ELSE @]

\* Mutant: the exit of a child with the number of the descriptor is thrown away too.
AnyFilter(e) == TRUE

\* The events that speak of files.
OfFile(e) == e.filter # "PROC"

\* uv__platform_invalidate_fd: strike the descriptor from the array that is being walked.
Invalidate(k, f) ==
    IF k.list # k.nw \/ k.list = 0 THEN k
    ELSE [k EXCEPT !.batch = [i \in DOMAIN @ |->
             IF @[i].fd = f /\ OfFile(@[i]) THEN [@[i] EXCEPT !.fd = -1] ELSE @[i]]]

\* uv__io_close followed by close(fd), after which the kernel knows nothing of the file.
Closed(k, w) ==
    LET f == k.fd[w]
        a == Invalidate(IoStop(k, w, Masks), f)
    IN [a EXCEPT !.fd[w] = 0, !.filters = {x \in @ : x[1] # f},
                 !.batch = [i \in DOMAIN @ |->
                     IF @[i].fd = f /\ @[i].filter # "PROC"
                     THEN [@[i] EXCEPT !.stale = TRUE] ELSE @[i]]]

-----------------------------------------------------------------------------
(* The program, between two polls and in callbacks *)

Program == kq.pc \in {"program", "callback"}

\* A socket is made, or uv_poll_init is given one that no watcher uses.
Open(w) ==
    /\ Program /\ kq.fd[w] = 0
    /\ \E f \in {f \in Fds : \A v \in All : kq.fd[v] # f} : kq' = [kq EXCEPT !.fd[w] = f]

Start(w, e) ==
    /\ Program /\ w \in Watchers /\ kq.fd[w] # 0 /\ e \notin kq.pevents[w]
    /\ kq' = IoStart(kq, w, {e})

Stop(w, e) ==
    /\ Program /\ w \in Watchers /\ e \in kq.pevents[w]
    /\ kq' = IoStop(kq, w, {e})

Close(w) == Program /\ kq.fd[w] # 0 /\ kq' = Closed(kq, w)

\* uv__poll_stop, for uv_poll_stop and uv__poll_close; the file stays open.
PollStopped(k, w) == Invalidate(IoStop(k, w, Masks), k.fd[w])

PollStop(w) == Program /\ w \in PollHandles /\ kq.fd[w] # 0 /\ kq.nw > 0 /\ kq' = PollStopped(kq, w)

\* uv_poll_start: everything is stopped and started afresh.
PollStart(w, mask) ==
    /\ Program /\ w \in PollHandles /\ kq.fd[w] # 0 /\ kq.nw > 0
    /\ kq.watchers[kq.fd[w]] \in {NULL, w}
    /\ kq' = IF mask = {} THEN PollStopped(kq, w) ELSE IoStart(PollStopped(kq, w), w, mask)

-----------------------------------------------------------------------------
(* uv__io_poll *)

\* The registration of what watcher_queue holds.
Register ==
    /\ kq.pc = "program" /\ kq.nfds > 0
    /\ LET new == {x \in Range(kq.queue) \X Masks : x[2] \in kq.pevents[x[1]] \ kq.events[x[1]]}
       IN kq' = [kq EXCEPT
            !.queue = <<>>, !.pc = "poll",
            !.filters = @ \union {<<kq.fd[x[1]], x[2]>> : x \in new},
            !.deleted = @ \ new,
            !.events = [w \in All |-> IF w \in Range(kq.queue) THEN kq.pevents[w] ELSE @[w]]]

\* kevent: some of the files that are ready, and perhaps the exit of a child.
Entries == [fd : Fds, filter : Masks \union {"PROC"}, stale : {FALSE}]

Kevent ==
    /\ kq.pc = "poll"
    /\ \E b \in UNION {[1..n -> {e \in Entries :
                           e.filter = "PROC" \/ <<e.fd, e.filter>> \in kq.filters}] : n \in 1..Full} :
        /\ IsInjective(b)
        /\ kq' = [kq EXCEPT !.batch = b, !.full = Len(b) = Full, !.list = kq.nw, !.pc = "dispatch",
                            !.children = Cardinality({i \in DOMAIN b : b[i].filter = "PROC"})]

\* kevent times out, or is interrupted.
Timeout == kq.pc = "poll" /\ kq' = [kq EXCEPT !.pc = "program"]


\* An entry nobody waits for: uv__kqueue_delete is called on it.
Unwanted(k, e) ==
    LET w == k.watchers[e.fd] IN IF w = NULL THEN TRUE ELSE e.filter \notin k.pevents[w]

\* One turn of the loop over the array: skip, note the child, delete or call back.
Dispatch ==
    /\ kq.pc = "dispatch" /\ kq.batch # <<>>
    /\ LET e == Head(kq.batch)
           k == [kq EXCEPT !.batch = Tail(@)]
       IN kq' =
            IF e.filter = "PROC"
            THEN [k EXCEPT !.reap = TRUE, !.children = IF e.fd = -1 THEN @ ELSE @ - 1]
            ELSE IF e.fd = -1 THEN k
            ELSE IF Unwanted(k, e)
            THEN [k EXCEPT !.filters = @ \ {<<e.fd, e.filter>>},
                     !.deleted = @ \union {<<w, e.filter>> : w \in {w \in All :
                         k.fd[w] = e.fd /\ e.filter \in k.events[w]}}]
            ELSE [k EXCEPT !.pc = "callback", !.wrong = @ \/ e.stale]

CallbackReturns == kq.pc = "callback" /\ kq' = [kq EXCEPT !.pc = "dispatch"]

\* The end of the array: reap the children; a full one means that there may be more.
Walked ==
    /\ kq.pc = "dispatch" /\ kq.batch = <<>>
    /\ \E again \in {FALSE, kq.full} :
        kq' = [kq EXCEPT !.reap = FALSE, !.list = 0, !.full = FALSE,
                         !.pc = IF again THEN "poll" ELSE "program"]

Next ==
    \/ \E w \in All : Open(w) \/ Close(w) \/ PollStop(w)
    \/ \E w \in All, e \in Masks : Start(w, e) \/ Stop(w, e)
    \/ \E w \in All, mask \in SUBSET Masks : PollStart(w, mask)
    \/ Register \/ Kevent \/ Timeout \/ Dispatch \/ CallbackReturns \/ Walked

Spec == Init /\ [][Next]_kq

-----------------------------------------------------------------------------
(* Properties *)

TypeOK ==
    /\ kq.pc \in {"program", "poll", "dispatch", "callback"}
    /\ kq.nw \in Nat /\ kq.list \in {0, kq.nw}
    /\ kq.fd \in [All -> Fds \union {0}] /\ kq.watchers \in [Fds -> All \union {NULL}]
    /\ kq.filters \subseteq Fds \X Masks

\* loop->nfds counts the watchers in loop->watchers, which are those that watch anything.
CountsAreExact ==
    /\ kq.nfds = Cardinality({f \in Fds : kq.watchers[f] # NULL})
    /\ \A w \in All : kq.pevents[w] # {} => kq.watchers[kq.fd[w]] = w

\* The assertions of uv__io_poll about the queue it registers.
AssertsHold ==
    /\ kq.nfds = 0 => kq.queue = <<>>
    /\ \A i \in DOMAIN kq.queue : LET w == kq.queue[i] IN
        kq.pevents[w] # {} /\ kq.fd[w] > 0 /\ kq.fd[w] < kq.nw

\* An event reaches only a watcher of the very file it came from.
NoStaleEvent == ~kq.wrong

\* Every exit of a child that the kernel reported is looked at.
NoExitLost == kq.pc \in {"program", "poll"} => kq.children = 0

\* What is watched is registered with the kernel or will be when the next poll begins.
Rearmed == \A w \in All : \A e \in kq.pevents[w] :
    \/ <<kq.fd[w], e>> \in kq.filters
    \/ w \in Range(kq.queue) /\ e \notin kq.events[w]

\* The same, except for an event whose filter was deleted as unwanted while the watcher
\* still had it among its registered events: uv__io_start takes it for registered.
NothingStranded == \A w \in All : \A e \in kq.pevents[w] :
    \/ <<kq.fd[w], e>> \in kq.filters
    \/ w \in Range(kq.queue) /\ e \notin kq.events[w]
    \/ <<w, e>> \in kq.deleted
=============================================================================
