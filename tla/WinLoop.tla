--------------------------------- MODULE WinLoop ---------------------------------
(***************************************************************************)
(* The loop on Windows: uv_run, uv__poll, uv__process_reqs and             *)
(* uv__process_endgames of _win/core.c; the counting of a handle's         *)
(* requests (handle-inl.h, req-inl.h), closing (handle.c), async handles   *)
(* (async.c) and idle watchers (loop-watcher.c).                           *)
(*                                                                         *)
(* Requests complete in the kernel, come through the completion port into  *)
(* loop->pending_reqs_tail, and are processed in batches.  A handle is     *)
(* closed for good by its endgame, when none of its requests is left.      *)
(***************************************************************************)
EXTENDS Integers, Sequences, SequencesExt, FiniteSets, TLC

CONSTANTS
    Watchers,   \* idle handles
    Batch,      \* how many completions uv__poll takes at once (128)
    Rounds,     \* how often uv_run processes requests behind the poll (8)
    MaxOps      \* bound: overlapped operations started, and calls of uv_async_send

VARIABLE win

\* One async handle, and one handle with overlapped operations: 1..MaxOps are its requests.
Handles == {"async", "io"} \union Watchers
None == "none"

\* iocp is what waits in the completion port, pending the list of pending_reqs_tail, batch the
\* one that uv__process_reqs took.  post: a thread is between the two steps of uv_async_send.
\* pc: what uv_run does next; cb: a callback runs; back: where uv__process_reqs returns to.
\* due is history: the watchers that the pass of uv__idle_invoke under way has still to call.
Init == win =
    [pc |-> "out", back |-> "idle", cb |-> FALSE, round |-> 0,
     iocp |-> <<>>, pending |-> <<>>, batch |-> <<>>, kernel |-> {}, ops |-> 0, sends |-> 0,
     sent |-> FALSE, post |-> FALSE, reqs |-> 0, active |-> {"async"},
     closing |-> {}, closed |-> {}, endgames |-> <<>>,
     idles |-> <<>>, next |-> None, called |-> None, due |-> {}, told |-> 0, bad |-> FALSE]

Program == win.pc = "out" \/ win.cb

-----------------------------------------------------------------------------
(* The program *)

\* uv_async_send, from any thread: the flag, then the request to the port.
Send ==
    /\ "async" \notin win.closing /\ ~win.post /\ win.sends < MaxOps
    /\ win' = [win EXCEPT !.sends = @ + 1, !.sent = TRUE, !.post = ~win.sent]

Post == win.post /\ win' = [win EXCEPT !.post = FALSE, !.iocp = Append(@, "wakeup")]

\* An overlapped operation of the other handle, with REGISTER_HANDLE_REQ: it is active as
\* long as it has one.
StartOp ==
    /\ Program /\ "io" \notin win.closing /\ win.ops < MaxOps
    /\ win' = [win EXCEPT !.ops = @ + 1, !.kernel = @ \union {win.ops + 1},
                          !.reqs = @ + 1, !.active = @ \union {"io"}]

\* The kernel completes one, in any order.
Complete(o) ==
    /\ o \in win.kernel
    /\ win' = [win EXCEPT !.kernel = @ \ {o}, !.iocp = Append(@, ToString(o))]

WatcherStart(w) ==
    /\ Program /\ w \notin win.active \union win.closing
    /\ win' = [win EXCEPT !.idles = <<w>> \o @, !.active = @ \union {w}]

\* The watcher behind w in the list.
Behind(idles, w) ==
    LET behind == {n \in 2..Len(idles) : idles[n - 1] = w}
    IN IF behind = {} THEN None ELSE idles[CHOOSE n \in behind : TRUE]

\* Mutant: stopping a watcher does not look at next_idle_handle.
NextKept(s, w) == s.next

\* The watcher that uv__idle_invoke calls next, when w is stopped.
NextAfterStop(s, w) == IF s.next = w THEN Behind(s.idles, w) ELSE s.next

Stopped(s, w) ==
    IF w \notin s.active THEN s
    ELSE [s EXCEPT !.next = NextAfterStop(s, w), !.idles = Remove(@, w),
                   !.active = @ \ {w}, !.due = @ \ {w}]

WatcherStop(w) == Program /\ w \in win.active /\ win' = Stopped(win, w)

\* uv__want_endgame puts a handle in front of the list once.
WantEndgame(s, h) == IF Contains(s.endgames, h) THEN s ELSE [s EXCEPT !.endgames = <<h>> \o @]

\* Mutant: an async handle ends at once although its request is on its way.
EndsAnyway(s, h) == TRUE

\* Whether uv_close may ask for the endgame at once.
EndsNow(s, h) ==
    CASE h = "async" -> ~s.sent
      [] h = "io" -> s.reqs = 0
      [] OTHER -> TRUE

\* uv_close.
Close(h) ==
    /\ Program /\ h \notin win.closing
    /\ LET s == IF h \in Watchers THEN Stopped(win, h) ELSE win
           t == [s EXCEPT !.closing = @ \union {h}, !.active = @ \ {h}]
       IN win' = IF EndsNow(s, h) THEN WantEndgame(t, h) ELSE t

CallbackReturns == win.cb /\ win' = [win EXCEPT !.cb = FALSE]

-----------------------------------------------------------------------------
(* uv_run *)

On(pc) == win.pc = pc /\ ~win.cb

Alive == (win.active \union win.closing) \ win.closed # {} \/ win.kernel # {}
         \/ win.pending # <<>> \/ win.endgames # <<>>

\* A turn begins with the requests that are pending.
Turn ==
    /\ win.pc \in {"out", "turn"} /\ ~win.cb
    /\ win' = IF Alive THEN [win EXCEPT !.pc = "batch", !.back = "idle", !.batch = win.pending,
                                        !.pending = <<>>]
              ELSE [win EXCEPT !.pc = "out"]

\* Mutant: the count is looked at before the request is taken from it.
OneLeft(s) == s.reqs = 1 /\ s.cb

\* DECREASE_PENDING_REQ_COUNT asks for the endgame with the last request of a closing handle.
LastOne(s) == "io" \in s.closing /\ s.reqs = 0

\* One request of a batch: uv__process_async_wakeup_req, or the end of an operation.
Process ==
    /\ On("batch") /\ win.batch # <<>>
    /\ LET rest == [win EXCEPT !.batch = Tail(@)]
       IN IF Head(win.batch) = "wakeup"
          THEN LET s == [rest EXCEPT !.sent = FALSE]
               IN win' = IF "async" \in win.closing THEN WantEndgame(s, "async")
                         ELSE [s EXCEPT !.cb = TRUE, !.told = @ + 1]
          ELSE LET s == [rest EXCEPT !.reqs = @ - 1, !.cb = "io" \notin win.closing,
                          !.active = IF win.reqs = 1 THEN @ \ {"io"} ELSE @]
               IN win' = IF LastOne(s) THEN WantEndgame(s, "io") ELSE s

BatchEnds ==
    /\ On("batch") /\ win.batch = <<>>
    /\ win' = [win EXCEPT !.pc = win.back, !.next = IF win.back = "idle" /\ win.idles # <<>>
                                                    THEN Head(win.idles) ELSE None,
                          !.due = IF win.back = "idle" THEN ToSet(win.idles) ELSE {}]

\* uv__idle_invoke.
Invoke ==
    /\ On("idle") /\ win.next # None
    /\ win' = [win EXCEPT !.next = Behind(win.idles, win.next), !.called = win.next,
                          !.due = @ \ {win.next}, !.cb = TRUE,
                          !.bad = @ \/ win.next \notin win.due]

InvokeEnds == On("idle") /\ win.next = None /\ win' = [win EXCEPT !.pc = "poll", !.called = None]

\* uv_backend_timeout: the loop may sleep.
MaySleep == win.active \union win.closing # win.closed /\ win.pending = <<>> /\ win.idles = <<>>
            /\ win.endgames = <<>>

\* uv__poll: a time-out, or what is in the port; completions without a request (wakeups of all
\* loops when the system resumes) leave nothing.
Poll ==
    /\ On("poll") /\ (win.iocp = <<>> => ~MaySleep)
    /\ LET n == IF Len(win.iocp) < Batch THEN Len(win.iocp) ELSE Batch
       IN win' = [win EXCEPT !.iocp = SubSeq(@, n + 1, Len(@)), !.round = 0,
                             !.pending = @ \o SubSeq(win.iocp, 1, n), !.pc = "again"]

\* Requests that were inserted meanwhile are processed at once, but not for ever.
Again ==
    /\ On("again")
    /\ win' = IF win.round < Rounds /\ win.pending # <<>>
              THEN [win EXCEPT !.round = @ + 1, !.pc = "batch", !.back = "again",
                               !.batch = win.pending, !.pending = <<>>]
              ELSE [win EXCEPT !.pc = "endgames"]

\* uv__process_endgames: the endgame of an async handle waits for its request.
Endgame ==
    /\ On("endgames")
    /\ IF win.endgames = <<>> THEN win' = [win EXCEPT !.pc = "turn"]
       ELSE LET h == Head(win.endgames)
                s == [win EXCEPT !.endgames = Tail(@)]
            IN win' = IF h = "async" /\ win.sent THEN s
                      ELSE [s EXCEPT !.closed = @ \union {h}, !.cb = TRUE]

LoopThread == Turn \/ Process \/ BatchEnds \/ Invoke \/ InvokeEnds \/ Poll \/ Again \/ Endgame
              \/ CallbackReturns

Next ==
    \/ LoopThread \/ Send \/ Post \/ StartOp
    \/ \E o \in 1..MaxOps : Complete(o)
    \/ \E w \in Watchers : WatcherStart(w) \/ WatcherStop(w)
    \/ \E h \in Handles : Close(h)

Spec == Init /\ [][Next]_win

\* The loop runs, the kernel completes operations and a thread in uv_async_send goes on.
FairSpec == Spec /\ WF_win(LoopThread) /\ WF_win(Post \/ \E o \in 1..MaxOps : Complete(o))

-----------------------------------------------------------------------------
(* Properties *)

Requests == win.iocp \o win.pending \o win.batch

TypeOK ==
    /\ win.pc \in {"out", "turn", "batch", "idle", "poll", "again", "endgames"}
    /\ win.closed \subseteq win.closing /\ win.closing \subseteq Handles
    /\ win.reqs \in 0..MaxOps /\ win.next \in Watchers \union {None}

\* Every request is in one place; the counts of the handles are the number of their requests;
\* the flag of an async handle stands for exactly one request on its way.
CountsAreExact ==
    /\ IsInjective(Requests)
    /\ win.reqs = Cardinality(win.kernel) + Cardinality(ToSet(Requests) \ {"wakeup"})
    /\ win.sent <=> (win.post \/ Contains(Requests, "wakeup"))
    /\ IsInjective(win.endgames)

\* A handle that is closed has no request in the kernel, in the port or in a list, and no
\* thread is about to post one; it is in no list of watchers.
ClosedIsClean ==
    /\ "io" \in win.closed => win.reqs = 0
    /\ "async" \in win.closed => ~win.post /\ ~Contains(Requests, "wakeup")
    /\ ToSet(win.idles) \intersect win.closing = {} /\ win.next \notin win.closing
    /\ \A h \in win.closed : ~Contains(win.endgames, h)

\* A pass over the idle watchers calls each watcher that was there when it began and was not
\* stopped, once, and no other, whatever the callbacks start and stop.
InOrder ==
    /\ ~win.bad
    /\ win.pc = "poll" => win.due = {}

\* The loop never sleeps while a request is pending or a handle waits for its endgame.
NothingStranded ==
    /\ win.pc = "poll" /\ MaySleep => win.batch = <<>> /\ win.endgames = <<>>
    /\ \A h \in win.closing \ win.closed :
         \/ Contains(win.endgames, h)
         \/ h = "io" /\ win.reqs > 0
         \/ h = "async" /\ win.sent

\* What is closed is closed for good in the end.
CloseReturns == \A h \in Handles : h \in win.closing ~> h \in win.closed
=============================================================================
