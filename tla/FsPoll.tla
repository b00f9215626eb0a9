--------------------------------- MODULE FsPoll ---------------------------------
(***************************************************************************)
(* File polling: src/source/main/cpp/fs-poll.c.  Every uv_fs_poll_start    *)
(* makes a context with a timer and a stat request of its own, so that a   *)
(* stopped handle can be started again while the old request is in flight; *)
(* handle->poll_ctx is the newest, the others follow through `previous`.   *)
(***************************************************************************)
EXTENDS Integers, FiniteSets, Queues

CONSTANTS
    Contexts,   \* the contexts that may be made: 1..n, in that order
    Versions    \* what a stat may return: 0 is an error, the others are statbufs

VARIABLE fsp

\* list is handle->poll_ctx followed through `previous`.  at says where a context is: its stat
\* in flight, its timer armed, its timer closing.  busy is busy_polling: 0, 1 or an error.  last and twice
\* are history: the last stat told, and whether the same one was told twice in a row.
Init == fsp =
    [made |-> 0, list |-> <<>>, at |-> [c \in Contexts |-> "none"],
     busy |-> [c \in Contexts |-> 0], seen |-> [c \in Contexts |-> 0],
     active |-> FALSE, closing |-> FALSE, pending |-> 0, closed |-> FALSE,
     cb |-> 0, last |-> [c \in Contexts |-> -1], twice |-> FALSE, current |-> TRUE]

Program == ~fsp.closed

\* uv_fs_poll_start, of a handle that is not active.  The timer is made before the request.
Start ==
    /\ Program /\ ~fsp.active /\ ~fsp.closing /\ fsp.made < Cardinality(Contexts)
    /\ LET c == fsp.made + 1
       IN fsp' = [fsp EXCEPT !.made = c, !.list = <<c>> \o @, !.at[c] = "stat", !.active = TRUE]

\* What uv_fs_poll_stop does: it closes the timer if that is armed; else poll_cb will.
Stopped ==
    IF ~fsp.active THEN fsp
    ELSE LET c == Head(fsp.list)
         IN [fsp EXCEPT !.active = FALSE,
                        !.at[c] = IF @ = "timer" THEN "closing" ELSE @]

Stop == Program /\ fsp.active /\ fsp' = Stopped

\* Mutant: the handle is finished as soon as nothing is armed.
NoneArmed == \A c \in Contexts : fsp.at[c] # "timer"

\* uv__fs_poll_close leaves the end to timer_close_cb if there is a context.
NoContext == fsp.list = <<>>

\* uv_close and uv__fs_poll_close.
Close ==
    /\ Program /\ ~fsp.closing
    /\ fsp' = [Stopped EXCEPT !.closing = TRUE,
                              !.pending = IF NoContext THEN @ + 1 ELSE @]

\* timer_cb: the context asserts that it is the current one, and asks again.
TimerCb(c) ==
    /\ fsp.cb = 0 /\ fsp.at[c] = "timer"
    /\ fsp' = [fsp EXCEPT !.at[c] = "stat", !.current = @ /\ fsp.list # <<>> /\ Head(fsp.list) = c]

Wanted == fsp.active /\ ~fsp.closing

\* Mutant: a change is told on the first look too.
AnyLook(busy, seen, v) == v # seen

\* Is there something to tell?  An error that is new, a file that came back or changed.
Tells(busy, seen, v) ==
    IF v = 0 THEN busy # -1 ELSE busy # 0 /\ (busy < 0 \/ v # seen)

\* The end of poll_cb: a handle that was stopped or closed gives the context up.
Resumed == IF Wanted THEN "timer" ELSE "closing"

\* poll_cb with the result v of the stat: up to the callback, or to the end if there is none.
PollCb(c) ==
    /\ fsp.cb = 0 /\ fsp.at[c] = "stat"
    /\ \E v \in Versions :
        LET tells == Wanted /\ Tells(fsp.busy[c], fsp.seen[c], v)
        IN fsp' = [fsp EXCEPT
             !.cb = IF tells THEN c ELSE 0, !.at[c] = IF tells THEN "poll_cb" ELSE Resumed,
             !.last[c] = IF tells THEN v ELSE @,
             !.twice = @ \/ (tells /\ fsp.last[c] = v),
             !.busy[c] = IF Wanted THEN (IF v = 0 THEN -1 ELSE 1) ELSE @,
             !.seen[c] = IF Wanted /\ v # 0 THEN v ELSE @]

PollReturns == fsp.cb # 0 /\ fsp' = [fsp EXCEPT !.cb = 0, !.at[fsp.cb] = Resumed]

\* Mutant: the context is unlinked with everything behind it.
CutAt(c) == SubSeq(fsp.list, 1, (CHOOSE i \in 1..Len(fsp.list) : fsp.list[i] = c) - 1)

\* timer_close_cb unlinks the context.
Unlinked(c) == Unlink(fsp.list, c)

TimerCloseCb(c) ==
    /\ fsp.cb = 0 /\ fsp.at[c] = "closing"
    /\ fsp' = [fsp EXCEPT !.list = Unlinked(c), !.at[c] = "freed",
         !.pending = IF Head(fsp.list) = c /\ Unlinked(c) = <<>> /\ fsp.closing THEN @ + 1 ELSE @]

\* uv__finish_close and the close callback, after which the memory is the program's.
Endgame == fsp.cb = 0 /\ fsp.pending > 0 /\ fsp' = [fsp EXCEPT !.pending = @ - 1, !.closed = TRUE]

Next ==
    \/ Start \/ Stop \/ Close \/ PollReturns \/ Endgame
    \/ \E c \in Contexts : TimerCb(c) \/ PollCb(c) \/ TimerCloseCb(c)

Spec == Init /\ [][Next]_fsp

-----------------------------------------------------------------------------
(* When the next stat is due: a multiple of the interval after the start *)

Due(interval, elapsed) == interval - (elapsed % interval)

-----------------------------------------------------------------------------
(* Properties *)

\* The types of the state.
TypeOK ==
    /\ fsp.made \in 0..Cardinality(Contexts) /\ fsp.cb \in 0..Cardinality(Contexts)
    /\ \A c \in Contexts : fsp.at[c] \in {"none", "stat", "poll_cb", "timer", "closing", "freed"}
    /\ fsp.active \in BOOLEAN /\ fsp.closing \in BOOLEAN /\ fsp.pending \in Nat

\* The list holds exactly the contexts that are not freed, newest first, so that the walk of
\* timer_close_cb finds its context; the handle is made close-pending at most once.
CountsAreExact ==
    /\ Range(fsp.list) = {c \in 1..fsp.made : fsp.at[c] # "freed"}
    /\ \A i, j \in DOMAIN fsp.list : i < j => fsp.list[i] > fsp.list[j]
    /\ fsp.pending <= 1

\* uv_fs_poll_stop finds a context that is at work, and what uv__fs_poll_close leaves undone
\* some context will do: none waits for a timer that was closed.
NothingStranded ==
    /\ fsp.active => fsp.list # <<>> /\ fsp.at[Head(fsp.list)] \in {"stat", "poll_cb", "timer"}
    /\ fsp.closing => fsp.closed \/ fsp.pending = 1 \/ fsp.list # <<>>
    /\ \A c \in Contexts : fsp.at[c] = "poll_cb" <=> fsp.cb = c

\* The handle is closed after its last context was freed: no request or timer is left that
\* would read the memory of the handle.
ClosedIsClean == fsp.closed \/ fsp.pending > 0 => fsp.list = <<>> /\ fsp.cb = 0 /\ ~fsp.active

\* A callback is told of a change only: no two reports in a row are of the same stat.
ToldOnce == ~fsp.twice

\* assert(ctx->parent_handle->poll_ctx == ctx) of timer_cb (fs-poll.c:180): the context whose
\* timer fires is the handle's current one.  It is not, when the handle was stopped and started
\* again before the stat of the old context was answered.
CtxIsCurrent == fsp.current

\* A poll is never put off by nothing or by more than the interval.
DueInTime == \A i \in 1..6, e \in 0..20 : Due(i, e) \in 1..i /\ (e + Due(i, e)) % i = 0
================================================================================
