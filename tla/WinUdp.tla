-------------------------------- MODULE WinUdp --------------------------------
(***************************************************************************)
(* UDP on Windows: src/source/main/cpp/_win/udp.c.  One zero-byte receive   *)
(* waits in the kernel; when it comes through the port, up to 32 datagrams  *)
(* are received with nonblocking calls, each told to a callback that may    *)
(* stop, start or close.  Sends go straight to the kernel.                 *)
(***************************************************************************)
EXTENDS Integers, Sequences, FiniteSets

CONSTANTS
    Count,       \* count in uv__process_udp_recv_req (32)
    MaxSends,    \* bound: sends made
    MaxArrivals  \* bound: datagrams that arrive

VARIABLE wudp

\* at: where recv_req is; rp: UV_HANDLE_READ_PENDING; count: activecnt; queued: send_queue_count.
\* kernel and posted hold sends; cb is the callback that runs.  arrived counts datagrams, avail
\* those the socket holds; told and answered are history, wrong that a callback came that was
\* not asked for.
Init == wudp =
    [bound |-> FALSE, reading |-> FALSE, rp |-> FALSE, at |-> "no", todo |-> 0,
     sends |-> 0, kernel |-> {}, posted |-> <<>>, queued |-> 0, reqs |-> 0, count |-> 0,
     cb |-> "no", closing |-> FALSE, endgame |-> FALSE, closed |-> FALSE,
     arrived |-> 0, avail |-> 0, told |-> 0, answered |-> <<>>, wrong |-> FALSE, ok |-> TRUE]

Program == ~wudp.closed

\* uv__udp_maybe_bind: of a socket that a bind, a connect, a send or recv_start needs.
Bind == Program /\ ~wudp.bound /\ ~wudp.closing /\ wudp' = [wudp EXCEPT !.bound = TRUE]

\* DECREASE_PENDING_REQ_COUNT.
ReqDone(s) == [s EXCEPT !.reqs = @ - 1, !.endgame = @ \/ (s.closing /\ s.reqs = 1)]

-----------------------------------------------------------------------------
(* Receiving *)

\* uv__udp_queue_recv: the request is through at once, waits in the kernel, or fails, which is
\* told later.  (A failure does not set READ_PENDING.  When reading is started in a receive
\* callback and queueing fails so, uv__process_udp_recv_req queues recv_req again while it is in
\* pending_reqs, twice in that list (udp.c:304-309).  The condition of the last line, no failure
\* in a callback, is not in the code and cuts this; no property says anything about it.)
QueueRecv(s) ==
    LET t == [s EXCEPT !.reqs = @ + 1, !.ok = @ /\ s.reading /\ ~s.rp /\ s.at = "no"]
    IN {[t EXCEPT !.rp = TRUE, !.at = "kernel"]}
       \union (IF s.avail > 0 THEN {[t EXCEPT !.rp = TRUE, !.at = "posted"]} ELSE {})
       \union (IF s.cb = "no" THEN {[t EXCEPT !.at = "failed"]} ELSE {})

\* uv__udp_recv_start; UV_EALREADY while it reads.  (That it is not called between a stop and the
\* answer of a failed recv_req is not in the code: READ_PENDING is not set then, and the request is
\* inserted into pending_reqs a second time, as in QueueRecv.)
RecvStart ==
    /\ Program /\ ~wudp.reading /\ ~wudp.closing /\ wudp.at # "failed"
    /\ LET s == [wudp EXCEPT !.bound = TRUE, !.reading = TRUE, !.count = @ + 1]
       IN wudp' \in IF wudp.rp THEN {s} ELSE QueueRecv(s)

RecvStopped(s) == IF s.reading THEN [s EXCEPT !.reading = FALSE, !.count = @ - 1] ELSE s

\* uv__udp_recv_stop; the receive stays in the kernel.
RecvStop == Program /\ wudp.reading /\ wudp' = RecvStopped(wudp)

Arrives ==
    /\ wudp.arrived < MaxArrivals /\ ~wudp.closing
    /\ wudp' = [wudp EXCEPT !.arrived = @ + 1, !.avail = @ + 1]

\* The kernel completes the receive: there is a datagram, an earlier send was answered with a
\* reset, or it failed (also because the socket was closed).
Completes ==
    /\ wudp.at = "kernel"
    /\ \E how \in {"posted", "reset", "failed"} :
         /\ how = "posted" => wudp.avail > 0
         /\ wudp' = [wudp EXCEPT !.at = how]

\* Mutant: the request is queued again although a callback did so already.
Requeues(s) == s.reading

QueuesAgain(s) == s.reading /\ ~s.rp

\* done: at the end of uv__process_udp_recv_req.
Done(s) ==
    LET t == [s EXCEPT !.todo = 0]
    IN {ReqDone([u EXCEPT !.cb = "no"]) : u \in IF QueuesAgain(t) THEN QueueRecv(t) ELSE {t}}

\* One nonblocking receive: a datagram (maybe truncated), none, no buffer to receive into, or
\* an error, which stops the reading.
ReceiveOne(s) ==
    LET t == [s EXCEPT !.todo = @ - 1, !.wrong = @ \/ ~s.reading]
    IN {[t EXCEPT !.cb = "nobufs"]}
       \union (IF s.avail > 0
               THEN {[t EXCEPT !.avail = @ - 1, !.told = @ + 1, !.cb = "more"],
                     [t EXCEPT !.avail = @ - 1, !.told = @ + 1, !.cb = "last"]}
               ELSE {[t EXCEPT !.cb = "last"]})
       \union {[RecvStopped(t) EXCEPT !.cb = "last"]}

\* uv__process_udp_recv_req, up to its first callback.
ProcessRecv ==
    /\ wudp.cb = "no" /\ wudp.at \in {"posted", "reset", "failed"}
    /\ LET s == [wudp EXCEPT !.rp = FALSE, !.at = "no", !.todo = Count + 1]
       IN IF wudp.at = "failed"
          THEN IF s.reading THEN wudp' = [RecvStopped(s) EXCEPT !.cb = "last"] ELSE wudp' \in Done(s)
          ELSE IF s.reading THEN wudp' \in ReceiveOne(s) ELSE wudp' \in Done(s)

\* Mutant: the loop goes on although the callback stopped the reading.
GoesOnStopped(s) == s.cb = "more" /\ s.todo > 0 /\ ~s.rp

GoesOn(s) == s.cb = "more" /\ s.todo > 0 /\ s.reading /\ ~s.rp

RecvReturns ==
    /\ wudp.cb \in {"more", "last", "nobufs"}
    /\ wudp' \in IF GoesOn(wudp) THEN ReceiveOne(wudp) ELSE Done(wudp)

-----------------------------------------------------------------------------
(* Sending *)

\* uv__send: through at once, in the kernel, or refused, which uv_udp_send returns.
Send ==
    /\ Program /\ ~wudp.closing /\ wudp.sends < MaxSends
    /\ LET n == wudp.sends + 1
           s == [wudp EXCEPT !.bound = TRUE, !.sends = n, !.reqs = @ + 1, !.queued = @ + 1, !.count = @ + 1]
       IN \/ wudp' = [s EXCEPT !.posted = Append(@, n)]
          \/ wudp' = [s EXCEPT !.kernel = @ \union {n}]

\* uv__udp_try_send: UV_EAGAIN while sends are queued.
TrySend ==
    /\ Program /\ ~wudp.closing /\ wudp.queued = 0 /\ wudp' = [wudp EXCEPT !.bound = TRUE]

Sent(n) == n \in wudp.kernel /\ wudp' = [wudp EXCEPT !.kernel = @ \ {n}, !.posted = Append(@, n)]

\* uv__process_udp_send_req.
ProcessSend ==
    /\ wudp.cb = "no" /\ wudp.posted # <<>>
    /\ wudp' = [wudp EXCEPT !.posted = Tail(@), !.queued = @ - 1, !.count = @ - 1, !.cb = "send",
                            !.answered = Append(@, Head(wudp.posted)), !.ok = @ /\ wudp.queued > 0]

SendReturns == wudp.cb = "send" /\ wudp' = ReqDone([wudp EXCEPT !.cb = "no"])

-----------------------------------------------------------------------------
(* Closing *)

\* Mutant: a closed handle's endgame does not wait for its receive.
NoSends(s) == s.queued = 0

Idle(s) == s.reqs = 0

\* uv__udp_close.
Close ==
    /\ Program /\ ~wudp.closing
    /\ wudp' = [RecvStopped(wudp) EXCEPT !.closing = TRUE, !.avail = 0, !.endgame = Idle(wudp)]

\* uv__udp_endgame.
Endgame ==
    /\ wudp.endgame /\ wudp.cb = "no" /\ ~wudp.closed
    /\ wudp' = [wudp EXCEPT !.closed = Idle(wudp), !.endgame = FALSE]

Loop == ProcessRecv \/ RecvReturns \/ ProcessSend \/ SendReturns \/ Endgame

System == Completes \/ Arrives \/ \E n \in 1..MaxSends : Sent(n)

Next == Loop \/ System \/ Bind \/ RecvStart \/ RecvStop \/ Send \/ TrySend \/ Close

Spec == Init /\ [][Next]_wudp

-----------------------------------------------------------------------------
(* Properties *)

TypeOK ==
    /\ wudp.at \in {"no", "kernel", "posted", "reset", "failed"}
    /\ wudp.cb \in {"no", "more", "last", "nobufs", "send"}
    /\ wudp.reqs \in Nat /\ wudp.count \in Nat /\ wudp.queued \in Nat /\ wudp.todo \in 0..Count + 1

\* reqs_pending counts the receive, the sends and the one being processed; activecnt the reading
\* and the queued sends.
CountsAreExact ==
    LET out == Cardinality(wudp.kernel) + Len(wudp.posted)
    IN /\ wudp.queued = out
       /\ wudp.reqs = out + (IF wudp.at = "no" THEN 0 ELSE 1) + (IF wudp.cb = "no" THEN 0 ELSE 1)
       /\ wudp.count = out + (IF wudp.reading THEN 1 ELSE 0)

\* The receive is queued only while reading and once at a time, but for what QueueRecv and
\* RecvStart cut.
AssertsHold == wudp.ok

\* A socket that reads has a receive out; one that closes waits for a request or for its endgame.
NothingStranded ==
    /\ wudp.reading /\ wudp.cb \in {"no", "send"} => wudp.at # "no"
    /\ wudp.closing /\ ~wudp.closed => wudp.endgame \/ wudp.reqs > 0

\* No receive callback comes after the reading was stopped, and no send is answered twice.
ToldOnce ==
    /\ ~wudp.wrong
    /\ \A i, j \in 1..Len(wudp.answered) : wudp.answered[i] = wudp.answered[j] => i = j
    /\ wudp.told + wudp.avail <= wudp.arrived

ClosedIsClean ==
    wudp.closed => wudp.at = "no" /\ wudp.queued = 0 /\ Len(wudp.answered) = wudp.sends
================================================================================
