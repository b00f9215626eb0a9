---------------------------------- MODULE Udp ----------------------------------
(***************************************************************************)
(* UDP handles: src/source/main/cpp/_darwin/udp.c and the checks in front  *)
(* of it in uv-common.c.                                                   *)
(*                                                                         *)
(* One handle.  The program calls the functions between two events and     *)
(* from the receive and send callbacks, so every callback is a state in    *)
(* which anything may be called.  The kernel takes as many of the queued   *)
(* datagrams as it likes.  A request is its own length in bytes.           *)
(***************************************************************************)
EXTENDS Integers, FiniteSets, Queues

CONSTANTS
    Datagrams,  \* 1..n: the requests of the program
    RecvMax,    \* count in uv__udp_recvmsg (32)
    Chunks      \* ARRAY_SIZE(iov) in uv__udp_recvmmsg (20)

VARIABLE udp

States == {"loop", "recv", "recv_cb", "out", "completed", "send_cb"}

\* uv_udp_init_ex
Init == \E mmsg, socket \in BOOLEAN : udp =
    [pc |-> "loop", revents |-> {}, todo |-> 0, chunks |-> 0, finish |-> FALSE,
     mmsg |-> mmsg, fd |-> socket, bound |-> FALSE, connected |-> FALSE,
     closing |-> "no", processing |-> FALSE, active |-> FALSE,
     watch |-> {}, pending |-> FALSE, recv |-> FALSE,
     write_queue |-> <<>>, completed |-> <<>>, size |-> 0, count |-> 0,
     status |-> [d \in Datagrams |-> "none"],
     submitted |-> <<>>, wire |-> <<>>, answered |-> <<>>]

-----------------------------------------------------------------------------
(* The kernel *)

\* uv__udp_maybe_deferred_bind and uv__udp_bind: <<what is left, does it succeed>>.
\* A socket that cannot be bound stays in the handle.
Bind(u) ==
    {<<[u EXCEPT !.fd = TRUE, !.bound = TRUE], TRUE>>, <<[u EXCEPT !.fd = TRUE], FALSE>>}
        \union (IF u.fd THEN {} ELSE {<<u, FALSE>>})

DeferredBind(u) == IF u.fd THEN {<<u, TRUE>>} ELSE Bind(u)

\* Mutant: the handle is not fed after an error.
FeedsIfAll(end) == end = "all"

\* Does uv__udp_sendmsg end at uv__io_feed?
Feeds(end) == end # "again"

\* uv__udp_sendmsg after the kernel took the first n requests, batch by batch, and
\* then all were sent, or the next was refused ("error"), or it was full ("again").
Sent(u, n, end) ==
    LET q == u.write_queue
        m == IF end = "error" THEN n + 1 ELSE n
    IN [u EXCEPT
        !.write_queue = SubSeq(q, m + 1, Len(q)),
        !.completed = @ \o SubSeq(q, 1, m),
        !.status = [d \in Datagrams |->
            IF d \in Range(SubSeq(q, 1, n)) THEN "sent"
            ELSE IF d \in Range(SubSeq(q, n + 1, m)) THEN "error" ELSE @[d]],
        !.wire = @ \o SubSeq(q, 1, n),
        !.pending = @ \/ Feeds(end)]

\* uv__udp_sendmsg
Sendmsg(u) ==
    LET n == Len(u.write_queue) IN
    IF n = 0 THEN {u}
    ELSE {Sent(u, n, "all")}
             \union {Sent(u, k, end) : k \in 0..n - 1, end \in {"again", "error"}}

-----------------------------------------------------------------------------
(* Functions the program calls *)

Program == udp.pc \in {"loop", "recv_cb", "send_cb"} /\ udp.closing = "no"

\* uv_udp_bind; a failure after the socket exists leaves the socket.
UdpBind == Program /\ \E b \in Bind(udp) : udp' = b[1]

\* uv_udp_open_ex: a descriptor that may already have a peer.
Open ==
    /\ Program /\ ~udp.fd
    /\ \E peer \in BOOLEAN : udp' = [udp EXCEPT !.fd = TRUE, !.connected = peer]

\* uv_udp_connect with an address: fails with EISCONN on a connected handle.
Connect ==
    /\ Program /\ ~udp.connected
    /\ \E b \in DeferredBind(udp), ok \in BOOLEAN :
           udp' = [b[1] EXCEPT !.connected = b[2] /\ ok]

\* uv_udp_connect without one: uv__udp_disconnect.
Disconnect == Program /\ udp.connected /\ udp' = [udp EXCEPT !.connected = FALSE]

\* uv__udp_check_before_send: an address if and only if there is no peer.
CheckBeforeSend(address) == address # udp.connected

Unused(d) == d \notin Range(udp.submitted)

\* uv__udp_send from the registration of the request on: it goes out at once if no
\* other waits and no completed ones are being reported.
Enqueue(u, d) ==
    LET v == [u EXCEPT !.write_queue = Append(@, d), !.size = @ + d, !.count = @ + 1,
                       !.active = TRUE, !.submitted = Append(@, d)]
    IN IF u.count = 0 /\ ~u.processing
       THEN {[w EXCEPT !.watch = IF w.write_queue = <<>> THEN @ ELSE @ \union {"OUT"}] :
                 w \in Sendmsg(v)}
       ELSE {[v EXCEPT !.watch = @ \union {"OUT"}]}

\* uv_udp_send; a request there is no memory for is as if it had not been made.
Send(d) ==
    /\ Program /\ Unused(d)
    /\ \E address \in BOOLEAN :
        /\ CheckBeforeSend(address)
        /\ \E b \in IF address THEN DeferredBind(udp) ELSE {<<udp, TRUE>>} :
            IF b[2] THEN \E u \in Enqueue(b[1], d) : udp' = u ELSE udp' = b[1]

\* Mutant: uv_udp_try_send overtakes what is queued.
NoneQueued(u) == TRUE

\* What uv_udp_try_send and uv_udp_try_send2 ask before they send.
NothingQueued(u) == u.count = 0

\* uv_udp_try_send
TrySend(d) ==
    /\ Program /\ Unused(d) /\ NothingQueued(udp)
    /\ \E address \in BOOLEAN :
        /\ CheckBeforeSend(address)
        /\ \E b \in IF address THEN DeferredBind(udp) ELSE {<<udp, TRUE>>}, ok \in BOOLEAN :
            udp' = IF b[2] /\ ok
                   THEN [b[1] EXCEPT !.submitted = Append(@, d), !.wire = Append(@, d)]
                   ELSE b[1]

\* uv__udp_recv_start: EALREADY while POLLIN is watched.
RecvStart ==
    /\ Program /\ "IN" \notin udp.watch
    /\ \E b \in DeferredBind(udp) :
        udp' = IF b[2] THEN [b[1] EXCEPT !.recv = TRUE, !.active = TRUE,
                                         !.watch = @ \union {"IN"}]
               ELSE b[1]

\* Mutant: the handle is stopped also when it waits to write.
StillWriting(u) == FALSE

\* What keeps uv__udp_recv_stop from stopping the handle.
Writing(u) == "OUT" \in u.watch

\* uv__udp_recv_stop
RecvStop ==
    /\ Program
    /\ udp' = [udp EXCEPT !.watch = @ \ {"IN"}, !.recv = FALSE,
                          !.active = @ /\ Writing(udp)]

\* uv_close and uv__udp_close
Close ==
    /\ Program
    /\ udp' = [udp EXCEPT !.closing = "closing", !.watch = {}, !.pending = FALSE,
                          !.active = FALSE, !.fd = FALSE]

-----------------------------------------------------------------------------
(* The loop *)

\* uv__udp_io is called by the poll,
Poll ==
    /\ udp.pc = "loop"
    /\ \E events \in (SUBSET udp.watch) \ {{}} :
        udp' = [udp EXCEPT !.revents = events, !.todo = RecvMax,
                           !.pc = IF "IN" \in events THEN "recv" ELSE "out"]

\* or by uv__run_pending after uv__io_feed.
RunPending ==
    /\ udp.pc = "loop" /\ udp.pending
    /\ udp' = [udp EXCEPT !.pending = FALSE, !.revents = {"OUT"}, !.pc = "out"]

\* uv__udp_recvmsg without a buffer, or with nothing more to read, or an error: the
\* callback is told, and it was the last.
RecvEnd == udp.pc = "recv" /\ udp' = [udp EXCEPT !.pc = "recv_cb", !.todo = 0]

\* uv__udp_recvmsg with one datagram
RecvOne ==
    /\ udp.pc = "recv" /\ ~udp.mmsg
    /\ udp' = [udp EXCEPT !.pc = "recv_cb", !.todo = @ - 1]

\* uv__udp_recvmmsg: n datagrams in one buffer, a callback for each and one to free the
\* buffer; with none, a callback that says so, and the next turn.
RecvMany ==
    /\ udp.pc = "recv" /\ udp.mmsg
    /\ \E n \in 0..Chunks :
        udp' = [udp EXCEPT !.pc = "recv_cb", !.todo = @ - n, !.chunks = n]

\* Mutant: uv__udp_recvmsg goes on when the callback has stopped it.
GoesOnStopped(u) == u.todo > 0 /\ u.fd

\* The condition of the loop in uv__udp_recvmsg.
GoesOn(u) == u.todo > 0 /\ u.fd /\ u.recv

\* The receive callback returns.
RecvReturns ==
    /\ udp.pc = "recv_cb"
    /\ udp' = IF udp.chunks > 0 /\ udp.recv THEN [udp EXCEPT !.chunks = @ - 1]
              ELSE [udp EXCEPT !.chunks = 0, !.pc = IF GoesOn(udp) THEN "recv" ELSE "out"]

\* The second half of uv__udp_io.
Out ==
    /\ udp.pc = "out"
    /\ IF "OUT" \in udp.revents /\ udp.closing = "no"
       THEN \E u \in Sendmsg(udp) :
                udp' = [u EXCEPT !.pc = "completed", !.processing = TRUE]
       ELSE udp' = [udp EXCEPT !.pc = "loop"]

\* Mutant: the size goes down by what was sent.
BytesOf(u, d) == IF u.status[d] = "sent" THEN d ELSE 0

\* uv__count_bufs(req->bufs, req->nbufs)
CountBufs(u, d) == d

\* uv__udp_run_completed: the next request and its callback, if it has one.
Complete ==
    /\ udp.pc = "completed" /\ udp.completed # <<>>
    /\ LET d == Head(udp.completed) IN \E callback \in BOOLEAN :
        udp' = [udp EXCEPT !.completed = Tail(@),
                           !.size = @ - CountBufs(udp, d), !.count = @ - 1,
                           !.answered = Append(@, <<d, udp.status[d]>>),
                           !.pc = IF callback THEN "send_cb" ELSE "completed"]

SendReturns == udp.pc = "send_cb" /\ udp' = [udp EXCEPT !.pc = "completed"]

\* The end of uv__udp_run_completed and, when the handle closes, of
\* uv__udp_finish_close.
Completed ==
    /\ udp.pc = "completed" /\ udp.completed = <<>>
    /\ LET idle == udp.write_queue = <<>> IN
        udp' = [udp EXCEPT
            !.watch = IF idle THEN @ \ {"OUT"} ELSE @,
            !.active = @ /\ (idle => "IN" \in udp.watch),
            !.processing = FALSE, !.pc = "loop",
            !.closing = IF udp.finish THEN "closed" ELSE @,
            !.recv = @ /\ ~udp.finish]

\* Mutant: what waits is cancelled from its end.
CancelledBackwards(u) == [i \in DOMAIN u.write_queue |-> u.write_queue[Len(u.write_queue) + 1 - i]]

\* The requests uv__udp_finish_close cancels, in the order it takes them.
Cancelled(u) == u.write_queue

\* uv__udp_finish_close, called by uv__finish_close in the closing phase.
FinishClose ==
    /\ udp.pc = "loop" /\ udp.closing = "closing"
    /\ udp' = [udp EXCEPT
           !.status = [d \in Datagrams |->
               IF d \in Range(udp.write_queue) THEN "canceled" ELSE @[d]],
           !.completed = @ \o Cancelled(udp), !.write_queue = <<>>,
           !.processing = TRUE, !.finish = TRUE, !.pc = "completed"]

Loop == Poll \/ RunPending \/ RecvEnd \/ RecvOne \/ RecvMany \/ RecvReturns
        \/ Out \/ Complete \/ SendReturns \/ Completed \/ FinishClose

Next ==
    \/ UdpBind \/ Open \/ Connect \/ Disconnect \/ RecvStart \/ RecvStop \/ Close
    \/ \E d \in Datagrams : Send(d) \/ TrySend(d)
    \/ Loop

Spec == Init /\ [][Next]_udp

-----------------------------------------------------------------------------
(* Properties *)

Waiting == udp.completed \o udp.write_queue

TypeOK ==
    /\ udp.pc \in States /\ udp.closing \in {"no", "closing", "closed"}
    /\ udp.watch \subseteq {"IN", "OUT"} /\ udp.revents \subseteq {"IN", "OUT"}
    /\ udp.todo \in -Chunks..RecvMax /\ udp.chunks \in 0..Chunks
    /\ udp.status \in [Datagrams -> {"none", "sent", "error", "canceled"}]
    /\ Range(Waiting) \subseteq Datagrams /\ udp.size \in Nat /\ udp.count \in Nat

\* send_queue_count and send_queue_size say what is not yet reported, so that the
\* requests that keep the loop alive are as many.
CountsAreExact ==
    /\ udp.count = Len(Waiting)
    /\ udp.size = Total(Waiting, [d \in Datagrams |-> d])

\* The assertions of uv__udp_recvmsg, uv__udp_run_completed and uv__udp_finish_close.
AssertsHold ==
    /\ udp.pc = "recv" => udp.recv /\ udp.fd
    /\ udp.pc \in {"recv", "recv_cb", "out"} => ~udp.processing
    /\ udp.closing = "closing" => udp.watch = {} /\ ~udp.fd
    /\ udp.closing = "closed" => udp.count = 0 /\ udp.size = 0

\* Outside uv__udp_run_completed a request that waits for the kernel is watched for, one
\* that waits for its callback is about to be reported, and the loop stays alive for
\* whatever the handle waits for.
NothingStranded ==
    (udp.pc = "loop" /\ udp.closing = "no") =>
        /\ udp.write_queue # <<>> => "OUT" \in udp.watch
        /\ udp.completed # <<>> => udp.pending \/ "OUT" \in udp.watch
        /\ udp.watch # {} => udp.active

\* Requests leave and are reported in the order they were made, and try_send never
\* overtakes one that waits.
InOrder ==
    LET Rank(d) == CHOOSE i \in DOMAIN udp.submitted : udp.submitted[i] = d
        Rising(s) == \A i, j \in DOMAIN s : i < j => Rank(s[i]) < Rank(s[j])
    IN /\ Rising(udp.wire)
       /\ Rising([i \in DOMAIN udp.answered |-> udp.answered[i][1]] \o Waiting)

\* A request is reported as sent if and only if the kernel took it, once.
ToldTheTruth ==
    /\ \A i \in DOMAIN udp.answered :
        (udp.answered[i][2] = "sent") <=> (udp.answered[i][1] \in Range(udp.wire))
    /\ \A i, j \in DOMAIN udp.wire : udp.wire[i] = udp.wire[j] => i = j

\* When the close callback runs every request has been reported.
ClosedIsClean == udp.closing = "closed" =>
    /\ Waiting = <<>> /\ udp.watch = {} /\ ~udp.pending /\ ~udp.active /\ ~udp.fd
    /\ Range(udp.submitted) \subseteq
           {udp.answered[i][1] : i \in DOMAIN udp.answered} \union Range(udp.wire)
=============================================================================
