--------------------------------- MODULE WinTcp ----------------------------------
(***************************************************************************)
(* A TCP connection on Windows (_win/tcp.c): connecting, with an error of  *)
(* bind kept for later; the zero-byte read and the reads that follow it;   *)
(* writes; shutting down behind the last write; closing, which keeps the   *)
(* socket until the last write is answered.                                *)
(***************************************************************************)
EXTENDS Integers, Sequences, FiniteSets

CONSTANTS
    MaxOps,     \* bound: writes, bytes of the peer, starts of reading
    Reads       \* how often one completion reads (32)

VARIABLE tcp

\* op: the zero-byte read, no, in the kernel or posted; connect and the writes likewise.
\* left: how often uv__process_tcp_read_req still reads.  cb: the callback that runs.
\* told: answers to the program that ended reading (history).
Init == \E inUse \in BOOLEAN : tcp =
    [inUse |-> inUse, delayed |-> FALSE, bound |-> FALSE, socket |-> FALSE, conn |-> FALSE,
     readable |-> FALSE, writable |-> FALSE, reading |-> FALSE, rp |-> FALSE, op |-> "no",
     fails |-> FALSE, left |-> 0, avail |-> 0, eof |-> FALSE, broken |-> FALSE, connect |-> "no",
     sent |-> 0, kernel |-> <<>>, posted |-> {}, wpending |-> 0, shut |-> "no", halved |-> FALSE,
     reqs |-> 0, count |-> 0, closing |-> FALSE, endgame |-> FALSE, closed |-> FALSE,
     cb |-> "no", told |-> 0, starts |-> 0, ok |-> TRUE]

WantEndgame(s) == [s EXCEPT !.endgame = s.closing /\ s.reqs = 0]
ReqDone(s) == WantEndgame([s EXCEPT !.reqs = @ - 1])

-----------------------------------------------------------------------------
(* Connecting *)

\* uv__tcp_try_bind: "address in use" is kept for uv_tcp_connect (or uv_listen).
Bind ==
    /\ ~tcp.bound /\ ~tcp.closing
    /\ tcp' = [tcp EXCEPT !.bound = TRUE, !.socket = TRUE, !.delayed = tcp.inUse]

\* uv__tcp_try_connect, once: it binds if need be; the kept error comes as a pending request.
Connect ==
    /\ ~tcp.closing /\ tcp.connect = "no" /\ ~tcp.conn /\ tcp.starts = 0
    /\ LET s == [tcp EXCEPT !.bound = TRUE, !.socket = TRUE, !.reqs = @ + 1, !.starts = 1]
       IN tcp' \in IF s.delayed THEN {[s EXCEPT !.connect = "posted"]}
                   ELSE {[s EXCEPT !.connect = "kernel"], [s EXCEPT !.connect = "posted"]}

Connects ==
    /\ tcp.connect = "kernel"
    /\ tcp' \in {[tcp EXCEPT !.connect = "posted", !.broken = FALSE],
                 [tcp EXCEPT !.connect = "refused"]}

\* uv__process_tcp_connect_req.
ProcessConnect ==
    /\ tcp.cb = "no" /\ tcp.connect \in {"posted", "refused"}
    /\ LET s == [tcp EXCEPT !.connect = "no", !.cb = "connect", !.delayed = FALSE]
       IN tcp' = IF tcp.delayed \/ tcp.closing \/ tcp.connect = "refused" THEN s
                 ELSE [s EXCEPT !.conn = TRUE, !.readable = TRUE, !.writable = TRUE]

-----------------------------------------------------------------------------
(* Reading *)

\* uv__tcp_queue_read.
QueueRead(s) ==
    [s EXCEPT !.ok = @ /\ s.reading /\ ~s.rp, !.rp = TRUE, !.reqs = @ + 1,
              !.op = IF s.avail > 0 \/ s.eof \/ s.broken THEN "posted" ELSE "kernel",
              !.fails = s.broken]

Kernel ==
    /\ tcp.op = "kernel" /\ (tcp.avail > 0 \/ tcp.eof \/ tcp.broken \/ tcp.closing)
    /\ tcp' = [tcp EXCEPT !.op = "posted", !.fails = tcp.broken \/ tcp.closing]

ReadStart ==
    /\ ~tcp.closing /\ ~tcp.reading /\ tcp.readable /\ tcp.told = 0 /\ tcp.starts <= MaxOps
    /\ LET s == [tcp EXCEPT !.reading = TRUE, !.starts = @ + 1, !.count = @ + 1]
       IN tcp' = IF s.rp THEN s ELSE QueueRead(s)

Stopped(s) == IF s.reading THEN [s EXCEPT !.reading = FALSE, !.count = @ - 1] ELSE s

ReadStop == tcp.reading /\ tcp' = Stopped(tcp)

\* Mutant: reading goes on behind the end.
StaysReading(s) == s

Ends(s) == Stopped(s)

Failed(s) == [Ends(s) EXCEPT !.readable = FALSE, !.writable = FALSE, !.told = @ + 1, !.cb = "read",
                             !.left = 0]

\* Mutant: the loop of reads does not look whether the program has stopped reading.
ReadsAll(s) == s.left > 0

MayRead(s) == s.reading /\ s.left > 0

\* The loop of uv__process_tcp_read_req, up to the next callback, and what is behind it.
ReadOn(s) ==
    IF ~MayRead(s)
    THEN {IF s.reading /\ ~s.rp THEN QueueRead(s) ELSE s}
    ELSE IF s.broken THEN {Failed(s)}
    ELSE IF s.avail > 0
         THEN {[s EXCEPT !.avail = @ - 1, !.left = l, !.cb = "read", !.ok = @ /\ s.reading] :
                  l \in {0, s.left - 1}}
    ELSE IF s.eof THEN {[Ends(s) EXCEPT !.told = @ + 1, !.cb = "read", !.left = 0]}
    ELSE {[s EXCEPT !.cb = "read", !.left = 0]}

\* uv__process_tcp_read_req: the request is given back at its end, behind the callbacks.
ProcessRead ==
    /\ tcp.cb = "no" /\ tcp.op = "posted"
    /\ LET s == [tcp EXCEPT !.rp = FALSE, !.op = "no", !.left = Reads]
       IN IF tcp.fails THEN tcp' = IF s.reading THEN Failed(s) ELSE ReqDone(s)
          ELSE \E t \in ReadOn(s) : tcp' = IF t.cb = "read" THEN t ELSE ReqDone(t)

ReadReturns ==
    /\ tcp.cb = "read"
    /\ \E t \in ReadOn([tcp EXCEPT !.cb = "no"]) :
         tcp' = IF t.cb = "read" THEN t ELSE ReqDone(t)

-----------------------------------------------------------------------------
(* Writing, shutting down, closing *)

\* uv__tcp_write: sent at once, taken by the kernel, or failed: a request in any case.
Write ==
    /\ tcp.writable /\ tcp.sent < MaxOps
    /\ LET s == [tcp EXCEPT !.sent = @ + 1, !.wpending = @ + 1, !.reqs = @ + 1]
       IN tcp' \in {[s EXCEPT !.kernel = Append(@, s.sent)]}
                   \union IF s.kernel = <<>> THEN {[s EXCEPT !.posted = @ \union {s.sent}]} ELSE {}

\* uv__tcp_try_write: not before the writes that wait.
TryWrite ==
    /\ tcp.writable /\ ~tcp.closing /\ tcp.sent < MaxOps /\ tcp.wpending = 0
    /\ tcp' = [tcp EXCEPT !.sent = @ + 1]

Sent == tcp.kernel # <<>>
        /\ tcp' = [tcp EXCEPT !.kernel = Tail(@), !.posted = @ \union {Head(tcp.kernel)}]

\* uv__process_tcp_shutdown_req up to its callback.
ShutdownNow(s) ==
    {[s EXCEPT !.ok = @ /\ s.wpending = 0 /\ ~s.halved /\ s.conn, !.shut = "no", !.cb = "shut",
               !.halved = h] : h \in IF s.closing THEN {FALSE} ELSE BOOLEAN}

Shutdown ==
    /\ tcp.writable /\ tcp.shut = "no" /\ ~tcp.closing
    /\ tcp' = [tcp EXCEPT !.writable = FALSE, !.reqs = @ + 1,
                          !.shut = IF tcp.wpending = 0 THEN "posted" ELSE "waits"]

ProcessShutdown == tcp.cb = "no" /\ tcp.shut = "posted" /\ tcp' \in ShutdownNow(tcp)

\* (A write that is sent at once is in the list of pending requests when an earlier one may
\* still be in the port: the answers need not come in the order of the writes.)
\* uv__process_tcp_write_req, up to the callback and behind it.
ProcessWrite ==
    /\ tcp.cb = "no"
    /\ \E w \in tcp.posted : tcp' = [tcp EXCEPT !.posted = @ \ {w}, !.cb = "write"]

\* Mutant: the socket is closed when the first write comes back.
AtFirst(s) == s.closing

LastWrite(s) == s.closing /\ s.wpending = 0

CloseSocket(s) == [s EXCEPT !.ok = @ /\ s.socket, !.socket = FALSE]

WriteReturns ==
    /\ tcp.cb = "write"
    /\ LET s == [tcp EXCEPT !.cb = "no", !.wpending = @ - 1]
           t == IF LastWrite(s) THEN CloseSocket(s) ELSE s
       IN \/ t.wpending = 0 /\ t.shut = "waits" /\ tcp' \in {[u EXCEPT !.cb = "last"] : u \in ShutdownNow(t)}
          \/ ~(t.wpending = 0 /\ t.shut = "waits") /\ tcp' = ReqDone(t)

\* The callback of the shutdown returns, to uv__process_reqs or into the last write's answer.
ShutdownReturns ==
    /\ tcp.cb \in {"shut", "last"}
    /\ LET s == ReqDone([tcp EXCEPT !.cb = "no"])
       IN tcp' = IF tcp.cb = "last" THEN ReqDone(s) ELSE s

ConnectReturns == tcp.cb = "connect" /\ tcp' = ReqDone([tcp EXCEPT !.cb = "no"])

\* uv__tcp_close; the operations of the socket are cancelled.
Close ==
    /\ ~tcp.closing
    /\ LET s == [Stopped(tcp) EXCEPT !.closing = TRUE, !.readable = FALSE, !.writable = FALSE]
           t == IF s.socket /\ (~s.conn \/ s.wpending = 0) THEN CloseSocket(s) ELSE s
       IN tcp' = WantEndgame(t)

\* uv__tcp_endgame.
Endgame ==
    /\ tcp.cb = "no" /\ tcp.endgame
    /\ tcp' = [tcp EXCEPT !.endgame = FALSE, !.closed = TRUE, !.ok = @ /\ tcp.reqs = 0 /\ ~tcp.socket]

Peer ==
    /\ tcp.conn /\ ~tcp.eof
    /\ tcp' \in {[tcp EXCEPT !.eof = TRUE], [tcp EXCEPT !.eof = TRUE, !.broken = TRUE]}
                \union IF tcp.avail < MaxOps THEN {[tcp EXCEPT !.avail = @ + 1]} ELSE {}

System == Connects \/ Kernel \/ Sent
Loop == ProcessConnect \/ ProcessRead \/ ReadReturns \/ ProcessShutdown \/ ProcessWrite
        \/ WriteReturns \/ ShutdownReturns \/ ConnectReturns \/ Endgame

Next == System \/ Loop \/ Bind \/ Connect \/ ReadStart \/ ReadStop \/ Write \/ TryWrite
        \/ Shutdown \/ Close \/ Peer

Spec == Init /\ [][Next]_tcp
FairSpec == Spec /\ WF_tcp(System) /\ WF_tcp(Loop)

-----------------------------------------------------------------------------
(* Properties *)

TypeOK ==
    /\ tcp.op \in {"no", "kernel", "posted"} /\ tcp.shut \in {"no", "waits", "posted"}
    /\ tcp.cb \in {"no", "connect", "read", "write", "shut", "last"}
    /\ tcp.connect \in {"no", "kernel", "posted", "refused"} /\ tcp.reqs \in Nat

\* reqs_pending and write_reqs_pending count what is not answered, also in the middle of the
\* callbacks, one of which may run inside the answer of another request.
CountsAreExact ==
    LET One(b) == IF b THEN 1 ELSE 0
        writes == Len(tcp.kernel) + Cardinality(tcp.posted) + One(tcp.cb = "write")
    IN /\ tcp.wpending = writes
       /\ tcp.reqs = writes + One(tcp.rp) + One(tcp.shut # "no") + One(tcp.connect # "no")
                     + One(tcp.cb \in {"connect", "read", "shut", "last"}) + One(tcp.cb = "last")
       /\ tcp.count = One(tcp.reading)

\* The assertions of the reads, of uv__process_tcp_shutdown_req and of uv__tcp_endgame.
AssertsHold == tcp.ok

\* A closed connection has nothing in the kernel and in the port, and its socket is closed; the
\* socket of one being closed is kept only for writes.
ClosedIsClean ==
    /\ tcp.closed => /\ tcp.op = "no" /\ tcp.kernel = <<>> /\ tcp.posted = {} /\ tcp.connect = "no"
                     /\ ~tcp.socket
    /\ tcp.closing => (tcp.socket <=> tcp.conn /\ tcp.wpending > 0)

\* The end of the peer, or the error that ended the connection, is told once.
ToldOnce == tcp.told <= 1

\* While the program reads, a read is under way or a callback asks for one; a shutdown that waits
\* has writes before it; closing waits for a request.
NothingStranded ==
    /\ tcp.reading => tcp.rp \/ tcp.cb = "read"
    /\ tcp.shut = "waits" => tcp.wpending > 0
    /\ tcp.closing /\ ~tcp.closed => tcp.endgame \/ tcp.reqs > 0

CloseReturns == tcp.closing ~> tcp.closed
=============================================================================
