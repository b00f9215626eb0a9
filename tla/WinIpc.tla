--------------------------------- MODULE WinIpc ---------------------------------
(***************************************************************************)
(* The framing of IPC pipes on Windows: src/source/main/cpp/_win/pipe.c,   *)
(* with the export and import of sockets of _win/tcp.c.  A write is one     *)
(* frame: a header, the socket when one goes with it, the data.  The reader *)
(* takes frames apart into a queue of sockets and read callbacks.          *)
(***************************************************************************)
EXTENDS Integers, Sequences, SequencesExt, FiniteSets

CONSTANTS
    MaxData,      \* bound: bytes of one message
    MaxMessages,  \* bound: messages
    Buffers       \* sizes of the buffers alloc_cb gives

VARIABLE ipc

\* wire: what was written and did not arrive yet; arrived: what the reader's kernel holds; tokens
\* are headers, sockets and bytes, both numbered as they were sent.  remaining: payload_remaining;
\* queue: ipc_xfer_queue; at: the zero-byte read; step: where the loop's thread is in
\* uv__pipe_read_ipc.  got, accepted and dropped (imported and closed, or not importable) are
\* history.
Init == ipc =
    [wire |-> <<>>, arrived |-> <<>>, hung |-> FALSE, messages |-> 0, bytes |-> 0, sockets |-> 0,
     reading |-> FALSE, at |-> "no", remaining |-> 0, queue |-> <<>>, step |-> "idle",
     got |-> <<>>, accepted |-> <<>>, dropped |-> {}, ends |-> 0,
     closing |-> FALSE, endgame |-> FALSE, closed |-> FALSE, bad |-> FALSE, ok |-> TRUE]

Program == ipc.step \in {"idle", "data", "end"} /\ ~ipc.closed

-----------------------------------------------------------------------------
(* The other end *)

Header(bytes, socket) == [is |-> "header", data |-> bytes, socket |-> socket]

Bytes(first, n) == [i \in 1..n |-> [is |-> "byte", n |-> first + i]]

\* Mutant: the data goes before the socket.
DataFirst(first, n, socket) ==
    <<Header(n, socket > 0)>> \o Bytes(first, n)
      \o (IF socket > 0 THEN <<[is |-> "socket", n |-> socket]>> ELSE <<>>)

Frame(first, n, socket) ==
    <<Header(n, socket > 0)>> \o (IF socket > 0 THEN <<[is |-> "socket", n |-> socket]>> ELSE <<>>)
      \o Bytes(first, n)

\* uv__pipe_write_ipc, with a socket that uv__tcp_xfer_export duplicates (it listens on one that
\* is bound and does not yet listen) or none; a socket that cannot be is not sent at all.
WriteIpc ==
    /\ ipc.messages < MaxMessages /\ ~ipc.hung
    /\ \E n \in 0..MaxData, socket \in BOOLEAN :
         LET number == IF socket THEN ipc.sockets + 1 ELSE 0
         IN ipc' = [ipc EXCEPT !.wire = @ \o Frame(ipc.bytes, n, number), !.messages = @ + 1,
                               !.bytes = @ + n, !.sockets = IF socket THEN number ELSE @]

\* Something that is no frame of this library.
WriteOther ==
    /\ ~ipc.bad /\ ipc.messages < MaxMessages /\ ~ipc.hung
    /\ ipc' = [ipc EXCEPT !.wire = Append(@, [is |-> "other"]), !.bad = TRUE, !.messages = @ + 1]

\* The pipe hands over a part of what was written.
Arrives ==
    /\ ipc.wire # <<>>
    /\ ipc' = [ipc EXCEPT !.arrived = Append(@, Head(ipc.wire)), !.wire = Tail(@)]

HangsUp == ~ipc.hung /\ ipc' = [ipc EXCEPT !.hung = TRUE]

-----------------------------------------------------------------------------
(* Reading *)

Ended(s) == s.hung /\ s.wire = <<>> /\ s.arrived = <<>>

\* The zero-byte read.
Completes == ipc.at = "kernel" /\ (ipc.arrived # <<>> \/ Ended(ipc)) /\ ipc' = [ipc EXCEPT !.at = "posted"]

ReadStart ==
    /\ Program /\ ~ipc.reading /\ ~ipc.closing /\ ipc.ends = 0
    /\ ipc' = [ipc EXCEPT !.reading = TRUE, !.at = IF @ = "no" THEN "kernel" ELSE @]

\* uv__pipe_read_stop: a read that waits is interrupted.
Interrupted(s) == [s EXCEPT !.reading = FALSE, !.at = IF @ = "kernel" THEN "posted" ELSE @]

ReadStop == Program /\ ipc.reading /\ ipc' = Interrupted(ipc)

\* At the end of uv__process_pipe_read_req.
Finish(s) == [s EXCEPT !.step = "idle", !.at = IF s.reading /\ @ = "no" THEN "kernel" ELSE @]

\* uv__pipe_read_error_or_eof.
TellEnd(s) == [Interrupted(s) EXCEPT !.step = "end", !.ends = @ + 1]

\* uv__pipe_read_exactly waits, here for a token: it is blocked while there is none.
Exactly(s) == s.arrived # <<>> \/ Ended(s)

\* Mutant: as if the whole rest of the payload had been read.
AllRead(max, bytes_read) == max

Read(max, bytes_read) == bytes_read

\* uv__pipe_read_data with what is there, for a buffer of length len: maybe nothing, which is
\* told, too.  (When alloc_cb gives no buffer bytes_read keeps its first value, and the payload
\* counts as read: that is not followed.)
ReadData(s, len) ==
    LET max == IF s.remaining < len THEN s.remaining ELSE len
        n == IF Len(s.arrived) < max THEN Len(s.arrived) ELSE max
        data == SubSeq(s.arrived, 1, n)
    IN IF Ended(s) THEN TellEnd(s)
       ELSE [s EXCEPT !.arrived = SubSeq(@, n + 1, Len(@)), !.remaining = @ - Read(max, n),
                      !.got = @ \o [i \in 1..n |-> data[i].n],
                      !.ok = @ /\ \A i \in 1..n : data[i].is = "byte", !.step = "data"]

\* Mutant: the flag for a socket is not looked at when there is data.
SocketAlone(header) == header.socket /\ header.data = 0

HasSocket(header) == header.socket

\* A header: what is none ends the reading; else the payload is known, and a socket comes first.
ReadHeader(s) ==
    LET header == Head(s.arrived)
        t == [s EXCEPT !.arrived = Tail(@)]
    IN IF Ended(s) \/ header.is # "header" THEN TellEnd(IF Ended(s) THEN s ELSE t)
       ELSE LET u == [t EXCEPT !.remaining = header.data]
            IN IF HasSocket(header) THEN [u EXCEPT !.step = "socket"]
               ELSE IF u.remaining > 0 THEN [u EXCEPT !.step = "payload"] ELSE Finish(u)

\* Mutant: the newest socket comes first.
InFront(queue, socket) == <<socket>> \o queue

AtTail(queue, socket) == Append(queue, socket)

\* The socket: uv__pipe_queue_ipc_xfer_info.  Nothing is told when no data follows.
ReadSocket(s) ==
    LET u == [s EXCEPT !.queue = AtTail(@, Head(s.arrived).n), !.arrived = Tail(@),
                       !.ok = @ /\ Head(s.arrived).is = "socket"]
    IN IF Ended(s) THEN TellEnd(s)
       ELSE IF u.remaining > 0 THEN [u EXCEPT !.step = "payload"] ELSE Finish(u)

\* uv__process_pipe_read_req; an interrupted read is only queued again.
ProcessRead ==
    /\ ipc.step = "idle" /\ ipc.at = "posted"
    /\ LET s == [ipc EXCEPT !.at = "no"]
       IN ipc' = IF ~s.reading THEN [s EXCEPT !.endgame = @ \/ s.closing]
                 ELSE IF Ended(s) THEN TellEnd(s)
                 ELSE IF s.arrived = <<>> THEN Finish(s)
                 ELSE [s EXCEPT !.step = IF s.remaining > 0 THEN "payload" ELSE "header"]

\* uv__pipe_read_ipc, a step at a time.
ReadIpc ==
    \/ ipc.step = "header" /\ Exactly(ipc) /\ ipc' = ReadHeader(ipc)
    \/ ipc.step = "socket" /\ Exactly(ipc) /\ ipc' = ReadSocket(ipc)
    \/ ipc.step = "payload" /\ \E len \in Buffers : ipc' = ReadData(ipc, len)

\* A read callback returns: it goes on while payload remains, also when none was there, until
\* the rest arrives.
ReadReturns ==
    /\ ipc.step \in {"data", "end"}
    /\ ipc' = IF ipc.step = "data" /\ ipc.reading /\ ipc.remaining > 0 /\ ipc.at = "no"
              THEN [ipc EXCEPT !.step = "payload"]
              ELSE [Finish(ipc) EXCEPT !.endgame = ipc.closing /\ Finish(ipc).at = "no"]

-----------------------------------------------------------------------------
(* Sockets, and the end *)

\* uv__pipe_accept: uv__tcp_xfer_import may fail, and the socket is gone.
Accept ==
    /\ Program /\ ipc.queue # <<>> /\ ~ipc.closing
    /\ LET s == [ipc EXCEPT !.queue = Tail(@)]
       IN \/ ipc' = [s EXCEPT !.accepted = Append(@, Head(ipc.queue))]
          \/ ipc' = [s EXCEPT !.dropped = @ \union {Head(ipc.queue)}]

Close ==
    /\ Program /\ ~ipc.closing
    /\ LET s == Interrupted(ipc)
       IN ipc' = [s EXCEPT !.closing = TRUE, !.endgame = s.at = "no" /\ s.step = "idle"]

\* Mutant: the sockets nobody accepted stay open.
Forgotten(s) == {}

Unaccepted(s) == ToSet(s.queue)

\* uv__pipe_endgame.
Endgame ==
    /\ ipc.endgame /\ ipc.step = "idle" /\ ~ipc.closed
    /\ ipc' = [ipc EXCEPT !.closed = TRUE, !.endgame = FALSE, !.queue = <<>>,
                          !.dropped = @ \union Unaccepted(ipc), !.ok = @ /\ ipc.at = "no"]

Next ==
    \/ WriteIpc \/ WriteOther \/ Arrives \/ HangsUp \/ Completes
    \/ ReadStart \/ ReadStop \/ ProcessRead \/ ReadIpc \/ ReadReturns
    \/ Accept \/ Close \/ Endgame

Spec == Init /\ [][Next]_ipc

-----------------------------------------------------------------------------
(* Properties *)

TypeOK ==
    /\ ipc.at \in {"no", "kernel", "posted"}
    /\ ipc.step \in {"idle", "header", "socket", "payload", "data", "end"}
    /\ ipc.remaining \in 0..MaxData /\ ipc.got \in Seq(Nat) /\ ipc.queue \in Seq(1..MaxMessages)

\* What is read as a socket is one, and what is read as data is data.
AssertsHold == ipc.ok

\* Bytes that wait for the reader.
Pending == SelectSeq(ipc.arrived \o ipc.wire, LAMBDA t : t.is = "byte")

\* payload_remaining is what is left of the frame: that many bytes come next, and then a header
\* (a socket comes between a header and them).  No byte gets lost.
CountsAreExact ==
    LET next == ipc.arrived \o ipc.wire
        from == IF ipc.step = "socket" THEN 1 ELSE 0
    IN /\ ipc.bad \/ \A i \in 1..ipc.remaining : from + i <= Len(next) /\ next[from + i].is = "byte"
       /\ ipc.bad \/ Len(next) <= from + ipc.remaining \/ next[from + ipc.remaining + 1].is = "header"
       /\ ipc.bytes = Len(ipc.got) + Len(Pending)

\* Bytes are told in the order they were sent, sockets accepted in theirs.
InOrder ==
    /\ \A i \in 1..Len(ipc.got) : ipc.got[i] = i
    /\ \A i, j \in 1..Len(ipc.accepted) : i < j => ipc.accepted[i] < ipc.accepted[j]
    /\ \A i, j \in 1..Len(ipc.queue) : i < j => ipc.queue[i] < ipc.queue[j]
    /\ \A i \in 1..Len(ipc.accepted), j \in 1..Len(ipc.queue) : ipc.accepted[i] < ipc.queue[j]

\* Every socket that was sent is on its way, in the queue, accepted or dropped.
NoDescriptorLost ==
    LET way == {t.n : t \in {u \in ToSet(ipc.arrived \o ipc.wire) : u.is = "socket"}}
    IN 1..ipc.sockets = way \union ToSet(ipc.queue) \union ToSet(ipc.accepted) \union ipc.dropped

\* A pipe that reads has a read out, or its thread is on its way through a frame.
NothingStranded ==
    /\ ipc.reading /\ ipc.step = "idle" => ipc.at # "no"
    /\ ipc.closing /\ ~ipc.closed => ipc.endgame \/ ipc.at # "no" \/ ipc.step # "idle"

ClosedIsClean == ipc.closed => ipc.queue = <<>> /\ ipc.at = "no"
================================================================================
