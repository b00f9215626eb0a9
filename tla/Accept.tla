--------------------------------- MODULE Accept ---------------------------------
(***************************************************************************)
(* Descriptors that a stream hands to the program: the connections of a    *)
(* listening socket and the descriptors that come over an IPC pipe         *)
(* (src/source/main/cpp/_darwin/stream.c, with the bind and listen of      *)
(* tcp.c and pipe.c).                                                      *)
(*                                                                         *)
(* One server stream, either listening or IPC.  The program may accept in  *)
(* connection_cb or read_cb, later, or never, into clients that cannot     *)
(* take the descriptor, and close the stream with descriptors waiting.     *)
(***************************************************************************)
EXTENDS Integers, Sequences, Functions, FiniteSets

CONSTANTS
    MaxFds,   \* how many descriptors the peers cause to exist
    Grow      \* by how many places queued_fds grows (8)

VARIABLE acc

Descriptors == 1..MaxFds
NoFd == 0

\* uv__stream_init: it opens the loop's spare descriptor if there is none, or fails to.
Init == \E ipc, tcp, spare \in BOOLEAN : acc =
    [pc |-> "loop", ipc |-> ipc, tcp |-> tcp /\ ~ipc, fd |-> ipc, delayed_error |-> FALSE,
     listening |-> FALSE, watch |-> FALSE, reading |-> FALSE, closing |-> FALSE, name |-> FALSE,
     emfile_fd |-> spare, backlog |-> 0, accepted_fd |-> NoFd, queued |-> <<>>, size |-> 0,
     made |-> 0, clients |-> <<>>, closed |-> {}, refused |-> FALSE]

-----------------------------------------------------------------------------
(* Making a server *)

Program == acc.pc \in {"loop", "callback"} /\ ~acc.closing

\* uv__tcp_bind: the socket stays when a step behind it fails, and an address in use
\* is told by uv_listen.
TcpBind ==
    /\ Program /\ acc.tcp /\ ~acc.listening
    /\ \/ \E inUse \in BOOLEAN : acc' = [acc EXCEPT !.fd = TRUE, !.delayed_error = inUse]
       \/ acc' = [acc EXCEPT !.fd = TRUE]

\* uv_pipe_bind2: a socket that cannot be bound is closed again; the file system keeps
\* the name of one that is.
PipeBind ==
    /\ Program /\ ~acc.tcp /\ ~acc.fd
    /\ \E ok \in BOOLEAN : acc' = [acc EXCEPT !.fd = ok, !.name = ok]

\* uv_listen with uv__tcp_listen or uv__pipe_listen.  Neither looks whether the stream listens
\* already; that the program listens once is its obligation here: a second uv_listen while a
\* connection waits for uv_accept starts POLLIN again, and with the next connection the assertion
\* of uv__server_io that none waits (stream.c:514) fails.
Listen ==
    /\ Program /\ ~acc.ipc /\ ~acc.listening /\ ~acc.delayed_error
    /\ acc.tcp \/ acc.fd
    /\ acc' = [acc EXCEPT !.fd = TRUE, !.listening = TRUE, !.watch = TRUE]

\* The reading of an IPC pipe.
ReadStart ==
    /\ Program /\ acc.ipc /\ ~acc.reading
    /\ acc' = [acc EXCEPT !.reading = TRUE, !.watch = TRUE]

ReadStop ==
    /\ Program /\ acc.ipc /\ acc.reading
    /\ acc' = [acc EXCEPT !.reading = FALSE, !.watch = FALSE]

-----------------------------------------------------------------------------
(* Descriptors arrive *)

\* A peer connects.
Connects ==
    /\ acc.listening /\ ~acc.closing /\ acc.made < MaxFds
    /\ acc' = [acc EXCEPT !.backlog = @ + 1, !.made = @ + 1]

\* The number of the next descriptor the kernel gives.
Next1 == acc.made - acc.backlog + 1

\* uv__server_io, a connection that uv__accept takes: the callback runs.
Accepted ==
    /\ acc.pc = "loop" /\ acc.watch /\ acc.listening /\ acc.backlog > 0
    /\ acc' = [acc EXCEPT !.accepted_fd = Next1, !.backlog = @ - 1, !.pc = "callback"]

\* uv__server_io when there are no descriptors left, with uv__emfile_trick: the spare one
\* is given up to accept and close whatever waits, and may not come back.
NoDescriptors ==
    /\ acc.pc = "loop" /\ acc.watch /\ acc.listening /\ acc.backlog > 0 /\ acc.emfile_fd
    /\ \E again \in BOOLEAN :
        acc' = [acc EXCEPT !.closed = @ \union Next1..acc.made,
                           !.backlog = 0, !.emfile_fd = again]

\* Mutant: the stream stays watched while the last connection still waits.
NeverStopped(a) == a.watch

\* The end of uv__server_io: no more of them until this one is accepted.
StillWatched(a) == a.watch /\ (a.listening => a.accepted_fd = NoFd)

CallbackReturns ==
    /\ acc.pc = "callback"
    /\ acc' = [acc EXCEPT !.watch = StillWatched(acc), !.pc = "loop"]

\* uv__stream_queue_fd: the places in queued_fds when it holds n descriptors.
Room(size, n) == IF n <= size THEN size ELSE size + Grow * ((n - size + Grow - 1) \div Grow)

\* Mutant: the descriptors behind one that could not be kept are forgotten.
Rejected(from, to) == {from}

\* What uv__stream_recv_cmsg closes once an error has happened.
Dropped(from, to) == from..to

\* uv__read of a message with k descriptors, uv__stream_recv_cmsg, and the read callback
\* with the data or with the error.
Receive(k) ==
    /\ acc.pc = "loop" /\ acc.ipc /\ acc.reading /\ acc.made + k <= MaxFds
    /\ LET first == acc.made + 1
           last == acc.made + k
           from == IF acc.accepted_fd = NoFd THEN first + 1 ELSE first
           base == [acc EXCEPT !.made = last, !.pc = "callback",
                               !.accepted_fd = IF @ = NoFd THEN first ELSE @]
       IN \E n \in 0..last - from + 1 : \* how many were queued before memory ran out
            LET kept == [i \in 1..n |-> from + i - 1]
                all == n = last - from + 1
                room == Room(acc.size, Len(acc.queued) + n)
            IN /\ all \/ Len(acc.queued) + n = room
               /\ acc' = [base EXCEPT !.queued = @ \o kept, !.size = room,
                    !.closed = IF all THEN @ ELSE @ \union Dropped(from + n, last)]

-----------------------------------------------------------------------------
(* uv_accept and uv_close *)

\* Mutant: the first of the queued descriptors stays in the queue as well.
KeepsFirst(a) == a.queued

\* The queue after its first descriptor became accepted_fd.
WithoutFirst(a) == Tail(a.queued)

\* Mutant: the listening stream is not watched again.
NeverAgain(a, ok) == a.watch

\* The last lines of uv_accept: the stream is watched again, but not after an error.
WatchedAgain(a, ok) == a.watch \/ (a.queued = <<>> /\ ok)

\* uv_accept into a client that takes the descriptor or fails to, in which case the
\* descriptor is closed.  EAGAIN when there is none.
AcceptInto(ok) ==
    /\ Program /\ acc.accepted_fd # NoFd
    /\ acc' = [acc EXCEPT
           !.clients = IF ok THEN Append(@, acc.accepted_fd) ELSE @,
           !.closed = IF ok THEN @ ELSE @ \union {acc.accepted_fd},
           !.accepted_fd = IF acc.queued = <<>> THEN NoFd ELSE Head(acc.queued),
           !.queued = IF @ = <<>> THEN @ ELSE WithoutFirst(acc),
           !.size = IF Len(acc.queued) <= 1 THEN 0 ELSE @,
           !.watch = WatchedAgain(acc, ok),
           !.refused = @ \/ ~ok]

\* Mutant: only the first descriptor is closed.
HeldFirst(a) == {a.accepted_fd} \ {NoFd}

\* The descriptors uv__stream_close finds in the stream.
Held(a) == ({a.accepted_fd} \ {NoFd}) \union Range(a.queued)

\* uv_close with uv__pipe_close, uv__tcp_close and uv__stream_close; the kernel drops the
\* connections that were not accepted.
Close ==
    /\ Program
    /\ acc' = [acc EXCEPT !.closing = TRUE, !.fd = FALSE, !.watch = FALSE, !.reading = FALSE,
           !.name = FALSE, !.closed = @ \union Held(acc) \union Next1..acc.made,
           !.backlog = 0, !.accepted_fd = NoFd, !.queued = <<>>, !.size = 0]

Next ==
    \/ TcpBind \/ PipeBind \/ Listen \/ ReadStart \/ ReadStop \/ Connects
    \/ Accepted \/ NoDescriptors \/ CallbackReturns \/ Close
    \/ \E k \in 1..MaxFds : Receive(k)
    \/ \E ok \in BOOLEAN : AcceptInto(ok)

Spec == Init /\ [][Next]_acc

-----------------------------------------------------------------------------
(* Properties *)

TypeOK ==
    /\ acc.pc \in {"loop", "callback"}
    /\ acc.accepted_fd \in Descriptors \union {NoFd}
    /\ Range(acc.queued) \subseteq Descriptors /\ acc.closed \subseteq Descriptors
    /\ acc.backlog \in 0..MaxFds /\ Len(acc.queued) <= acc.size

\* Every descriptor that came in is in exactly one place: with the program, closed, in the
\* stream, or still in the kernel's backlog.  None is lost and none is given twice.
NoDescriptorLost ==
    /\ Range(acc.clients) \union acc.closed \union Held(acc) = 1..(Next1 - 1)
    /\ Len(acc.clients) + Cardinality(acc.closed) + Cardinality(Held(acc)) = Next1 - 1
    /\ Len(acc.queued) > 0 => acc.accepted_fd # NoFd

\* Connections are accepted in the order they came.
InOrder == \A i, j \in DOMAIN acc.clients : i < j => acc.clients[i] < acc.clients[j]

\* The assertions of uv__server_io, of a stream that uv_listen was called for once.
AssertsHold == (acc.pc = "loop" /\ acc.listening /\ acc.watch) =>
    acc.accepted_fd = NoFd /\ ~acc.closing

\* A listening stream is watched unless a connection waits for uv_accept, as long as no
\* uv_accept failed: after one that did nothing restarts it.
NothingStranded == (acc.pc = "loop" /\ acc.listening /\ ~acc.closing) =>
    acc.watch \/ acc.accepted_fd # NoFd \/ acc.refused

\* A closed stream holds nothing, and no name in the file system.
ClosedIsClean == acc.closing => Held(acc) = {} /\ acc.backlog = 0 /\ ~acc.fd /\ ~acc.name
=============================================================================
