-------------------------------- MODULE WinAccept --------------------------------
(***************************************************************************)
(* Servers on Windows: a named pipe (_win/pipe.c: bind, listen, accept,    *)
(* close) and TCP (_win/tcp.c, with the change to one accept at a time).   *)
(* A server keeps some accept requests, each with an instance of the pipe  *)
(* or a socket of its own; a connected one goes to pending_accepts, and    *)
(* uv_accept takes it, gives it to the client and queues the request again.*)
(***************************************************************************)
EXTENDS Integers, Sequences, SequencesExt, FiniteSets

CONSTANTS
    Instances,      \* accept requests (4 for pipes, 32 for TCP)
    MaxClients      \* bound: connections made

VARIABLE server

Requests == 1..Instances

\* Where a request is: nowhere, in the kernel, come through the port (with a client, or failed),
\* in pending_accepts, or given (accepted and, while the server changes to one accept at a time,
\* not queued).  open: the pipe instance or socket it holds.  count: activecnt.
Init == \E pipe, inUse \in BOOLEAN : server =
    [pipe |-> pipe, inUse |-> inUse, bound |-> FALSE, delayed |-> FALSE, listening |-> FALSE,
     at |-> [r \in Requests |-> "no"], open |-> {}, accepts |-> <<>>, reqs |-> 0, count |-> 0,
     single |-> FALSE, changing |-> FALSE, processed |-> 0, listens |-> 0,
     cb |-> FALSE, closing |-> FALSE, endgame |-> FALSE, closed |-> FALSE,
     made |-> 0, clients |-> 0, dropped |-> 0, ok |-> TRUE]

-----------------------------------------------------------------------------
(* Binding and listening *)

\* uv_pipe_bind2 creates the first instance; uv__tcp_try_bind keeps "address in use" for later.
Bind ==
    /\ ~server.bound /\ ~server.closing
    /\ server' = IF server.pipe
                 THEN IF server.inUse THEN server
                      ELSE [server EXCEPT !.bound = TRUE, !.open = @ \union {1}]
                 ELSE [server EXCEPT !.bound = TRUE, !.delayed = server.inUse]

\* uv__pipe_queue_accept and uv__tcp_queue_accept: the outcomes are waiting in the kernel, a
\* client that is there already, and a failure, which comes as a request that has failed.
\* The first instance of a pipe is there since it was bound.
QueueAccept(s, r, first) ==
    LET t == [s EXCEPT !.ok = @ /\ s.listening /\ (first <=> r \in s.open), !.reqs = @ + 1]
    IN {[t EXCEPT !.at[r] = "kernel", !.open = @ \union {r}],
        [t EXCEPT !.at[r] = "failed", !.open = @ \ {r}]}
       \union IF s.pipe /\ s.made < MaxClients
              THEN {[t EXCEPT !.at[r] = "client", !.open = @ \union {r}, !.made = @ + 1]} ELSE {}

\* What listening queues: the requests one after the other.
QueueAll(s, upTo) ==
    LET Grow(states, r) == UNION {QueueAccept(t, r, s.pipe /\ r = 1) : t \in states}
        f[n \in 0..upTo] == IF n = 0 THEN {s} ELSE Grow(f[n - 1], n)
    IN f[upTo]

\* uv__pipe_listen and uv__tcp_listen, the latter binding if need be.  A second uv_listen of a TCP
\* server counts it as active once more.
Listen ==
    /\ ~server.closing /\ server.listens < 2
    /\ IF server.pipe
       THEN /\ server.bound /\ ~server.listening
            /\ LET s == [server EXCEPT !.listening = TRUE, !.listens = @ + 1, !.count = @ + 1]
               IN server' \in QueueAll(s, Instances)
       ELSE IF server.delayed \/ (server.inUse /\ ~server.bound)
            THEN server' = [server EXCEPT !.delayed = TRUE, !.bound = TRUE]
            ELSE LET s == [server EXCEPT !.bound = TRUE, !.listening = TRUE, !.listens = @ + 1,
                                         !.count = @ + 1]
                 IN IF server.listens > 0 THEN server' = s
                    ELSE server' \in QueueAll(s, IF s.single THEN 1 ELSE Instances)

\* uv_tcp_simultaneous_accepts(0).
SingleAccept ==
    /\ ~server.pipe /\ ~server.single /\ ~server.changing
    /\ server' = [server EXCEPT !.single = TRUE, !.changing = server.listening]

-----------------------------------------------------------------------------
(* Requests *)

Connects(r) ==
    /\ server.at[r] = "kernel" /\ ~server.closing /\ server.made < MaxClients
    /\ server' = [server EXCEPT !.at[r] = "client", !.made = @ + 1]

\* The kernel gives up: the connection broke, or the server was closed.
Breaks(r) == server.at[r] = "kernel" /\ server' = [server EXCEPT !.at[r] = "broken"]

WantEndgame(s) == [s EXCEPT !.endgame = s.closing /\ s.reqs = 0]

\* uv__process_pipe_accept_req.  A failure is not told; the request is queued again.
ProcessPipe(s, r) ==
    IF s.closing
    THEN {WantEndgame([s EXCEPT !.ok = @ /\ r \notin s.open, !.reqs = @ - 1, !.at[r] = "no"])}
    ELSE IF s.at[r] = "client"
         THEN {[s EXCEPT !.ok = @ /\ r \in s.open, !.at[r] = "waits", !.accepts = <<r>> \o @,
                         !.cb = TRUE]}
         ELSE {WantEndgame([t EXCEPT !.reqs = @ - 1]) :
                 t \in QueueAccept([s EXCEPT !.open = @ \ {r}], r, FALSE)}

\* Mutant: a closed server's requests are queued again.
Whoever(s) == TRUE

StillListens(s) == s.listening

\* uv__process_tcp_accept_req.  A request without a socket ends the listening.
ProcessTcp(s, r) ==
    IF r \notin s.open
    THEN IF s.listening
         THEN {[s EXCEPT !.listening = FALSE, !.count = @ - 1, !.at[r] = "no", !.cb = TRUE]}
         ELSE {WantEndgame([s EXCEPT !.at[r] = "no", !.reqs = @ - 1])}
    ELSE IF s.at[r] = "client"
         THEN {[s EXCEPT !.at[r] = "waits", !.accepts = <<r>> \o @, !.cb = TRUE]}
         ELSE LET t == [s EXCEPT !.open = @ \ {r}, !.at[r] = "no"]
              IN {WantEndgame([u EXCEPT !.reqs = @ - 1]) :
                    u \in IF StillListens(t) THEN QueueAccept(t, r, FALSE) ELSE {t}}

Process(r) ==
    /\ ~server.cb /\ server.at[r] \in {"client", "failed", "broken"}
    /\ server' \in IF server.pipe THEN ProcessPipe(server, r) ELSE ProcessTcp(server, r)

CallbackReturns ==
    server.cb /\ server' = WantEndgame([server EXCEPT !.cb = FALSE, !.reqs = @ - 1])

\* Mutant: the request is queued again before its socket is forgotten.
KeepsIt(s, r) == s

Taken(s, r) == [s EXCEPT !.open = @ \ {r}]

\* Mutant: the change to single accepts waits for one accept more.
OneMore(s) == s.processed > Instances

UsedUp(s) == s.processed >= Instances

\* While a server changes to one accept at a time, the accepts that were queued are used up and
\* then the first alone is queued.
QueueAgain(s, r) ==
    IF s.closing THEN {s}
    ELSE IF ~s.changing THEN QueueAccept(s, r, FALSE)
    ELSE LET t == [s EXCEPT !.processed = @ + 1, !.ok = @ /\ s.single]
         IN IF ~UsedUp(t) THEN {t}
            ELSE QueueAccept([t EXCEPT !.processed = 0, !.changing = FALSE], 1, FALSE)

\* uv__pipe_accept and uv__tcp_accept, into a client that may not be able to use the socket.
\* The guard that the server listens or closes is not in the code: it cuts accepting from a TCP
\* server that stopped to listen because another of its requests failed, where changing to single
\* accepts queues a request (tcp.c:753) and meets the assertion of uv__tcp_queue_accept
\* (tcp.c:470).  No property says anything about that.
AcceptInto(usable) ==
    /\ server.accepts # <<>>
    /\ LET r == Head(server.accepts)
           s == [server EXCEPT !.accepts = Tail(@), !.at[r] = "given",
                    !.clients = IF usable THEN @ + 1 ELSE @,
                    !.dropped = IF usable THEN @ ELSE @ + 1]
       IN /\ r \in server.open
          /\ server.pipe => usable
          /\ server.listening \/ server.closing
          /\ server' \in QueueAgain(Taken(s, r), r)

-----------------------------------------------------------------------------
(* Closing *)

\* uv__pipe_close and uv__tcp_close: every instance and socket is closed.
Close ==
    /\ ~server.closing
    /\ LET s == [server EXCEPT !.closing = TRUE, !.open = {},
                   !.dropped = @ + Cardinality({r \in server.open : server.at[r] \in {"client", "waits"}}),
                   !.count = IF server.listening THEN @ - 1 ELSE @, !.listening = FALSE]
       IN server' = WantEndgame(s)

Endgame ==
    /\ ~server.cb /\ server.endgame
    /\ server' = [server EXCEPT !.endgame = FALSE, !.closed = TRUE, !.ok = @ /\ server.reqs = 0]

Loop == CallbackReturns \/ Endgame \/ \E r \in Requests : Process(r)

Next ==
    \/ Loop \/ Bind \/ Listen \/ SingleAccept \/ Close
    \/ \E usable \in BOOLEAN : AcceptInto(usable)
    \/ \E r \in Requests : Connects(r) \/ Breaks(r)

Spec == Init /\ [][Next]_server

-----------------------------------------------------------------------------
(* Properties *)

TypeOK ==
    /\ server.at \in [Requests -> {"no", "kernel", "client", "failed", "broken", "waits", "given"}]
    /\ server.open \subseteq Requests /\ server.reqs \in Nat /\ server.count \in Nat
    /\ server.processed \in Nat

OnTheWay == {r \in Requests : server.at[r] \in {"kernel", "client", "failed", "broken"}}

\* reqs_pending counts the requests in the kernel and in the port, and the one whose callback
\* runs; a server is active exactly while it listens (but for a TCP server that was told to
\* listen twice).
CountsAreExact ==
    /\ server.reqs = Cardinality(OnTheWay) + (IF server.cb THEN 1 ELSE 0)
    /\ server.listens < 2 => server.count = IF server.listening THEN 1 ELSE 0
    /\ IsInjective(server.accepts)

\* The assertions about requests and their handles, when they are queued and processed, but for
\* the accept that AcceptInto cuts.
AssertsHold == server.ok

\* A client is waiting with its handle, was given, or was turned away when the server closed or
\* the socket could not be used: no handle is forgotten, none given twice.
NoDescriptorLost ==
    LET held == {r \in Requests : server.at[r] \in {"client", "waits"}} \intersect server.open
        broken == server.made - server.clients - server.dropped - Cardinality(held)
    IN broken = 0

\* A closed server has nothing in the kernel and holds no handle.
ClosedIsClean == server.closed => OnTheWay = {} /\ server.open = {}

\* A server that listens has each of its requests on the way or with a client, or, while it
\* makes or is told to make single accepts, at least one; closing waits for one.
\* (A TCP server that stopped to listen because an accept failed and is told to listen again
\* queues nothing.)
NothingStranded ==
    /\ server.listening /\ server.pipe =>
         \A r \in Requests : r \in OnTheWay \/ Contains(server.accepts, r)
    /\ server.listening /\ ~server.pipe /\ server.listens < 2 =>
         LET served == {r \in Requests : r \in OnTheWay \/ Contains(server.accepts, r)}
         IN IF server.single THEN served # {} ELSE served = Requests
    /\ server.closing /\ ~server.closed => server.endgame \/ server.reqs > 0
=============================================================================
