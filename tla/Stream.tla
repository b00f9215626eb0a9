--------------------------------- MODULE Stream ---------------------------------
(***************************************************************************)
(* A stream that writes: src/source/main/cpp/_darwin/stream.c, with the    *)
(* connects of tcp.c and pipe.c and the blocking streams of tty.c.         *)
(*                                                                         *)
(* One loop thread.  The program acts between two turns of the loop and in *)
(* every callback: it connects, writes, shuts down, reads and closes while *)
(* the functions that call it are on the stack.  The kernel decides how    *)
(* much a write takes, when a connect ends and when the peer resets.       *)
(***************************************************************************)
EXTENDS Integers, FiniteSets, Queues, SequencesExt

CONSTANTS
    Writes,        \* the write requests, each used once
    Sizes,         \* how many bytes a write may have
    MaxSize,
    WriteCount,    \* the 32 in uv__write
    ReadCount,     \* the 32 in uv__read
    EarlyShutdown, \* whether the program calls uv_shutdown before it knows of the connection
    None

ASSUME StreamAssumption ==
    /\ IsFiniteSet(Writes) /\ None \notin Writes
    /\ MaxSize \in Nat /\ Sizes \subseteq 0..MaxSize
    /\ WriteCount \in Nat /\ ReadCount \in Nat \ {0}
    /\ EarlyShutdown \in BOOLEAN

VARIABLES
    life,          \* "open", "closing", "closed"
    fd,            \* the stream has a descriptor
    link,          \* the kernel's view: "none", "connecting", "up", "refused", "reset"
    flags,         \* READABLE, WRITABLE, SHUT, READING, BLOCKING_WRITES
    connectReq, delayedError, shutdownReq,
    writeQueue,    \* write_queue
    completed,     \* write_completed_queue
    local,         \* the queue on the stack of uv__write_callbacks
    left,          \* [Writes]: bytes of the request that are not written
    error,         \* [Writes]: req->error: "ok", "failed"
    queueSize,     \* write_queue_size
    activeReqs,    \* the loop's active_reqs, as far as this stream is concerned
    polled,        \* the events of the watcher: "IN", "OUT"
    fed,           \* the watcher is in pending_queue
    at,            \* where the loop is in the functions of stream.c
    cb,            \* a callback of the program is running
    writing,       \* uv__write is running, with its count
    count, reads,  \* the counts of uv__write and of uv__read
    verdict,       \* history [Writes]: what the write callback was told
    ended          \* history: the shutdown callback was called

handle == <<life, fd, link, flags>>
requestVars == <<connectReq, delayedError, shutdownReq>>
writeVars == <<writeQueue, completed, left, error, queueSize>>
watcherVars == <<polled, fed>>
step == <<writing, count, reads>>
control == <<at, cb, step>>
history == <<verdict, ended>>
vars == <<handle, requestVars, writeVars, local, activeReqs, watcherVars, control, history>>

\* A stream that is to connect, one that is connected (uv_tcp_open, uv_pipe_open,
\* uv_accept) and a terminal with blocking writes (uv_tty_init).
Init ==
    /\ life = "open"
    /\ \/ /\ fd = FALSE /\ link = "none" /\ flags = {}
       \/ /\ fd = TRUE /\ link = "up"
          /\ flags \in {{"READABLE", "WRITABLE"}, {"READABLE", "WRITABLE", "BLOCKING_WRITES"}}
    /\ connectReq = FALSE /\ delayedError = FALSE /\ shutdownReq = FALSE
    /\ writeQueue = <<>> /\ completed = <<>> /\ local = <<>>
    /\ left = [w \in Writes |-> 0] /\ error = [w \in Writes |-> "unused"]
    /\ queueSize = 0 /\ activeReqs = 0
    /\ polled = {} /\ fed = FALSE
    /\ at = "loop" /\ cb = FALSE /\ writing = FALSE /\ count = 0 /\ reads = 0
    /\ verdict = [w \in Writes |-> "none"] /\ ended = FALSE

-----------------------------------------------------------------------------
(* What the program does *)

Program == ~writing /\ (cb \/ at = "loop")

\* uv__tcp_connect: connect(2) is under way, is refused at once, or succeeds.
Connect ==
    /\ Program /\ life = "open" /\ link = "none" /\ ~connectReq
    /\ fd' = TRUE /\ flags' = flags \union {"READABLE", "WRITABLE"}
    /\ link' \in {"connecting", "up", "refused"}
    /\ delayedError' = (link' = "refused")
    /\ connectReq' = TRUE /\ activeReqs' = activeReqs + 1
    /\ polled' = polled \union {"OUT"}
    /\ fed' = (fed \/ delayedError')
    /\ UNCHANGED <<life, shutdownReq, writeVars, local, control, history>>

\* uv_pipe_connect2 that fails: the stream keeps its socket but no flags.
ConnectPipeFails ==
    /\ Program /\ life = "open" /\ link = "none" /\ ~connectReq
    /\ fd' = TRUE /\ link' = "refused"
    /\ delayedError' = TRUE /\ fed' = TRUE
    /\ connectReq' = TRUE /\ activeReqs' = activeReqs + 1
    /\ UNCHANGED <<life, flags, shutdownReq, writeVars, local, polled, control, history>>

\* uv_write2: not while connecting; at once if nothing is queued; else when the
\* descriptor is writable.
Write(w, n) ==
    /\ Program /\ fd /\ "WRITABLE" \in flags /\ error[w] = "unused"
    /\ left' = [left EXCEPT ![w] = n] /\ error' = [error EXCEPT ![w] = "ok"]
    /\ queueSize' = queueSize + n
    /\ writeQueue' = Append(writeQueue, w)
    /\ activeReqs' = activeReqs + 1
    /\ writing' = (~connectReq /\ queueSize = 0)
    /\ count' = IF writing' THEN WriteCount ELSE count
    /\ polled' = IF ~connectReq /\ queueSize # 0 THEN polled \union {"OUT"} ELSE polled
    /\ UNCHANGED <<handle, requestVars, completed, local, fed, at, cb, reads, history>>

\* uv_shutdown
Shutdown ==
    /\ Program /\ life = "open"
    /\ "WRITABLE" \in flags /\ "SHUT" \notin flags /\ ~shutdownReq
    /\ connectReq \/ at = "connectFailed" => EarlyShutdown
    /\ shutdownReq' = TRUE /\ activeReqs' = activeReqs + 1
    /\ flags' = flags \ {"WRITABLE"}
    /\ fed' = (fed \/ writeQueue = <<>>)
    /\ UNCHANGED <<life, fd, link, connectReq, delayedError, writeVars, local, polled, control, history>>

\* uv_read_start
ReadStart ==
    /\ Program /\ life = "open" /\ "READABLE" \in flags /\ "READING" \notin flags
    /\ flags' = flags \union {"READING"}
    /\ polled' = polled \union {"IN"}
    /\ UNCHANGED <<life, fd, link, requestVars, writeVars, local, activeReqs, fed, control, history>>

\* uv_read_stop
ReadStop ==
    /\ Program /\ "READING" \in flags
    /\ flags' = flags \ {"READING"}
    /\ polled' = polled \ {"IN"}
    /\ UNCHANGED <<life, fd, link, requestVars, writeVars, local, activeReqs, fed, control, history>>

\* uv_close, uv__stream_close; also uv_tcp_close_reset.
Close ==
    /\ Program /\ life = "open"
    /\ life' = "closing" /\ fd' = FALSE
    /\ polled' = {} /\ fed' = FALSE
    /\ flags' = flags \ {"READING", "READABLE", "WRITABLE"}
    /\ UNCHANGED <<link, requestVars, writeVars, local, activeReqs, control, history>>

-----------------------------------------------------------------------------
(* The kernel *)

\* The connect ends; the peer resets the connection.
Connected ==
    /\ link = "connecting" /\ link' \in {"up", "refused"}
    /\ UNCHANGED <<life, fd, flags, requestVars, writeVars, local, activeReqs, watcherVars, control, history>>

Reset ==
    /\ link = "up" /\ link' = "reset"
    /\ UNCHANGED <<life, fd, flags, requestVars, writeVars, local, activeReqs, watcherVars, control, history>>

-----------------------------------------------------------------------------
(* uv__write, one system call a step *)

\* Back to the caller: uv_write, or uv__stream_io, which goes on with the callbacks.
Return ==
    /\ writing' = FALSE /\ count' = 0
    /\ at' = IF at = "write" /\ ~cb THEN "callbacks" ELSE at

\* Mutant: the watcher is not fed.
FinishUnfed(w, e) ==
    /\ writeQueue' = Tail(writeQueue) /\ completed' = Append(completed, w)
    /\ error' = [error EXCEPT ![w] = e]
    /\ UNCHANGED fed

\* uv__write_req_finish
Finish(w, e) ==
    /\ writeQueue' = Tail(writeQueue) /\ completed' = Append(completed, w)
    /\ error' = [error EXCEPT ![w] = e]
    /\ fed' = TRUE

\* Mutant: one request too many.
MoreThan(c) == c >= 0

\* if (count-- > 0)
More(c) == c > 0

WriteNothing ==
    /\ writing /\ writeQueue = <<>>
    /\ Return
    /\ UNCHANGED <<handle, requestVars, writeVars, local, activeReqs, watcherVars, cb, reads, history>>

\* The call takes all that is left of the first request.
WriteAll ==
    /\ writing /\ writeQueue # <<>> /\ link = "up"
    /\ LET w == Head(writeQueue) IN
       /\ left' = [left EXCEPT ![w] = 0] /\ queueSize' = queueSize - left[w]
       /\ Finish(w, "ok")
    /\ IF More(count) THEN count' = count - 1 /\ UNCHANGED <<writing, at>>
                    ELSE Return
    /\ UNCHANGED <<handle, requestVars, local, activeReqs, polled, cb, reads, history>>

\* It takes a part, or nothing (EAGAIN): a blocking stream tries again, another
\* waits for the descriptor.
WriteSome ==
    /\ writing /\ writeQueue # <<>> /\ link = "up"
    /\ LET w == Head(writeQueue) IN
       \E n \in 0..(left[w] - 1) :
        /\ left' = [left EXCEPT ![w] = @ - n] /\ queueSize' = queueSize - n
        /\ n = 0 => "BLOCKING_WRITES" \notin flags
    /\ IF "BLOCKING_WRITES" \in flags
       THEN UNCHANGED <<writing, count, at, polled>>
       ELSE Return /\ polled' = polled \union {"OUT"}
    /\ UNCHANGED <<handle, requestVars, writeQueue, completed, error, local, activeReqs,
                   fed, cb, reads, history>>

\* It fails.
WriteFails ==
    /\ writing /\ writeQueue # <<>> /\ link # "up"
    /\ Finish(Head(writeQueue), "failed")
    /\ polled' = polled \ {"OUT"}
    /\ Return
    /\ UNCHANGED <<handle, requestVars, left, queueSize, local, activeReqs, cb, reads, history>>

-----------------------------------------------------------------------------
(* uv__stream_io *)

Loop(p) == at = p /\ ~cb /\ ~writing

Writable == link \in {"up", "refused", "reset"}

\* uv__stream_connect: a delayed error, or what the socket says.
ConnectError ==
    IF delayedError THEN {"failed"}
    ELSE CASE link = "connecting" -> {"ok", "in progress"}
           [] link = "up" -> {"ok"}
           [] OTHER -> {"failed"}

StreamConnect ==
    \E e \in ConnectError :
        /\ delayedError' = FALSE
        /\ IF e = "in progress"
           THEN UNCHANGED <<connectReq, activeReqs, polled, cb, at>>
           ELSE /\ connectReq' = FALSE /\ activeReqs' = activeReqs - 1
                /\ polled' = IF e = "failed" \/ writeQueue = <<>> THEN polled \ {"OUT"} ELSE polled
                /\ cb' = TRUE
                /\ at' = IF e = "failed" THEN "connectFailed" ELSE "loop"

\* The watcher is called for POLLOUT.
StreamOut ==
    IF connectReq
    THEN StreamConnect /\ UNCHANGED <<writing, count>>
    ELSE /\ writing' = TRUE /\ count' = WriteCount /\ at' = "write"
         /\ UNCHANGED <<connectReq, delayedError, activeReqs, polled, cb>>

\* uv__run_pending
RunPending ==
    /\ Loop("loop") /\ fed
    /\ fed' = FALSE
    /\ StreamOut
    /\ UNCHANGED <<handle, shutdownReq, writeVars, local, reads, history>>

PollOut ==
    /\ Loop("loop") /\ "OUT" \in polled /\ Writable
    /\ StreamOut
    /\ UNCHANGED <<handle, shutdownReq, writeVars, local, fed, reads, history>>

\* POLLIN while connecting counts as the connection's event, too.
PollIn ==
    /\ Loop("loop") /\ "IN" \in polled /\ Writable
    /\ IF connectReq
       THEN StreamConnect /\ UNCHANGED reads
       ELSE /\ at' = "read" /\ reads' = ReadCount
            /\ UNCHANGED <<connectReq, delayedError, activeReqs, polled, cb>>
    /\ UNCHANGED <<handle, shutdownReq, writeVars, local, fed, writing, count, history>>

\* After the connect callback: a connection that failed cancels what was written.
ConnectFailed ==
    /\ Loop("connectFailed")
    /\ IF fd
       THEN /\ local' = completed \o writeQueue
            /\ completed' = <<>> /\ writeQueue' = <<>>
            /\ error' = [w \in Writes |-> IF Contains(writeQueue, w) THEN "failed" ELSE error[w]]
            /\ at' = "lastCallbacks"
       ELSE at' = "loop" /\ UNCHANGED <<local, completed, writeQueue, error>>
    /\ UNCHANGED <<handle, requestVars, left, queueSize, activeReqs, watcherVars, cb, step, history>>

\* uv__write_callbacks takes the completed requests.
TakeCompleted ==
    /\ Loop("callbacks")
    /\ local' = completed /\ completed' = <<>>
    /\ at' = "calling"
    /\ UNCHANGED <<handle, requestVars, writeQueue, left, error, queueSize, activeReqs,
                   watcherVars, cb, step, history>>

\* Mutant: the rest of a failed request stays in write_queue_size.
NoRest(w) == 0

\* A failed request still has its buffers, and counts until now.
Rest(w) == IF error[w] = "failed" THEN left[w] ELSE 0

\* The next write callback.
CallWrite ==
    /\ at \in {"calling", "lastCallbacks", "destroyCallbacks"} /\ ~cb /\ ~writing /\ local # <<>>
    /\ LET w == Head(local) IN
       /\ local' = Tail(local)
       /\ queueSize' = queueSize - Rest(w)
       /\ verdict' = [verdict EXCEPT ![w] = error[w]]
    /\ activeReqs' = activeReqs - 1
    /\ cb' = TRUE
    /\ UNCHANGED <<handle, requestVars, writeQueue, completed, left, error, watcherVars, at, step, ended>>

Called ==
    /\ Loop("calling") /\ local = <<>>
    /\ at' = IF writeQueue = <<>> THEN "drain" ELSE "loop"
    /\ UNCHANGED <<handle, requestVars, writeVars, local, activeReqs, watcherVars, cb, step, history>>

CalledLast ==
    /\ Loop("lastCallbacks") /\ local = <<>>
    /\ at' = "loop"
    /\ UNCHANGED <<handle, requestVars, writeVars, local, activeReqs, watcherVars, cb, step, history>>

\* uv__drain: shutdown(2), which may fail, unless the stream is closing.
DrainTo(p) ==
    /\ at' = p
    /\ polled' = IF life = "open" THEN polled \ {"OUT"} ELSE polled
    /\ IF shutdownReq
       THEN /\ shutdownReq' = FALSE /\ activeReqs' = activeReqs - 1
            /\ flags' \in IF life = "open" THEN {flags, flags \union {"SHUT"}} ELSE {flags}
            /\ cb' = TRUE /\ ended' = TRUE
       ELSE UNCHANGED <<shutdownReq, activeReqs, flags, cb, ended>>

Drain ==
    /\ Loop("drain")
    /\ DrainTo("loop")
    /\ UNCHANGED <<life, fd, link, connectReq, delayedError, writeVars, local, fed, step, verdict>>

CallbackReturns ==
    /\ cb /\ ~writing
    /\ cb' = FALSE
    /\ UNCHANGED <<handle, requestVars, writeVars, local, activeReqs, watcherVars, at, step, history>>

-----------------------------------------------------------------------------
(* uv__read *)

\* The buffer is full and the loop of uv__read goes on, or it is not, or there is
\* nothing to read.
Read ==
    /\ Loop("read") /\ "READING" \in flags /\ reads > 0 /\ link = "up"
    /\ cb' = TRUE
    /\ at' \in {"read", "loop"}
    /\ reads' = reads - 1
    /\ UNCHANGED <<handle, requestVars, writeVars, local, activeReqs, watcherVars, writing, count, history>>

\* uv__stream_eof
ReadEof ==
    /\ Loop("read") /\ "READING" \in flags /\ reads > 0
    /\ flags' = flags \ {"READING"} /\ polled' = polled \ {"IN"}
    /\ cb' = TRUE /\ at' = "loop"
    /\ UNCHANGED <<life, fd, link, requestVars, writeVars, local, activeReqs, fed, step, history>>

\* An error: the stream is neither readable nor writable any more.
ReadFails ==
    /\ Loop("read") /\ "READING" \in flags /\ reads > 0 /\ link # "up"
    /\ flags' = flags \ {"READABLE", "WRITABLE"}
    /\ cb' = TRUE /\ at' = "readFailed"
    /\ UNCHANGED <<life, fd, link, requestVars, writeVars, local, activeReqs, watcherVars, step, history>>

ReadFailed ==
    /\ Loop("readFailed")
    /\ flags' = flags \ {"READING"}
    /\ polled' = IF "READING" \in flags THEN polled \ {"IN"} ELSE polled
    /\ at' = "loop"
    /\ UNCHANGED <<life, fd, link, requestVars, writeVars, local, activeReqs, fed, cb, step, history>>

ReadEnds ==
    /\ Loop("read") /\ ("READING" \notin flags \/ reads = 0)
    /\ at' = "loop"
    /\ UNCHANGED <<handle, requestVars, writeVars, local, activeReqs, watcherVars, cb, step, history>>

-----------------------------------------------------------------------------
(* uv__finish_close, uv__stream_destroy *)

FinishClose ==
    /\ Loop("loop") /\ life = "closing"
    /\ life' = "closed"
    /\ connectReq' = FALSE /\ cb' = connectReq
    /\ activeReqs' = IF connectReq THEN activeReqs - 1 ELSE activeReqs
    /\ at' = "destroy"
    /\ UNCHANGED <<fd, link, flags, delayedError, shutdownReq, writeVars, local, watcherVars, step, history>>

\* uv__stream_flush_write_queue and uv__write_callbacks
Destroy ==
    /\ Loop("destroy")
    /\ local' = completed \o writeQueue
    /\ completed' = <<>> /\ writeQueue' = <<>>
    /\ error' = [w \in Writes |-> IF Contains(writeQueue, w) THEN "failed" ELSE error[w]]
    /\ at' = "destroyCallbacks"
    /\ UNCHANGED <<handle, requestVars, left, queueSize, activeReqs, watcherVars, cb, step, history>>

DestroyDrain ==
    /\ Loop("destroyCallbacks") /\ local = <<>>
    /\ DrainTo("done")
    /\ UNCHANGED <<life, fd, link, connectReq, delayedError, writeVars, local, fed, step, verdict>>

-----------------------------------------------------------------------------
Writing == WriteNothing \/ WriteAll \/ WriteSome \/ WriteFails

\* What the loop does when it is on its way.
Running ==
    \/ Writing \/ ConnectFailed \/ TakeCompleted \/ CallWrite \/ Called \/ CalledLast \/ Drain
    \/ CallbackReturns \/ Read \/ ReadEof \/ ReadFails \/ ReadFailed \/ ReadEnds
    \/ Destroy \/ DestroyDrain

Next ==
    \/ Connect \/ ConnectPipeFails
    \/ \E w \in Writes, n \in Sizes : Write(w, n)
    \/ Shutdown \/ ReadStart \/ ReadStop \/ Close
    \/ Connected \/ Reset
    \/ RunPending \/ PollOut \/ PollIn \/ FinishClose
    \/ Running

Spec == Init /\ [][Next]_vars

(***************************************************************************)
(* The loop goes on, polls again and again and runs its pending and        *)
(* closing handles; callbacks return.  The kernel ends a connect and, as   *)
(* long as it reports the descriptor writable, takes data in the end.      *)
(***************************************************************************)
Fairness ==
    /\ WF_vars(Running) /\ WF_vars(Connected)
    /\ SF_vars(RunPending) /\ SF_vars(PollOut) /\ SF_vars(FinishClose)
    /\ SF_vars(WriteAll \/ WriteFails)

FairSpec == Spec /\ Fairness

-----------------------------------------------------------------------------
(* Properties *)

\* Every variable has its type.
TypeOK ==
    /\ life \in {"open", "closing", "closed"} /\ fd \in BOOLEAN
    /\ link \in {"none", "connecting", "up", "refused", "reset"}
    /\ flags \subseteq {"READABLE", "WRITABLE", "SHUT", "READING", "BLOCKING_WRITES"}
    /\ connectReq \in BOOLEAN /\ delayedError \in BOOLEAN /\ shutdownReq \in BOOLEAN
    /\ writeQueue \in Seq(Writes) /\ completed \in Seq(Writes) /\ local \in Seq(Writes)
    /\ left \in [Writes -> 0..MaxSize] /\ error \in [Writes -> {"unused", "ok", "failed"}]
    /\ queueSize \in Nat /\ activeReqs \in Nat
    /\ polled \subseteq {"IN", "OUT"} /\ fed \in BOOLEAN
    /\ at \in {"loop", "connectFailed", "write", "callbacks", "calling", "lastCallbacks", "drain",
               "read", "readFailed", "destroy", "destroyCallbacks", "done"}
    /\ cb \in BOOLEAN /\ writing \in BOOLEAN /\ count \in 0..WriteCount /\ reads \in 0..ReadCount
    /\ ended \in BOOLEAN /\ verdict \in [Writes -> {"none", "ok", "failed"}]

Unanswered == local \o completed \o writeQueue

Bytes(q) == Total(q, left)

\* write_queue_size is what the requests still have to write, those included
\* that failed and wait for their callback; the loop counts every request that
\* waits for its callback, and none else.  uv__stream_destroy asserts that
\* nothing is left in the end.
CountsAreExact ==
    /\ queueSize = Bytes(Unanswered)
    /\ activeReqs = Len(Unanswered) + (IF connectReq THEN 1 ELSE 0) + (IF shutdownReq THEN 1 ELSE 0)
    /\ at = "done" => queueSize = 0 /\ activeReqs = 0

\* "blocking streams should never have anything in the queue" when the program
\* writes (stream.c:1387-1392).
BlockingIsFlushed ==
    "BLOCKING_WRITES" \in flags /\ Program /\ "WRITABLE" \in flags => queueSize = 0

\* "The shutdown(2) call will always be deferred until uv__drain"
\* (stream.c:1173-1174): uv__drain comes.
ShutdownCompletes == shutdownReq ~> ~shutdownReq

Requests == INSTANCE StreamRequests WITH
    connection <- IF connectReq THEN "asked" ELSE IF link = "none" THEN "none" ELSE "answered",
    unsent <- writeQueue,
    unanswered <- Unanswered,
    sent <- {w \in Writes : error[w] = "ok" /\ left[w] = 0 /\ ~Contains(writeQueue, w)},
    verdict <- verdict,
    end <- IF shutdownReq THEN "asked" ELSE IF ended THEN "answered" ELSE "no"

\* The stream answers its requests as StreamRequests says: each once, writes in
\* order and truthfully, whatever callbacks do and whenever it is closed.
ImplementsStreamRequests == Requests!Spec
=============================================================================
